SPECIFICATION Spec
CONSTANTS
    Askers = {a1}
    Scheduler = scheduler
    Compliance = "portfolio_compliance"
    Publications = "publications"
    Screens = {"portfolio_compliance"}
    Lifetime <- OneTick
    DiskLifetime = 1
    RequestTimeout = 1
    AcquireTimeout = 1
    MaxAttempts = 2
    MaxEntries = 1
    Capacity = 1
    Refill = 1
    MaxPublication = 2
    None = None
INVARIANTS TypeOK AnswersStayFresh JobsCanBeBelieved
PROPERTIES EveryCallEnds
