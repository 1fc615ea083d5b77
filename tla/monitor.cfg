SPECIFICATION Spec
CONSTANTS
    None = None
    Securities = {s1, s2}
    Outcomes <- Verdicts
    Runs = {r1}
    Sweeps = {w1}
    Sellers = {u1}
    OpeningHoldings = {s1, s2}
    MaxReports = 2
    MaxQuantity = 1
    MaxSales = 1
    MaxDay = 1
    EventBudget = 2
INVARIANTS TypeOK EveryColourAnnounced
PROPERTIES PendingSalesResolve LightsFollowTheAuthority DutiesFollowTheHoldings ClearedByItsOwnCheck ClockKeepsItsStart
CHECK_DEADLOCK FALSE
