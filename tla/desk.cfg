SPECIFICATION Spec
CONSTANTS
    Unknown = Unknown
    Unclassified = "Unclassified"
    Symbols = {s1, s2}
    Requests = {r1, r2}
    Fixtures = {s2}
    Alpaca = TRUE
    Sector <- OneSector
    Prices = {12, 24}
    Quantities = {1}
    Orders <- AllOrders
    Quants <- QuantsOfTheDay
    None = None
    OpeningPrices <- AtCost
    OpeningBook <- OneHeld
    OpeningScreens = {s1}
    MaxDay = 1
    DaysPerWeek = 2
    EventBudget = 2
    MaxPosition = 36
    MaxTotalExposure = 48
    MaxSectorExposure = 36
    MaxLossPerTrade = 24
    MaxDailyLoss = 0
    MaxWeeklyLoss = 12
    MaxOrdersPerDay = 1
SYMMETRY Symmetric
INVARIANTS TypeOK OrdersWithinCap  ApprovedWasPermitted LossesStopTrading
CHECK_DEADLOCK FALSE
