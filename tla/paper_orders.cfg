SPECIFICATION Spec
CONSTANTS
    b1 = b1
    s1 = s1
    s2 = s2
    None = None
    Rows <- TwoRows
    Handlers = {h1, h2}
    Orders = {o1, o2}
    Adapter = "alpaca"
    Side <- SideOf
    Qty <- QtyOf
    Opening = 0
    Reviews <- MainReviews
    SettingsSeen <- Toggled
    FaultBudget = 2
SYMMETRY Symmetric
INVARIANTS TypeOK OneOrderPerRow OnlyClearedOrders BookedIsFilled PositionMatchesFills
PROPERTIES OrderNeverForgotten PromiseKept
CHECK_DEADLOCK FALSE
