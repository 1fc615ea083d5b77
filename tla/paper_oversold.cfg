SPECIFICATION Spec
CONSTANTS
    b1 = b1
    s1 = s1
    s2 = s2
    None = None
    Rows <- TwoSales
    Handlers = {h1, h2}
    Orders = {o1, o2}
    Adapter = "alpaca"
    Side <- SideOf
    Qty <- QtyOf
    Opening = 1
    Reviews <- ClearedOnly
    SettingsSeen <- AlwaysEnabled
    FaultBudget = 0
SYMMETRY Symmetric
INVARIANTS SalesAreCovered
CHECK_DEADLOCK FALSE
