SPECIFICATION FairSpec
CONSTANTS
    b1 = b1
    s1 = s1
    s2 = s2
    None = None
    Rows <- OnePurchase
    Handlers = {h1, h2}
    Orders = {o1}
    Adapter = "alpaca"
    Side <- SideOf
    Qty <- QtyOf
    Opening = 0
    Reviews <- MainReviews
    SettingsSeen <- AlwaysEnabled
    FaultBudget = 2
PROPERTIES FillsAreBooked
CHECK_DEADLOCK FALSE
