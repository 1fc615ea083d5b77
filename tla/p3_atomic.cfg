SPECIFICATION Spec
CONSTANTS
    None = None
    Orders = {o1, o2}
    Workers = {w1, w2}
    Prices <- Closes
    OpeningCash = 3
    OpeningShares = 1
    FaultBudget = 1
SYMMETRY Symmetric
INVARIANTS AtomicInPart
CHECK_DEADLOCK FALSE
