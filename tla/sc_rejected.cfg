SPECIFICATION Spec
CONSTANTS
    None = None
    Publications <- Dates
    Tickers = {t1}
    Operators = {a1, a2}
    Admins = {a1, a2}
    Requests = {r1}
    FaultBudget = 0
SYMMETRY Symmetric
INVARIANTS RejectedIsFinal
CHECK_DEADLOCK FALSE
