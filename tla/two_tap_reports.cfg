SPECIFICATION Spec
CONSTANTS
    None = None
    Proposals = {p1, p2}
    Rows = {q1, q2}
    Relays = {x1}
    FaultBudget = 0
SYMMETRY Symmetric
INVARIANTS CardsOrStoreAreRight
CHECK_DEADLOCK FALSE
