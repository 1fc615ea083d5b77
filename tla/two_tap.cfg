SPECIFICATION Spec
CONSTANTS
    None = None
    Proposals = {p1}
    Rows = {q1, q2}
    Relays = {x1, x2}
    FaultBudget = 2
SYMMETRY Symmetric
INVARIANTS TypeOK OneSendPerProposal SentOnTwoTaps StoppedIsNeverSent
PROPERTIES PromiseKept
CHECK_DEADLOCK FALSE
