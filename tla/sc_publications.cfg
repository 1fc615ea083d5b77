SPECIFICATION Spec
CONSTANTS
    None = None
    Publications <- Dates
    Tickers = {t1}
    Operators = {a1, a2}
    Admins = {a1, a2}
    Requests = {r1}
    FaultBudget = 1
SYMMETRY Symmetric
INVARIANTS TypeOK OneActive ActivatedWasVetted AnswersAreRulings
PROPERTIES WithdrawnIsFinal ActivatedIsFrozen
CHECK_DEADLOCK FALSE
