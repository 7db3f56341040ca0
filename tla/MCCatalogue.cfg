SPECIFICATION Spec
CONSTANTS
    Requests = {p, q}
    BreakTables <- Breaks
    MaxRows = 2
    MaxBegun = 4
    MaxForm = 1
SYMMETRY Symmetry
INVARIANTS
    EditsStand
    CostsOfTheirInputs
    AnswerHonest
CHECK_DEADLOCK FALSE
