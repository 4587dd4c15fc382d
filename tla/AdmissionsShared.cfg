SPECIFICATION Spec
CONSTANTS
    r1 = r1  r2 = r2  r3 = r3
    p1 = p1  p2 = p2
    Requests = {r1, r2, r3}
    Phones = {p1, p2}
    Tables <- MCTables
    MaxNumber = 3
    MaxLines = 2
    PoolSize = 2
    NotGiven = NotGiven
    Staff = Staff
    NoValue = NoValue
SYMMETRY RequestSymmetry
INVARIANTS TypeOK WholeLinesOnly PreviewIsHonest
CHECK_DEADLOCK FALSE
