SPECIFICATION Spec
CONSTANTS
    NoValue = NoValue
    s1 = s1
    s2 = s2
    c1 = c1
    c2 = c2
    Runs = {r1, r2}
    Students = {s1, s2}
    Months = {m1}
    Heads = {h1}
    Classes = {c1}
    ClassOf <- OneClass
    Amounts = {1, 2}
    Frequencies = {"monthly", "one_time"}
    Editable = TRUE
    PoolSize = 2
SYMMETRY Interchangeable
INVARIANT TypeOK
INVARIANT WholeMonthOrNothing
CHECK_DEADLOCK FALSE
