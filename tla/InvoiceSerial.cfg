SPECIFICATION Spec
CONSTANTS
    NoValue = NoValue
    s1 = s1
    s2 = s2
    c1 = c1
    c2 = c2
    Runs = {r1, r2, r3}
    Students = {s1, s2}
    Months = {m1, m2}
    Heads = {h1, h2}
    Classes = {c1, c2}
    ClassOf <- TwoClasses
    Amounts = {1}
    Frequencies = {"quarterly", "one_time"}
    Editable = FALSE
    PoolSize = 1
SYMMETRY Interchangeable
INVARIANT OneTimeBilledOnce
CHECK_DEADLOCK FALSE
