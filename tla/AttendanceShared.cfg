SPECIFICATION Spec
CONSTANTS
    NoValue = NoValue
    Requests = {r1, r2, r3}
    Teachers = {t1}
    Admins = {a1}
    Students = {s1, s2}
    Leaving = {s1}
    Statuses = {"present"}
    Sessions = {"full_day", "period"}
    PoolSize = 2
SYMMETRY Interchangeable
INVARIANT TypeOK
INVARIANT OneWholeSheet
INVARIANT ToldOkIsRecorded
INVARIANT SummaryWasRecorded
CHECK_DEADLOCK FALSE
