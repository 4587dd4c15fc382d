SPECIFICATION Spec
CONSTANTS
    r1 = r1  r2 = r2  r3 = r3
    founder = founder  stranger = stranger  old = old  new = new
    Requests = {r1, r2, r3}
    People = {founder, stranger}
    Schools = {old, new}
    Roles = {"admin", "teacher"}
    Enrolled <- MCEnrolled
    Joining <- MCJoining
    Founded = {old}
    OTP_MAX_PER_HOUR = 1
    Texting = {stranger}
    MaxCount = 2
    MaxClock = 2
    MaxInFlight = 2
    First = First
    NoValue = NoValue
SYMMETRY RequestSymmetry
INVARIANTS TypeOK CodeAdmitsOnce TokensAreEarned OnlyCrashLocksOut SlipHolds
PROPERTIES ChangeKnowsOld
CHECK_DEADLOCK FALSE
