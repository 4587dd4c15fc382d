SPECIFICATION Spec
CONSTANTS
    r1 = r1  r2 = r2  r3 = r3
    principal = principal  teacher = teacher  mother = mother  pupil = pupil
    leave = leave  idea = idea
    Requests = {r1, r2, r3}
    Users = {principal, teacher, mother, pupil}
    Leaves = {leave}
    Suggestions = {idea}
    Memberships <- MCMemberships
    Joining <- MCJoining
    Section = {mother, pupil}
    Audiences = {"all", "section"}
    AccountOf <- MCAccountOf
    MaxRows = 3
    PoolSize = 2
    NoValue = NoValue
SYMMETRY RequestSymmetry
INVARIANTS TypeOK DecisionAnnounced NoticeReachesAudience
PROPERTIES OnlyOverlapRedecides
CHECK_DEADLOCK FALSE
