SPECIFICATION Spec
CONSTANTS
    NoValue = NoValue
    Requests = {r1, r2, r3, r4}
    Invoices = {i1}
    GatewayIds = {g1}
    Amounts <- MCAmounts
    Dues = {2}
    Offered = {"verify", "collect", "income", "void"}
    PoolSize = 1
    MaxDay = 2
SYMMETRY Identities
INVARIANT StatusMatchesLedger
INVARIANT SummaryMatchesLedger
PROPERTY OnlinePaymentFitsBalance
CHECK_DEADLOCK FALSE
