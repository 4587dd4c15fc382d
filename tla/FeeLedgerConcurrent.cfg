SPECIFICATION Spec
CONSTANTS
    NoValue = NoValue
    Requests = {r1, r2, r3}
    Invoices = {i1, i2}
    GatewayIds = {g1}
    Amounts <- MCAmounts
    Dues = {1, 2}
    Offered = {"verify", "collect", "void", "generate"}
    PoolSize = 2
    MaxDay = 1
SYMMETRY Identities
INVARIANT TypeOK
INVARIANT GatewayPaymentOnce
INVARIANT AcknowledgedIsRecorded
INVARIANT SummaryCountsCommitted
INVARIANT OnlyGeneratorsDeadlock
INVARIANT SettledIsBacked
PROPERTY LedgerAppendOnly
PROPERTY CreditsOnce
CHECK_DEADLOCK FALSE
