SPECIFICATION Spec
CONSTANTS
    NoValue = NoValue
    Requests = {r1, r2, r3}
    Invoices = {i1, i2}
    GatewayIds = {g1}
    Amounts = {1}
    Dues = {1}
    Offered = {"verify", "generate"}
    PoolSize = 2
    MaxDay = 1
PROPERTY EveryRequestEnds
CHECK_DEADLOCK FALSE
