SPECIFICATION Spec
CONSTANTS
    NoValue = NoValue
    Requests = {r1, r2}
    Invoices = {i1}
    GatewayIds = {g1, g2}
    Amounts = {1}
    Dues = {2}
    Offered = {"verify"}
    PoolSize = 2
    MaxDay = 1
SYMMETRY Identities
PROPERTY OnlinePaymentFitsBalance
CHECK_DEADLOCK FALSE
