SPECIFICATION Spec
CONSTANTS
    Nothing = Nothing
    NotANumber = NotANumber
    Requests = {r1, r2}
    Settings = {"fees.due_date_day", "features.online_payments"}
    Texts <- MCTexts
    TTL = 2
    MaxWrites = 2
    PoolSize = 2
    RedisMayFail = TRUE
INVARIANT TypeOK
INVARIANT ServedSnapshot
INVARIANT ServedWellTyped
PROPERTY StaleEntryGoes
