\* One transaction, two answers and one without a status, two failing calls.
SPECIFICATION Spec
CONSTANTS
    t1 = t1
    t2 = t2
    t3 = t3
    Txn = {t1}
    Stray = {}
    BadUrl = {}
    Malformed <- SecondAnswer
    MaxResponses = 3
    MaxEpoch = 0
    MaxFaults = 2
INVARIANTS
    TypeOK
    SuccessMeansAccepted
    AuditGapNeedsDisruption
    DeadLetterNeedsCause
    CacheTellsStatus
PROPERTIES
    SettledIsForever
    ImplementsProtocol
\* The bridge is quiescent once every message is settled.
CHECK_DEADLOCK FALSE
