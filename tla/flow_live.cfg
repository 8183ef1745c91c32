\* One transaction over a drop, a stale settlement or two crashes, to its conclusion.
SPECIFICATION FairSpec
CONSTANTS
    t1 = t1
    t2 = t2
    t3 = t3
    Txn = {t1}
    Stray = {}
    BadUrl = {}
    Malformed <- NoAnswer
    MaxResponses = 1
    MaxEpoch = 2
    MaxFaults = 0
INVARIANTS
    SettledWebhookConcluded
PROPERTIES
    ImplementsProtocol
    ResponseReachesConclusion
\* The bridge is quiescent once every message is settled.
CHECK_DEADLOCK FALSE
