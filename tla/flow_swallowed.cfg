\* A swallowed publish failure leaves no message to retry.
SPECIFICATION FairSpec
CONSTANTS
    t1 = t1
    t2 = t2
    t3 = t3
    Txn = {t1}
    Stray = {}
    BadUrl = {}
    Malformed <- NoAnswer
    MaxResponses = 1
    MaxEpoch = 0
    MaxFaults = 1
PROPERTIES
    SentWebhookReachesConsumer
\* The bridge is quiescent once every message is settled.
CHECK_DEADLOCK FALSE
