\* An unknown id and a refused webhook URL, three channels and a failing call.
SPECIFICATION Spec
CONSTANTS
    t1 = t1
    t2 = t2
    t3 = t3
    Txn = {t2, t3}
    Stray = {t2}
    BadUrl = {t3}
    Malformed <- NoAnswer
    MaxResponses = 1
    MaxEpoch = 2
    MaxFaults = 1
INVARIANTS
    DeadLetterNeedsCause
    AckedResponseRecorded
    UnackedIsHandled
\* The bridge is quiescent once every message is settled.
CHECK_DEADLOCK FALSE
