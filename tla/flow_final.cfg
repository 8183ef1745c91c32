\* A final status is overwritten by the late PUBLISHED.
SPECIFICATION Spec
CONSTANTS
    t1 = t1
    t2 = t2
    t3 = t3
    Txn = {t1}
    Stray = {}
    BadUrl = {}
    Malformed <- NoAnswer
    MaxResponses = 1
    MaxEpoch = 0
    MaxFaults = 0
PROPERTIES
    TerminalIsFinal
\* The bridge is quiescent once every message is settled.
CHECK_DEADLOCK FALSE
