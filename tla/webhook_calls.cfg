\* Two calls of two attempts and a refused one, a failing write, one crash.
SPECIFICATION FairSpec
CONSTANTS
    c1 = c1
    c2 = c2
    c3 = c3
    Call = {c1, c2, c3}
    BadUrl = {c3}
    MaxRetries = 2
    RetryDelays <- ShortDelays
    DefaultDelay = 5
    MaxFaults = 1
    MaxCrashes = 1
INVARIANTS
    TypeOK
    SuccessIsAccepted
    EarlierAttemptsClosed
    PendingRowNeedsCause
    FailureReportsLastAttempt
    RetriesArePaced
PROPERTIES
    SendReturns
    SendAdvances
    ImplementsContract
\* Nothing happens once every call has ended and every post is answered.
CHECK_DEADLOCK FALSE
