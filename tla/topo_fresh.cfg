\* A new broker or a known one, a request with an odd spelling or for a check-image,
\* one lost connection or restart.
SPECIFICATION FairSpec
CONSTANTS
    a = a
    b = b
    odd = odd
    Sanitize <- Spelling
    Name = {a, odd}
    StartApps = {a}
    Image = {odd}
    Established = {{}, {a}}
    MaxRetries = 2
    MaxChannel = 2
    MaxRequests = 1
    MaxFaults = 1
INVARIANTS
    TypeOK
    RequestNeverDropped
    WebhookDropNeedsOddCode
PROPERTIES
    RequestAnswered
\* Nothing happens once every consumer is registered and every request sent.
CHECK_DEADLOCK FALSE
