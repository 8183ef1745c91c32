\* A new broker or a known one, two applications and no request, one lost connection
\* or restart.
SPECIFICATION FairSpec
CONSTANTS
    a = a
    b = b
    odd = odd
    Sanitize <- Spelling
    Name = {a, b}
    StartApps = {a, b}
    Image = {}
    Established = {{}, {a, b}}
    MaxRetries = 2
    MaxChannel = 2
    MaxRequests = 0
    MaxFaults = 0
INVARIANTS
    SkipsNeedLostChannels
PROPERTIES
    RetriesNeedDisruption
    ConsumersComeBack
\* Nothing happens once every consumer is registered and every request sent.
CHECK_DEADLOCK FALSE
