\* A drop during a check uses up the shared retry count.
SPECIFICATION FairSpec
CONSTANTS
    a = a
    b = b
    odd = odd
    Sanitize <- Spelling
    Name = {a}
    StartApps = {a}
    Image = {}
    Established = {{a}}
    MaxRetries = 2
    MaxChannel = 2
    MaxRequests = 0
    MaxFaults = 0
PROPERTIES
    StartupConsumersRegister
\* Nothing happens once every consumer is registered and every request sent.
CHECK_DEADLOCK FALSE
