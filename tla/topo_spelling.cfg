\* A webhook is published under a spelling no queue has.
SPECIFICATION Spec
CONSTANTS
    a = a
    b = b
    odd = odd
    Sanitize <- Spelling
    Name = {a, odd}
    StartApps = {a}
    Image = {}
    Established = {{a}}
    MaxRetries = 2
    MaxChannel = 1
    MaxRequests = 2
    MaxFaults = 0
INVARIANTS
    WebhookNeverDropped
\* Nothing happens once every consumer is registered and every request sent.
CHECK_DEADLOCK FALSE
