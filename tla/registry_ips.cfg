\* A registered client is refused for the address it registered.
SPECIFICATION Spec
CONSTANTS
    k1 = k1
    alt = alt
    k2 = k2
    low = low
    up = up
    other = other
    code = code
    second = second
    home = home
    mapped = mapped
    away = away
    Key = {k1, alt, k2}
    Spelling = {low, up, other}
    Code = {code, second}
    Sent = {k1, alt, k2}
    Fold <- Collation
    Sanitize <- Codes
    Ip = {home, mapped}
    NormalizeIp <- Addresses
    Creation = {1}
    Form <- Forms
    Slot = {1}
    Seed <- Seeds
    MaxEdits = 0
INVARIANTS
    RegisteredIpIsAllowed
