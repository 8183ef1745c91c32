\* Two requests, a registration, an edit and a seeding, in any order.
SPECIFICATION FairSpec
CONSTANTS
    k1 = k1
    alt = alt
    k2 = k2
    low = low
    up = up
    other = other
    code = code
    second = second
    home = home
    mapped = mapped
    away = away
    Key = {k1, alt, k2}
    Spelling = {low, up, other}
    Code = {code, second}
    Sent = {alt, k2}
    Fold <- Collation
    Sanitize <- Codes
    Ip = {home, away}
    NormalizeIp <- Addresses
    Creation = {1}
    Form <- Forms
    Slot = {1, 2}
    Seed <- Seeds
    MaxEdits = 1
INVARIANTS
    TypeOK
    ApplicationsDistinct
    ActsForKeyOwner
    KnownKeyAccepted
PROPERTIES
    StalenessEnds
