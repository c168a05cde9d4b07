SPECIFICATION MCSpec
CONSTANTS
    ip = ip
    Ids = {s1, s2, s3}
    Keys = {k1}
    NoKey = NoKey
    TTL = 1
    Limits <- MCLimits
    TotalCap = 3
    KeyCap = 1
    MaxNow = 2
    Requests = {r1, r2}
    Browsers = {b1}
    Accounts = {a1}
    AddressOf <- MCAddressOf
    NoId = NoId
    MaxAttempts = 2
    Window = 1
    CacheKeys = {x1, x2, x3, x4}
    TTLs = {1, 3}
    Ceilings = {0, 1, 2, 3}
    CacheTime = 4
    Jtis = {j1, j2}
    Validations = {v1, v2}
    TokenTTLs = {1, 4}
    Second = 2
    TokenTime = 7
    MaxBoots = 1
    Sids = {s1, s2, s3}
    Images = {i1, i2, i3}
    Submits = {r1, r2}
    Nobody = Nobody
SYMMETRY MCSymmetry
INVARIANTS
    SessionsSound
    ThrottleBound
    SentSessionEnds
    RevokedStaysOut
    CodesAreUsedUp
PROPERTIES
    FailuresRemembered
    RoomIsMade
CHECK_DEADLOCK FALSE
