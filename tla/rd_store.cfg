SPECIFICATION FairRSpec
CONSTANTS
    Clients = {c1, c2}
    Fields = {f1, f2}
    LockTTL = 2
    Retries = 1
    Expirations = {0, 1, 2}
    TicksPerSecond = 2
    MaxLockSends = 3
    MaxHashSends = 2
INVARIANTS
    LeaseHeld
    CreatedHashExpires
PROPERTIES
    OrphansExpire
    FieldsVanishForAReason
CHECK_DEADLOCK FALSE
