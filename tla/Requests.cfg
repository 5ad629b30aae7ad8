\* Two equal requests, a rival and a search over two slots, one of which fits.
SPECIFICATION SpecAll
CONSTANTS
    r1 = r1
    r2 = r2
    r3 = r3
    r4 = r4
    s1 = s1
    s2 = s2
    k1 = k1
    k2 = k2
    Requests = {r1, r2, r3, r4}
    Ops = {r1, r2, r3, r4}
    Slots = {s1, s2}
    Keys = {k1, k2}
    KeyOf <- Owners
    QueryOf <- Queries
    None = None
    Capacity = 1
    IdleTTL = 1
    PinTTL = 1
    Retention = 2
    Grace = 1
    BatchSize = 1
    Skew = 1
    MaxTime = 3
    Sids = {t1, t2}
    IdKeys = {b1, b2}
    OpIds = {o1, o2}
    KeyGrace = 0
    MaxClock = 2
    Callers = {c1}
    Empty = Empty
SYMMETRY Symmetry
INVARIANTS
    StoreSound
    ConfirmedIsHeld
    IndexesAgree
PROPERTIES
    HeldKept
    NoFalseSoldOut
    StoreSpec
CHECK_DEADLOCK FALSE
