\* One watch with a client and two accounts; a few attempts at one email and one peer;
\* a day of nine minutes; a legacy record with two attempts left.
SPECIFICATION SpecAll
CONSTANTS
    Clients = {c1}
    Users = {u1, u2}
    None = None
    MaxRev = 2
    MaxTime = 1
    Workers = {x1, x2}
    x1 = x1
    x2 = x2
    a0 = a0
    a1 = a1
    a2 = a2
    a3 = a3
    a4 = a4
    n1 = n1
    n2 = n2
    e0 = e0
    e1 = e1
    e2 = e2
    p1 = p1
    Logins = {a0, a1, a2, a3, a4}
    Signups = {n1, n2}
    Before = {a0}
    Casts = {{a1, a2, a4}, {a1, a2}, {a3, n1, n2}}
    Emails = {e0, e1, e2}
    Peers = {p1}
    Registered = {e1}
    EmailOf <- EmailOfEach
    PeerOf <- PeerOfEach
    Nobody = Nobody
    MaxEmail = 1
    MaxPeer = 2
    Window = 1
    Tracked = 2
    Slots = 1
    Twice = FALSE
    MaxMinute = 1
    Day = 9
    Interval = 3
    MaxSlots = 2
    Extractions <- Asks
    Venues <- VenuesHere
    Settings <- Plans
    MaxLate = 1
    MaxStreak = 5
    Pollers = {w1, w2}
    Coordinators = {r1, r2}
    Cancellers = {k1}
    NoOne = NoOne
    MaxAttempts = 2
    MaxSideRev = 1
    MaxJobs = 1
    w2 = w2
    r2 = r2
INVARIANTS
    HistorySound
    AccountWatchGuarded
    ThrottleSound
    AccountsSound
    OffersSound
    PacingSound
    LegacySound
PROPERTIES
    HistoryKept
    NeverHotPolls
    WindowNeverRewinds
CHECK_DEADLOCK FALSE
