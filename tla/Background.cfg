\* Three tasks and two windows; three watches and one dead marker for a batch of
\* two; one poll and one recovery pass over one old record.
SPECIFICATION SpecAll
CONSTANTS
    None = None
    Tasks = {t1, t2, t3}
    LegacyJobs = TRUE
    MaxWindow = 1
    Watches = {w1, w2, w3}
    Zombies = {z1}
    BatchSize = 2
    MaxFaults = 1
    Pollers = {p1}
    Coordinators = {c1}
    Cancellers = {k1}
    NoOne = NoOne
    MaxAttempts = 2
    MaxSideRev = 1
    MaxJobs = 1
INVARIANTS
    QueueSound
    ProcessSound
    ReadyHasEvidence
PROPERTIES
    CloseReturns
    Stops
    EveryWatchServed
    IndexedSettles
CHECK_DEADLOCK FALSE
