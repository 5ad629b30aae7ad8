\* Redis store, Celery deliveries: reads and scripts of cancel and expire are
\* separate steps, deliveries crash, leases lapse while their task still runs.
SPECIFICATION Spec
CONSTANTS
    MaxAttempts = 2
    MaxSeq = 1
    MaxToken = 2
    Workers = {w1, w2}
    Clients = {c1}
    Sweepers = {s1}
    AtomicStore = FALSE
    LeaseOutlivesTask = FALSE
    Faults = {"error", "timeout", "unknown"}
    CancelTries = 2
SYMMETRY Symmetry
INVARIANTS
    TypeOK
    NeverStranded
    WindowChargedOnce
    AnnouncedOnce
    NoPhantomBooking
PROPERTIES
    TerminalIsFinal
    NoLostCommit
CHECK_DEADLOCK FALSE
