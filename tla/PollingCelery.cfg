\* Redis store with Celery's time limits: a lease lapses only after its task
\* is dead.  Liveness under a fair recovery sweep.
SPECIFICATION FairSpec
CONSTANTS
    MaxAttempts = 2
    MaxSeq = 1
    MaxToken = 2
    Workers = {w1, w2}
    Clients = {c1}
    Sweepers = {s1}
    AtomicStore = FALSE
    LeaseOutlivesTask = TRUE
    Faults = {"timeout"}
    CancelTries = 1
INVARIANTS
    SingleFlight
PROPERTIES
    LifecycleSpec
    WatchFinishes
CHECK_DEADLOCK FALSE
