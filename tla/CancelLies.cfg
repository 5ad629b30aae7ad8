\* Redis store, no provider fault, no lapsed lease: a cancel races a booking permit.
SPECIFICATION FairSpec
CONSTANTS
    MaxAttempts = 2
    MaxSeq = 1
    MaxToken = 1
    Workers = {w1}
    Clients = {c1}
    Sweepers = {s1}
    AtomicStore = FALSE
    LeaseOutlivesTask = TRUE
    Faults = {}
    CancelTries = 1
INVARIANT
    CancellationNeverLies
CHECK_DEADLOCK FALSE
