\* Redis store, no fault: a cancel or expiry reads document and sidecar around a commit.
SPECIFICATION FairSpec
CONSTANTS
    MaxAttempts = 2
    MaxSeq = 1
    MaxToken = 1
    Workers = {w1}
    Clients = {c1}
    Sweepers = {s1}
    AtomicStore = FALSE
    LeaseOutlivesTask = TRUE
    Faults = {}
    CancelTries = 1
PROPERTY
    AttemptsNeverFall
CHECK_DEADLOCK FALSE
