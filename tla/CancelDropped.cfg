\* In-memory store, no fault: a cancel is recorded while a booking is in flight.
SPECIFICATION FairSpec
CONSTANTS
    MaxAttempts = 2
    MaxSeq = 1
    MaxToken = 1
    Workers = {w1}
    Clients = {c1}
    Sweepers = {s1}
    AtomicStore = TRUE
    LeaseOutlivesTask = TRUE
    Faults = {}
    CancelTries = 1
PROPERTY
    CancelRequestResolved
CHECK_DEADLOCK FALSE
