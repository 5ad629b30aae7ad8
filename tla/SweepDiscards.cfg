\* In-memory store, no fault: the deadline passes while a booking is in flight.
SPECIFICATION FairSpec
CONSTANTS
    MaxAttempts = 2
    MaxSeq = 1
    MaxToken = 1
    Workers = {w1}
    Clients = {c1}
    Sweepers = {s1}
    AtomicStore = TRUE
    LeaseOutlivesTask = TRUE
    Faults = {}
    CancelTries = 1
INVARIANT
    ConfirmedBookingKept
CHECK_DEADLOCK FALSE
