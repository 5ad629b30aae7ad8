\* In-memory store: cancel and expire are critical sections, a delivery dies
\* only with the store, and ambiguous bookings can be reconciled.
SPECIFICATION Spec
CONSTANTS
    MaxAttempts = 3
    MaxSeq = 3
    MaxToken = 4
    Workers = {w1, w2}
    Clients = {c1}
    Sweepers = {s1}
    AtomicStore = TRUE
    LeaseOutlivesTask = TRUE
    Faults = {"error"}
    CancelTries = 1
SYMMETRY Symmetry
INVARIANTS
    CancellationNeverLies
PROPERTIES
    AttemptsNeverFall
CHECK_DEADLOCK FALSE
