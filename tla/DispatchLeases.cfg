\* Two replicas whose leader lease may lapse under a pass, two workers.
SPECIFICATION Spec
CONSTANTS
    Replicas = {r1, r2}
    Pollers = {p1, p2}
    NoOne = NoOne
    MaxWindow = 1
    MaxJobs = 2
    LeaseOutlivesPublish = TRUE
SYMMETRY Symmetry
INVARIANTS
    TypeOK
    SinglePublisher
    NoJobAhead
PROPERTIES
    CadenceMovedByOwner
CHECK_DEADLOCK FALSE
