\* One replica and one worker, either of which may die at any step; a dispatch
\* lease may lapse while its owner is still publishing.
SPECIFICATION FairSpec
CONSTANTS
    Replicas = {r1}
    Pollers = {p1}
    NoOne = NoOne
    MaxWindow = 1
    MaxJobs = 1
    LeaseOutlivesPublish = FALSE
PROPERTIES
    WindowServed
CHECK_DEADLOCK FALSE
