\* Progress of the loop through failing calls, crashes and shutdowns.
CONSTANTS
    NULL = NULL
    Tasks = {t1}
    Runs = {r1}
    Steps = {}
    Actors = {dispatcher}
    Schedules = {}
    RetryLimits = {}
    Ttls = {2}
    MaxTime = 3
    Self = dispatcher
    ClaimTtl = 2
    HeartbeatInterval = 1
    OnSuccess = "review"
    OnFailure = "ready"
    MaxFaults = 2
SPECIFICATION FairDSpec
PROPERTIES
    EveryLeaseEnds
    GracefulShutdownEnds
CHECK_DEADLOCK FALSE
