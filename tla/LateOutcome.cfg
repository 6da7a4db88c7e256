\* A worker's outcome is recorded on a task it no longer holds.
CONSTANTS
    NULL = NULL
    Tasks = {t1}
    Runs = {r1, r2}
    Steps = {}
    Actors = {dispatcher, a1}
    Schedules = {}
    RetryLimits = {}
    Ttls = {2}
    MaxTime = 3
    Self = dispatcher
    ClaimTtl = 2
    HeartbeatInterval = 1
    OnSuccess = "done"
    OnFailure = "blocked"
    MaxFaults = 1
SPECIFICATION DSpec
SYMMETRY RunSymmetry
PROPERTY
    OnlyOwnOutcomeIsRecorded
CHECK_DEADLOCK FALSE
