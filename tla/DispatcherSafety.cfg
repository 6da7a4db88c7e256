\* One task, two runs, one fault, and everybody else under the same name as the
\* dispatcher: every interleaving of loop and callers.
CONSTANTS
    NULL = NULL
    Tasks = {t1}
    Runs = {r1, r2}
    Steps = {}
    Actors = {dispatcher}
    Schedules = {}
    RetryLimits = {}
    Ttls = {2}
    MaxTime = 4
    Self = dispatcher
    ClaimTtl = 2
    HeartbeatInterval = 1
    OnSuccess = "done"
    OnFailure = "blocked"
    MaxFaults = 1
SPECIFICATION DSpec
SYMMETRY RunSymmetry
INVARIANTS
    DispatcherTypeOK
    OpenRunIsTended
    SweepMeetsNoRefusal
PROPERTY
    OnlyOwnRunIsEnded
CHECK_DEADLOCK FALSE
