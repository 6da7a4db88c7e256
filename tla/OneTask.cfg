\* One task in full detail: two runs, a one-step plan, schedules and retries.
CONSTANTS
    NULL = NULL
    Tasks = {t1}
    Runs = {r1, r2}
    Steps = {s1}
    Actors = {a1, a2}
    Schedules = {1}
    RetryLimits = {0, 2}
    Ttls = {1}
    MaxTime = 2
SPECIFICATION Spec
SYMMETRY Symmetry
INVARIANTS
    TypeOK
    ClaimMatchesRun
    RunMatchesStatus
    NoRunIsStuck
    PlanRowMatchesSteps
    ExpiredRunsAreRetries
PROPERTIES
    ImplementsLease
    FinishedRunsStayFinished
CHECK_DEADLOCK FALSE
