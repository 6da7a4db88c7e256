\* Two tasks and two runs: parents and children at work at the same time.
CONSTANTS
    NULL = NULL
    Tasks = {t1, t2}
    Runs = {r1, r2}
    Steps = {}
    Actors = {a1}
    Schedules = {1}
    RetryLimits = {}
    Ttls = {1}
    MaxTime = 1
SPECIFICATION Spec
SYMMETRY Symmetry
INVARIANTS
    AcyclicDependencies
PROPERTIES
    ReadyIsNotStranded
    OnlyReopenOvertakesRunning
CHECK_DEADLOCK FALSE
