\* Two hosts, one task, one provider.
CONSTANTS
    NULL = NULL
    Hosts = {h1, h2}
    Tasks = {t1}
    Atoms = {}
    Models = {m1}
    MaxAttempts = 2
    TickJobs = 1
    MaxEdits = 2
    MaxCalls = 2
    MaxFaults = 1
SPECIFICATION Spec
INVARIANTS
    ReadyIsCurrent
    NothingIsForgotten
PROPERTIES
    AnswersAreFenced
    RunningIsRecovered
    QuietIsPublished
CHECK_DEADLOCK FALSE
