\* Four tasks and every graph between them, without runs, plans and due dates.
CONSTANTS
    NULL = NULL
    Tasks = {t1, t2, t3, t4}
    Runs = {}
    Steps = {}
    Actors = {}
    Schedules = {}
    RetryLimits = {}
    Ttls = {}
    MaxTime = 0
SPECIFICATION WSpec
CONSTRAINT MostArePlain
SYMMETRY TaskSymmetry
PROPERTY
    WalksImplementService
CHECK_DEADLOCK FALSE
