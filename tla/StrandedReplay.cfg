\* A client is live again although its replay ran out of time.
CONSTANTS
    MaxEvents = 2
    PageLimit = 1
    Unknown = {2}
    MaxAttempts = 2
    MaxQueue = 2
    MaxFaults = 2
SPECIFICATION Spec
PROPERTY
    LiveAfterReplay
CHECK_DEADLOCK FALSE
