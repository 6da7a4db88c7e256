\* Two events, the second of a kind the client does not know, pages of one.
CONSTANTS
    MaxEvents = 2
    PageLimit = 1
    Unknown = {2}
    MaxAttempts = 2
    MaxQueue = 2
    MaxFaults = 2
SPECIFICATION Spec
INVARIANTS TypeOK ConfirmedIsApplied SomethingIsPending
PROPERTIES QuietWhenOff ImplementsFeed CatchesUp
CHECK_DEADLOCK FALSE
