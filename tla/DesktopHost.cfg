\* Two attempts, two reaper threads, one failure.
CONSTANTS
    Workers = {w1, w2}
    Nobody = Nobody
    MaxServices = 2
    MaxFaults = 1
SPECIFICATION Spec
INVARIANTS NoOrphan OneKeeper
PROPERTY ImplementsCustody QuitEnds
CHECK_DEADLOCK FALSE
