\* Two hosts and one snapshot: leases run out and are taken over, imports are
\* broken off anywhere and retried, other callers write in between.
CONSTANTS
    Hosts = {h1, h2}
    Tokens = {1, 2, 3, 4}
    NoToken = 0
    Snapshots = {s1}
    MaxFaults = 2
    MaxCalls = 1
    MaxWrites = 1
SPECIFICATION Spec
INVARIANT AtMostOneHolds
PROPERTIES LeaseIsRespected ReportIsTrue ReplacedIsBackedUp CompletedIsFinal
           MaintenanceGoesOn RetryFinishes
CHECK_DEADLOCK FALSE
