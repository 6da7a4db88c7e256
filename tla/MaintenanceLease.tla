-------------------------- MODULE MaintenanceLease --------------------------
(***************************************************************************)
(* The maintenance lease of crates/kanban-service: one row that says which *)
(* maintenance operation has the database, taken with a new fence, renewed *)
(* by a heartbeat task, given back by the operation's end or by a release  *)
(* that is spawned when the operation is dropped half way.                 *)
(*                                                                         *)
(* A host runs one operation at a time: each of them takes the mutation    *)
(* gate first.  Hosts are processes on one database.                       *)
(***************************************************************************)
EXTENDS Integers

CONSTANTS
    Hosts,          \* host processes that open the database
    Tokens,         \* names of leases: each stands for a token and its fence
    NoToken,        \* the row names none
    MaxFaults       \* bound on crashes, dropped calls, stalls and storage errors

ASSUME LeaseAssumption == NoToken \notin Tokens /\ MaxFaults \in Nat

VARIABLES
    lease,      \* projection_maintenance_owner: its owner, token and expiry
    session,    \* session[h]: the MaintenanceLease of the operation h runs
    drops,      \* releases spawned by Drop and not run yet: <<host, token>>
    faults

leaseVars == <<lease, session, drops, faults>>

\* "in": at work; "out": done, the lease not yet released.
NoSession == [pc |-> "idle", token |-> NoToken, beat |-> "none"]

Inside(h) == session[h].pc \in {"in", "out"}

\* The row carries the token and the fence of h's lease.
Matches(h) == lease.held /\ lease.token = session[h].token

\* Token and fence of a new lease are borne by no lease there ever was; that
\* matters for those somebody may still present.
Fresh == Tokens \ ({lease.token} \cup {session[h].token : h \in Hosts} \cup {d[2] : d \in drops})

LeaseInit ==
    /\ lease = [held |-> FALSE, token |-> NoToken, expired |-> FALSE]
    /\ session = [h \in Hosts |-> NoSession]
    /\ drops = {}
    /\ faults = 0

Fault == faults < MaxFaults /\ faults' = faults + 1

\* Mutant: a lease blocks the next owner even after it has run out.
Free_NeverExpires == ~lease.held

Free == ~lease.held \/ lease.expired

\* Mutant: a lease is taken under the token of the row.
Taken_SameFence ==
    [held |-> TRUE, expired |-> FALSE,
     token |-> IF lease.token = NoToken THEN CHOOSE t \in Fresh : TRUE ELSE lease.token]

Taken == [held |-> TRUE, expired |-> FALSE, token |-> CHOOSE t \in Fresh : TRUE]

\* acquire_maintenance_lease: read and written in one transaction, refused
\* while another owner's lease lasts.
Acquire(h) ==
    /\ session[h].pc = "idle"
    /\ Free /\ Fresh # {}
    /\ lease' = Taken
    /\ session' = [session EXCEPT ![h] = [pc |-> "in", token |-> lease'.token, beat |-> "alive"]]
    /\ UNCHANGED <<drops, faults>>

\* The call is dropped when the row is written and no MaintenanceLease exists
\* yet: nothing renews the lease and nothing will release it.
AcquireIsDropped(h) ==
    /\ session[h].pc = "idle"
    /\ Free /\ Fresh # {}
    /\ Fault
    /\ lease' = Taken
    /\ UNCHANGED <<session, drops>>

\* renew_maintenance_lease looks at token and fence, not at the expiry.  When
\* it fails the task notes it and ends.
Heartbeat(h) ==
    /\ session[h].pc = "in" /\ session[h].beat = "alive"
    /\ \/ /\ Matches(h)
          /\ lease' = [lease EXCEPT !.expired = FALSE]
          /\ UNCHANGED <<session, faults>>
       \/ /\ ~Matches(h)
          /\ session' = [session EXCEPT ![h].beat = "failed"]
          /\ UNCHANGED <<lease, faults>>
       \/ /\ Fault
          /\ session' = [session EXCEPT ![h].beat = "failed"]
          /\ UNCHANGED lease
    /\ UNCHANGED drops

\* The operation has its result: the heartbeat is aborted first.
Leave(h) ==
    /\ session[h].pc = "in"
    /\ session' = [session EXCEPT ![h].pc = "out"]
    /\ UNCHANGED <<lease, drops, faults>>

\* An error ends the operation, or is dealt with inside it.
LeaveWithError(h) ==
    /\ session[h].pc = "in"
    /\ Fault
    /\ session' = [session EXCEPT ![h].pc = "out"]
    /\ UNCHANGED <<lease, drops>>

MeetError(h) == session[h].pc = "in" /\ Fault /\ UNCHANGED <<lease, session, drops>>

Released == [held |-> FALSE, token |-> NoToken, expired |-> FALSE]

\* Mutant: a lost heartbeat is forgotten once the row was cleared.
Clean_AnyBeat(h) == Matches(h)

\* What MaintenanceLease::release answers Ok to.
Clean(h) == Matches(h) /\ session[h].beat # "failed"

\* release_maintenance_lease.  A storage error leaves the release to Drop.
Release(h) ==
    /\ session[h].pc = "out"
    /\ lease' = IF Matches(h) THEN Released ELSE lease
    /\ session' = [session EXCEPT ![h] = NoSession]
    /\ UNCHANGED <<drops, faults>>

ReleaseFails(h) ==
    /\ session[h].pc = "out"
    /\ Fault
    /\ session' = [session EXCEPT ![h] = NoSession]
    /\ drops' = drops \cup {<<h, session[h].token>>}
    /\ UNCHANGED lease

\* The call is dropped: its heartbeat is aborted, its release is spawned, and
\* the gate is free at once.
Cancel(h) ==
    /\ Inside(h)
    /\ Fault
    /\ session' = [session EXCEPT ![h] = NoSession]
    /\ drops' = drops \cup {<<h, session[h].token>>}
    /\ UNCHANGED lease

\* Mutant: the spawned release clears whichever lease it finds.
DropRelease_AnyLease(d) ==
    /\ d \in drops
    /\ drops' = drops \ {d}
    /\ lease' = Released
    /\ UNCHANGED <<session, faults>>

DropRelease(d) ==
    /\ d \in drops
    /\ drops' = drops \ {d}
    /\ lease' = IF lease.held /\ lease.token = d[2] THEN Released ELSE lease
    /\ UNCHANGED <<session, faults>>

Crash(h) ==
    /\ session[h].pc # "off"
    /\ Fault
    /\ session' = [session EXCEPT ![h] = [NoSession EXCEPT !.pc = "off"]]
    /\ drops' = {d \in drops : d[1] # h}
    /\ UNCHANGED lease

Restart(h) ==
    /\ session[h].pc = "off"
    /\ session' = [session EXCEPT ![h] = NoSession]
    /\ UNCHANGED <<lease, drops, faults>>

\* Its operation keeps the lease: it is renewed, or about to be given back.
Tended == \E h \in Hosts : Inside(h) /\ Matches(h) /\ session[h].beat = "alive"

\* MAINTENANCE_LEASE_TTL_MS pass.  For a lease that is tended that takes a stall.
Expire ==
    /\ lease.held /\ ~lease.expired
    /\ IF Tended THEN Fault ELSE UNCHANGED faults
    /\ lease' = [lease EXCEPT !.expired = TRUE]
    /\ UNCHANGED <<session, drops>>

LeaseNext ==
    \/ \E h \in Hosts :
        \/ Acquire(h) \/ AcquireIsDropped(h) \/ Heartbeat(h)
        \/ Leave(h) \/ LeaveWithError(h) \/ MeetError(h)
        \/ Release(h) \/ ReleaseFails(h) \/ Cancel(h) \/ Crash(h) \/ Restart(h)
    \/ \E d \in drops : DropRelease(d)
    \/ Expire

LeaseSpec == LeaseInit /\ [][LeaseNext]_leaseVars

LeaseTypeOK ==
    /\ lease \in [held : BOOLEAN, token : Tokens \cup {NoToken}, expired : BOOLEAN]
    /\ session \in [Hosts -> [pc : {"off", "idle", "in", "out"},
                              token : Tokens \cup {NoToken}, beat : {"none", "alive", "failed"}]]
    /\ drops \subseteq Hosts \X Tokens
    /\ faults \in 0..MaxFaults

\* Of all the operations that are at work, and of all the releases still to
\* come, at most one can touch the row: a lease that was taken over leaves no
\* token behind that could renew or clear its successor.
AtMostOneHolds ==
    /\ \A g, h \in Hosts : Inside(g) /\ Inside(h) /\ Matches(g) /\ Matches(h) => g = h
    /\ \A d \in drops : lease.held /\ lease.token = d[2]
                        => \A h \in Hosts : Inside(h) => ~Matches(h)

\* A lease that has not run out is neither taken over nor cleared by anybody
\* but the operation that holds it, dropped or not.
LeaseIsRespected ==
    [][lease.held /\ ~lease.expired /\ lease'.token # lease.token =>
        /\ ~lease'.held
        /\ \/ \E h \in Hosts : session[h].pc = "out" /\ Matches(h)
           \/ \E d \in drops : d[2] = lease.token]_leaseVars
=============================================================================
