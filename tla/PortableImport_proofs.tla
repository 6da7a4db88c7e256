----------------------- MODULE PortableImport_proofs -----------------------
(***************************************************************************)
(* Theorems about PortableImport and the lease it works under, for every   *)
(* set of hosts and snapshots and for every bound.                         *)
(***************************************************************************)
EXTENDS PortableImport, TLAPS

USE LeaseAssumption, ImportAssumption

(***************************************************************************)
(* The operations use the lease as MaintenanceLease says.                  *)
(***************************************************************************)

LEMMA ImportInitLease == Init => LeaseInit
BY DEF Init

\* A step of an import is a step of its lease or leaves the lease alone.
LEMMA ImportStepLease ==
    ASSUME NEW h \in Hosts, ImportStep(h)
    PROVE  [LeaseNext]_leaseVars
<1>1. Leave(h) \/ LeaveWithError(h) \/ MeetError(h) \/ UNCHANGED leaseVars
  BY DEF ImportStep, Decide, Adopt, InsertJournal, Stage, Validate, Backup, Swap, Load, Publish,
         Enqueue, Verify, Finish, MarkFailed, Other, Return, Goto, Stops, FailsTo
<1> QED
  BY <1>1 DEF LeaseNext

LEMMA ImportNextLease ==
    ASSUME [Next]_ivars
    PROVE  [LeaseNext]_leaseVars
<1>1. CASE UNCHANGED ivars
  BY <1>1 DEF ivars
<1>2. CASE \E h \in Hosts : Call(h) \/ (\E s \in Snapshots : Retry(h, s))
  BY <1>2 DEF Call, Retry, Start, LeaseNext
<1>3. CASE \E h \in Hosts : Refuse(h) \/ Edit(h)
  BY <1>3 DEF Refuse, Edit
<1>4. CASE \E h \in Hosts : ImportStep(h)
  BY <1>4, ImportStepLease
<1>5. CASE \E h \in Hosts : End(h) \/ Gone(h) \/ Background(h)
  BY <1>5 DEF End, Gone, Background, LeaseNext
<1>6. CASE (\E d \in drops : DropRelease(d)) \/ Expire
  BY <1>6 DEF LeaseNext
<1> QED
  BY <1>1, <1>2, <1>3, <1>4, <1>5, <1>6 DEF Next

\* Imports and the other maintenance operations, interleaved with everybody
\* else's writes, use the lease row by the protocol of MaintenanceLease alone.
THEOREM ImportsKeepTheLeaseProtocol == Spec => LeaseSpec
<1> QED
  BY ImportInitLease, ImportNextLease, PTL DEF Spec, LeaseSpec

(***************************************************************************)
(* The lease.                                                              *)
(***************************************************************************)

\* A lease that is at work or still to be released has a name of its own: a
\* new one is taken under a name that nobody may still present.
NamesAreUnique ==
    /\ \A h \in Hosts : Inside(h) => session[h].token \in Tokens
    /\ \A g, h \in Hosts : Inside(g) /\ Inside(h) /\ session[g].token = session[h].token => g = h
    /\ \A h \in Hosts, d \in drops : Inside(h) => d[2] # session[h].token

LeaseInv ==
    /\ LeaseTypeOK
    /\ NamesAreUnique
    /\ \A h \in Hosts : Inside(h) => session[h].beat \in {"alive", "failed"}

SessionRow == [pc : {"off", "idle", "in", "out"}, token : Tokens \cup {NoToken},
               beat : {"none", "alive", "failed"}]

LEMMA LeaseInitInv == LeaseInit => LeaseInv
BY DEF LeaseInit, LeaseInv, LeaseTypeOK, NamesAreUnique, NoSession, Inside

\* A session that becomes idle or is cut off keeps the names unique, and the
\* release it spawns bears a name that no other session has.
LEMMA SessionEnds ==
    ASSUME LeaseInv, NEW h \in Hosts, NEW row \in {NoSession, [NoSession EXCEPT !.pc = "off"]},
           session' = [session EXCEPT ![h] = row],
           drops' \subseteq drops \/ (Inside(h) /\ drops' = drops \cup {<<h, session[h].token>>})
    PROVE  /\ session' \in [Hosts -> SessionRow]
           /\ drops' \subseteq Hosts \X Tokens
           /\ NamesAreUnique'
           /\ \A g \in Hosts : Inside(g)' => session'[g].beat \in {"alive", "failed"}
<1>1. session \in [Hosts -> SessionRow] /\ drops \subseteq Hosts \X Tokens
  BY DEF LeaseInv, LeaseTypeOK, SessionRow
<1>2. row \in SessionRow /\ row.pc \in {"off", "idle"}
  BY DEF NoSession, SessionRow
<1>3. \A g \in Hosts : Inside(g)' => g # h /\ Inside(g) /\ session'[g] = session[g]
  BY <1>1, <1>2 DEF Inside
<1>4. session' \in [Hosts -> SessionRow]
  BY <1>1, <1>2
<1>5. Inside(h) => session[h].token \in Tokens
  BY DEF LeaseInv, NamesAreUnique
<1>6. drops' \subseteq Hosts \X Tokens
  BY <1>1, <1>5
<1>7. ASSUME NEW g \in Hosts, NEW d \in drops', Inside(g)'
      PROVE  d[2] # session'[g].token
  <2>1. CASE d \in drops
    BY <1>3, <1>7, <2>1 DEF LeaseInv, NamesAreUnique
  <2>2. CASE Inside(h) /\ d = <<h, session[h].token>>
    BY <1>3, <1>7, <2>2 DEF LeaseInv, NamesAreUnique
  <2> QED
    BY <2>1, <2>2
<1> QED
  BY <1>3, <1>4, <1>6, <1>7 DEF LeaseInv, NamesAreUnique

\* A new name is nobody's: it is taken only when there is one left.
LEMMA TakenIsFresh ==
    ASSUME Fresh # {}
    PROVE  Taken.token \in Tokens /\ Taken.token \in Fresh /\ Taken.held /\ ~Taken.expired
<1>1. (CHOOSE t \in Fresh : TRUE) \in Fresh
  OBVIOUS
<1> QED
  BY <1>1 DEF Taken, Fresh

LEMMA AcquireInv ==
    ASSUME LeaseInv, NEW h \in Hosts, Acquire(h)
    PROVE  LeaseInv'
<1>1. /\ session \in [Hosts -> SessionRow] /\ drops \subseteq Hosts \X Tokens
      /\ faults \in 0..MaxFaults
  BY DEF LeaseInv, LeaseTypeOK, SessionRow
<1>2. lease' = Taken /\ Fresh # {} /\ drops' = drops /\ faults' = faults
  BY DEF Acquire
<1>3. Taken.token \in Fresh /\ Taken.token \in Tokens
  BY <1>2, TakenIsFresh
<1>4. session' = [session EXCEPT ![h] = [pc |-> "in", token |-> Taken.token, beat |-> "alive"]]
  BY <1>2 DEF Acquire
<1>5. lease' \in [held : BOOLEAN, token : Tokens \cup {NoToken}, expired : BOOLEAN]
  BY <1>2, <1>3 DEF Taken
<1>6. session' \in [Hosts -> SessionRow]
  BY <1>1, <1>3, <1>4 DEF SessionRow
<1>7. \A g \in Hosts \ {h} : session'[g] = session[g] /\ session[g].token # Taken.token
  BY <1>1, <1>3, <1>4 DEF Fresh
<1>8. session'[h].token = Taken.token /\ session'[h].beat = "alive"
  BY <1>1, <1>4
<1>9. \A d \in drops : d[2] # Taken.token
  BY <1>3 DEF Fresh
<1>10. NamesAreUnique'
  BY <1>2, <1>3, <1>7, <1>8, <1>9 DEF NamesAreUnique, LeaseInv, Inside
<1> QED
  BY <1>1, <1>2, <1>5, <1>6, <1>7, <1>8, <1>10 DEF LeaseInv, LeaseTypeOK, SessionRow, Inside

\* A step after which the same operations are at work, under the same names.
LEMMA SameNames ==
    ASSUME LeaseInv, session' \in [Hosts -> SessionRow], drops' \subseteq drops,
           \A h \in Hosts : /\ Inside(h)' => Inside(h)
                            /\ Inside(h)' => session'[h].token = session[h].token
                            /\ Inside(h)' => session'[h].beat \in {"alive", "failed"}
    PROVE  /\ NamesAreUnique'
           /\ \A h \in Hosts : Inside(h)' => session'[h].beat \in {"alive", "failed"}
BY DEF LeaseInv, NamesAreUnique

LEMMA LeaseNextInv ==
    ASSUME LeaseInv, [LeaseNext]_leaseVars
    PROVE  LeaseInv'
<1>1. /\ lease \in [held : BOOLEAN, token : Tokens \cup {NoToken}, expired : BOOLEAN]
      /\ session \in [Hosts -> SessionRow] /\ drops \subseteq Hosts \X Tokens
      /\ faults \in 0..MaxFaults
      /\ \A h \in Hosts : Inside(h) => session[h].beat \in {"alive", "failed"}
  BY DEF LeaseInv, LeaseTypeOK, SessionRow
<1>2. Fault => faults' \in 0..MaxFaults
  BY <1>1 DEF Fault
<1>3. Released \in [held : BOOLEAN, token : Tokens \cup {NoToken}, expired : BOOLEAN]
  BY DEF Released
<1> DEFINE RowOK(l) == l \in [held : BOOLEAN, token : Tokens \cup {NoToken}, expired : BOOLEAN]
<1>4. CASE UNCHANGED leaseVars
  BY <1>4, <1>1 DEF leaseVars, LeaseInv, LeaseTypeOK, NamesAreUnique, Inside
<1>5. ASSUME NEW h \in Hosts, Acquire(h) PROVE LeaseInv'
  BY <1>5, AcquireInv
<1>6. ASSUME NEW h \in Hosts, AcquireIsDropped(h) PROVE LeaseInv'
  <2>1. Taken.token \in Tokens
    BY <1>6, TakenIsFresh DEF AcquireIsDropped
  <2>2. RowOK(lease') /\ session' = session /\ drops' = drops /\ faults' \in 0..MaxFaults
    BY <1>6, <1>2, <2>1 DEF AcquireIsDropped, Taken
  <2> QED
    BY <1>1, <2>2, SameNames DEF LeaseInv, LeaseTypeOK, SessionRow, Inside
<1>7. ASSUME NEW h \in Hosts,
             Heartbeat(h) \/ Leave(h) \/ LeaveWithError(h) \/ MeetError(h)
      PROVE  LeaseInv'
  <2>1. /\ RowOK(lease') /\ drops' = drops /\ faults' \in 0..MaxFaults
        /\ session[h].pc = "in"
    BY <1>1, <1>2, <1>7 DEF Heartbeat, Leave, LeaveWithError, MeetError
  <2>2. \/ session' = session
        \/ session' = [session EXCEPT ![h].beat = "failed"]
        \/ session' = [session EXCEPT ![h].pc = "out"]
    BY <1>7 DEF Heartbeat, Leave, LeaveWithError, MeetError
  <2>3. /\ session' \in [Hosts -> SessionRow]
        /\ \A g \in Hosts : Inside(g)' => /\ Inside(g)
                                          /\ session'[g].token = session[g].token
                                          /\ session'[g].beat \in {session[g].beat, "failed"}
    BY <1>1, <2>1, <2>2 DEF SessionRow, Inside
  <2> QED
    BY <1>1, <2>1, <2>3, SameNames DEF LeaseInv, LeaseTypeOK, SessionRow
<1>8. ASSUME NEW h \in Hosts, Release(h) \/ ReleaseFails(h) \/ Cancel(h) \/ Crash(h) \/ Restart(h)
      PROVE  LeaseInv'
  <2>1. RowOK(lease') /\ faults' \in 0..MaxFaults
    BY <1>1, <1>2, <1>3, <1>8 DEF Release, ReleaseFails, Cancel, Crash, Restart
  <2>2. \/ session' = [session EXCEPT ![h] = NoSession]
        \/ session' = [session EXCEPT ![h] = [NoSession EXCEPT !.pc = "off"]]
    BY <1>8 DEF Release, ReleaseFails, Cancel, Crash, Restart
  <2>3. drops' \subseteq drops \/ (Inside(h) /\ drops' = drops \cup {<<h, session[h].token>>})
    BY <1>8 DEF Release, ReleaseFails, Cancel, Crash, Restart, Inside
  <2>4. PICK row \in {NoSession, [NoSession EXCEPT !.pc = "off"]} :
            session' = [session EXCEPT ![h] = row]
    BY <2>2
  <2> QED
    BY <2>1, <2>3, <2>4, SessionEnds DEF LeaseInv, LeaseTypeOK, SessionRow
<1>9. ASSUME NEW d \in drops, DropRelease(d) PROVE LeaseInv'
  <2>1. RowOK(lease') /\ session' = session /\ drops' \subseteq drops /\ faults' \in 0..MaxFaults
    BY <1>1, <1>3, <1>9 DEF DropRelease
  <2> QED
    BY <1>1, <2>1, SameNames DEF LeaseInv, LeaseTypeOK, SessionRow, Inside
<1>10. ASSUME Expire PROVE LeaseInv'
  <2>1. RowOK(lease') /\ session' = session /\ drops' = drops /\ faults' \in 0..MaxFaults
    BY <1>1, <1>2, <1>10 DEF Expire
  <2> QED
    BY <1>1, <2>1, SameNames DEF LeaseInv, LeaseTypeOK, SessionRow, Inside
<1> QED
  BY <1>4, <1>5, <1>6, <1>7, <1>8, <1>9, <1>10 DEF LeaseNext

\* At most one of the operations at work and of the releases to come matches
\* the row: that is the uniqueness of names.
LEMMA LeaseInvHolds == LeaseInv => AtMostOneHolds
BY DEF LeaseInv, NamesAreUnique, AtMostOneHolds, Matches

LEMMA RespectStep ==
    ASSUME LeaseTypeOK, [LeaseNext]_leaseVars,
           lease.held, ~lease.expired, lease'.token # lease.token
    PROVE  /\ ~lease'.held
           /\ \/ \E h \in Hosts : session[h].pc = "out" /\ Matches(h)
              \/ \E d \in drops : d[2] = lease.token
<1>1. lease \in [held : BOOLEAN, token : Tokens \cup {NoToken}, expired : BOOLEAN]
  BY DEF LeaseTypeOK
<1>2. lease' # lease /\ lease' # [lease EXCEPT !.expired = TRUE]
      /\ lease' # [lease EXCEPT !.expired = FALSE]
  BY <1>1
<1>3. ASSUME NEW h \in Hosts, Release(h)
      PROVE  lease' = Released /\ session[h].pc = "out" /\ Matches(h)
  BY <1>2, <1>3 DEF Release
<1>4. ASSUME NEW d \in drops, DropRelease(d)
      PROVE  lease' = Released /\ d[2] = lease.token
  BY <1>2, <1>4 DEF DropRelease
<1>5. (\E h \in Hosts : Release(h)) \/ (\E d \in drops : DropRelease(d))
  BY <1>2 DEF LeaseNext, leaseVars, Acquire, AcquireIsDropped, Free, Heartbeat, Leave,
              LeaveWithError, MeetError, ReleaseFails, Cancel, Crash, Restart, Expire
<1> QED
  BY <1>3, <1>4, <1>5 DEF Released

\* Of the operations at work and the releases to come at most one can touch
\* the lease row, whatever fails, is dropped, stalls or dies.
THEOREM OneHolder == Spec => []AtMostOneHolds
<1>1. LeaseSpec => []LeaseInv
  BY LeaseInitInv, LeaseNextInv, PTL DEF LeaseSpec
<1> QED
  BY <1>1, ImportsKeepTheLeaseProtocol, LeaseInvHolds, PTL

\* No lease is taken over or cleared before it has run out but by the
\* operation that holds it.
THEOREM LeasesAreRespected == Spec => LeaseIsRespected
<1>1. LeaseSpec => []LeaseInv
  BY LeaseInitInv, LeaseNextInv, PTL DEF LeaseSpec
<1>2. LeaseInv => LeaseTypeOK
  BY DEF LeaseInv
<1>3. LeaseTypeOK /\ [LeaseNext]_leaseVars
      => [lease.held /\ ~lease.expired /\ lease'.token # lease.token =>
            /\ ~lease'.held
            /\ \/ \E h \in Hosts : session[h].pc = "out" /\ Matches(h)
               \/ \E d \in drops : d[2] = lease.token]_leaseVars
  BY RespectStep
<1>4. LeaseSpec => LeaseIsRespected
  BY <1>1, <1>2, <1>3, PTL DEF LeaseSpec, LeaseIsRespected
<1> QED
  BY <1>4, ImportsKeepTheLeaseProtocol

(***************************************************************************)
(* The journal.  What a host claims of facts and journal while it is at    *)
(* work holds unless another host wrote to them, and then it is crossed.   *)
(***************************************************************************)
JobRow == [step : Steps, kind : Kinds, snap : Snapshots, ok : BOOLEAN]
JournalRow == [phase : Phases, backup : SUBSET Facts]

AtSome(h, steps) == session[h].pc = "in" /\ job[h].step \in steps

Done(h) == session[h].pc = "out" /\ job[h].ok

\* The steps after the decision: the journal a host works at is not completed.
Working == Steps \ {"none", "other", "decide"}

\* What h may rely on as long as it is not crossed.
Relies(h) ==
    LET s == job[h].snap IN
    /\ AtSome(h, Working) => journal[s].phase # "completed"
    /\ AtSome(h, {"journal"}) /\ job[h].kind = "import" => bare
    /\ AtSome(h, {"load"}) => bare
    /\ AtSome(h, {"swap"}) => journal[s].backup = {facts}
    /\ AtSome(h, {"finish"}) => facts = s
    /\ Done(h) /\ job[h].kind \in {"import", "replace"} =>
            facts = s /\ journal[s].phase = "completed"
    /\ Done(h) /\ job[h].kind = "prepare" =>
            \/ journal[s].phase = "validated"
            \/ facts = s /\ journal[s].phase = "completed"

HostOK(h) ==
    /\ job[h].ok => session[h].pc = "out"
    /\ job[h].step # "none" => session[h].pc = "in"
    /\ AtSome(h, Steps \ {"none", "other"}) => job[h].kind # "other"
    /\ AtSome(h, {"other"}) => job[h].kind = "other"
    /\ AtSome(h, {"stage", "validate"}) => job[h].kind = "prepare"
    /\ AtSome(h, {"verify", "finish"}) => job[h].snap \in queued
    /\ h \notin crossed => Relies(h)

DataOK ==
    /\ facts \in Facts
    /\ bare \in BOOLEAN
    /\ journal \in [Snapshots -> JournalRow]
    /\ queued \subseteq Snapshots
    /\ writes \in 0..MaxWrites
    /\ facts = 0 => bare
    /\ \A s \in Snapshots : journal[s].phase = "completed" => s \in queued

CountsOK ==
    /\ told \subseteq Hosts
    /\ crossed \subseteq Hosts
    /\ calls \in 0..MaxCalls

ImportInv ==
    /\ LeaseInv
    /\ DataOK
    /\ CountsOK
    /\ job \in [Hosts -> JobRow]
    /\ \A h \in Hosts : HostOK(h)

LEMMA NoJobType == NoJob \in JobRow
<1>1. (CHOOSE s \in Snapshots : TRUE) \in Snapshots
  OBVIOUS
<1> QED
  BY <1>1 DEF NoJob, JobRow, Steps, Kinds

LEMMA ImportInitInv == Init => ImportInv
<1> SUFFICES ASSUME Init PROVE ImportInv
  OBVIOUS
<1>1. LeaseInv /\ \A h \in Hosts : session[h].pc = "idle"
  BY LeaseInitInv DEF Init, LeaseInit, NoSession
<1>2. job \in [Hosts -> JobRow] /\ \A h \in Hosts : job[h].step = "none" /\ ~job[h].ok
  BY NoJobType DEF Init, NoJob
<1>3. [phase |-> "none", backup |-> {}] \in JournalRow
  BY DEF JournalRow, Phases
<1>4. DataOK /\ CountsOK
  BY <1>3 DEF Init, DataOK, CountsOK, Facts
<1> QED
  BY <1>1, <1>2, <1>4 DEF ImportInv, HostOK, Relies, AtSome, Done

\* Nobody is disturbed by h unless h writes facts or journal, and then
\* everybody at work is crossed.
Quietly == facts' = facts /\ bare' = bare /\ journal' = journal

LEMMA OthersKeep ==
    ASSUME ImportInv, NEW h \in Hosts, NEW g \in Hosts \ {h},
           session'[g] = session[g], job'[g] = job[g], queued \subseteq queued',
           crossed \ {h} \subseteq crossed',
           Quietly \/ (Inside(g) => g \in crossed')
    PROVE  HostOK(g)'
<1>1. HostOK(g)
  BY DEF ImportInv
<1>2. CASE Quietly
  BY <1>1, <1>2 DEF HostOK, Relies, AtSome, Done, Quietly
<1>3. CASE Inside(g) /\ g \in crossed'
  BY <1>1, <1>3 DEF HostOK, AtSome
<1>4. CASE ~Inside(g)
  BY <1>1, <1>4 DEF HostOK, Relies, AtSome, Done, Inside
<1> QED
  BY <1>2, <1>3, <1>4

\* So a step of h keeps the invariant when it keeps what concerns h.
LEMMA StepOfHost ==
    ASSUME ImportInv, LeaseInv', DataOK', CountsOK', NEW h \in Hosts, NEW row \in JobRow,
           job' = [job EXCEPT ![h] = row],
           \A g \in Hosts \ {h} : session'[g] = session[g],
           queued \subseteq queued', crossed \ {h} \subseteq crossed',
           Quietly \/ \A g \in Hosts \ {h} : Inside(g) => g \in crossed',
           HostOK(h)'
    PROVE  ImportInv'
<1>1. job \in [Hosts -> JobRow]
  BY DEF ImportInv
<1>2. job' \in [Hosts -> JobRow] /\ \A g \in Hosts \ {h} : job'[g] = job[g]
  BY <1>1
<1>3. \A g \in Hosts \ {h} : HostOK(g)'
  BY <1>2, OthersKeep
<1> QED
  BY <1>2, <1>3 DEF ImportInv

(***************************************************************************)
(* The forms a step of an import takes.                                    *)
(***************************************************************************)

\* Types of what the steps read and write of their own host.
LEMMA HostTypes ==
    ASSUME ImportInv, NEW h \in Hosts
    PROVE  /\ session \in [Hosts -> SessionRow]
           /\ job \in [Hosts -> JobRow]
           /\ job[h] \in JobRow
           /\ journal \in [Snapshots -> JournalRow]
           /\ HostOK(h)
BY DEF ImportInv, LeaseInv, LeaseTypeOK, SessionRow, DataOK

\* Going on at a step: the lease stays as it is.
LEMMA GotoForm ==
    ASSUME ImportInv, NEW h \in Hosts, NEW step \in Steps, Goto(h, step)
    PROVE  /\ [job[h] EXCEPT !.step = step] \in JobRow
           /\ job' = [job EXCEPT ![h] = [job[h] EXCEPT !.step = step]]
           /\ job'[h] = [job[h] EXCEPT !.step = step]
           /\ session' = session /\ told' = told /\ calls' = calls
BY HostTypes DEF Goto, JobRow, leaseVars

\* The end of an operation, with its result.
LEMMA ReturnForm ==
    ASSUME ImportInv, NEW h \in Hosts, NEW ok \in BOOLEAN, Return(h, ok)
    PROVE  /\ [job[h] EXCEPT !.step = "none", !.ok = ok] \in JobRow
           /\ job' = [job EXCEPT ![h] = [job[h] EXCEPT !.step = "none", !.ok = ok]]
           /\ job'[h] = [job[h] EXCEPT !.step = "none", !.ok = ok]
           /\ session'[h].pc = "out"
           /\ \A g \in Hosts \ {h} : session'[g] = session[g]
           /\ told' = told /\ calls' = calls
<1>1. job[h] \in JobRow /\ job \in [Hosts -> JobRow] /\ session \in [Hosts -> SessionRow]
  BY HostTypes
<1>2. job' = [job EXCEPT ![h] = [job[h] EXCEPT !.step = "none", !.ok = ok]]
  BY <1>1 DEF Return, JobRow
<1>3. [job[h] EXCEPT !.step = "none", !.ok = ok] \in JobRow
  BY <1>1 DEF JobRow, Steps
<1>4. job'[h] = [job[h] EXCEPT !.step = "none", !.ok = ok]
  BY <1>1, <1>2
<1>5. session'[h].pc = "out" /\ \A g \in Hosts \ {h} : session'[g] = session[g]
  BY <1>1 DEF Return, Leave, SessionRow
<1> QED
  BY <1>2, <1>3, <1>4, <1>5 DEF Return

LEMMA StopsInv ==
    ASSUME ImportInv, LeaseInv', NEW h \in Hosts, Stops(h)
    PROVE  ImportInv'
<1> DEFINE row == [job[h] EXCEPT !.step = "none"]
<1>1. job[h] \in JobRow /\ job \in [Hosts -> JobRow] /\ session \in [Hosts -> SessionRow]
  BY HostTypes
<1>2. row \in JobRow /\ job' = [job EXCEPT ![h] = row] /\ job'[h] = row
  BY <1>1 DEF Stops, JobRow, Steps
<1>3. /\ session[h].pc = "in" /\ session'[h].pc = "out"
      /\ \A g \in Hosts \ {h} : session'[g] = session[g]
  BY <1>1 DEF Stops, LeaveWithError, SessionRow
<1>4. ~row.ok
  BY <1>1, <1>3, HostTypes DEF HostOK, JobRow
<1>5. HostOK(h)'
  BY <1>1, <1>2, <1>3, <1>4 DEF HostOK, Relies, AtSome, Done, JobRow, Working
<1>6. DataOK' /\ CountsOK' /\ Quietly /\ queued' = queued /\ crossed' = crossed
  BY DEF Stops, data, ImportInv, DataOK, CountsOK, Quietly
<1> QED
  BY <1>2, <1>3, <1>5, <1>6, StepOfHost

\* A step that goes on without writing, to where h relies on nothing new.
LEMMA GoesOn ==
    ASSUME ImportInv, LeaseInv', NEW h \in Hosts, NEW step \in Steps \ {"none", "other"},
           job' = [job EXCEPT ![h] = [job[h] EXCEPT !.step = step]],
           session' = session, session[h].pc = "in", job[h].kind # "other",
           told' = told, calls' = calls, UNCHANGED <<data, crossed>>,
           step \in {"stage", "validate"} => job[h].kind = "prepare",
           step \in {"verify", "finish"} => job[h].snap \in queued,
           h \notin crossed =>
                /\ step = "journal" /\ job[h].kind = "import" => bare
                /\ step = "load" => bare
                /\ step = "swap" => journal[job[h].snap].backup = {facts}
                /\ step = "finish" => facts = job[h].snap
                /\ step # "decide" => journal[job[h].snap].phase # "completed"
    PROVE  ImportInv'
<1> DEFINE row == [job[h] EXCEPT !.step = step]
<1>1. job[h] \in JobRow /\ job \in [Hosts -> JobRow]
  BY HostTypes
<1>2. row \in JobRow /\ job'[h] = row
  BY <1>1 DEF JobRow
<1>3. /\ job'[h].ok = FALSE /\ job'[h].step = step
      /\ job'[h].kind = job[h].kind /\ job'[h].snap = job[h].snap
  BY <1>1, <1>2, HostTypes DEF HostOK, JobRow
<1>4. UNCHANGED <<facts, bare, journal, queued, session, crossed>>
  BY DEF data
<1>5. (h \notin crossed => Relies(h))'
  BY <1>3, <1>4 DEF Relies, AtSome, Done, Working
<1>6. HostOK(h)'
  BY <1>3, <1>4, <1>5 DEF HostOK, AtSome
<1>7. DataOK' /\ CountsOK' /\ Quietly /\ queued' = queued
  BY DEF data, ImportInv, DataOK, CountsOK, Quietly
<1> QED
  BY <1>2, <1>6, <1>7, StepOfHost

LEMMA FailsToInv ==
    ASSUME ImportInv, LeaseInv', NEW h \in Hosts, FailsTo(h, "failed"),
           job[h].step \in Working
    PROVE  ImportInv'
<1>1. job[h] \in JobRow /\ job \in [Hosts -> JobRow]
  BY HostTypes
<1>2. session[h].pc = "in" /\ session' = session
  BY DEF FailsTo, MeetError
<1>3. job[h].kind # "other"
  BY <1>1, <1>2, HostTypes DEF HostOK, AtSome, JobRow, Working
<1>4. job' = [job EXCEPT ![h] = [job[h] EXCEPT !.step = "failed"]]
  BY <1>1 DEF FailsTo, JobRow
<1>5. "failed" \in Steps \ {"none", "other"}
  BY DEF Steps
<1>6. h \notin crossed => journal[job[h].snap].phase # "completed"
  BY <1>2, HostTypes DEF HostOK, Relies, AtSome
<1> QED
  BY <1>2, <1>3, <1>4, <1>5, <1>6, GoesOn DEF FailsTo

\* A step that writes h's journal and nothing else crosses the others.
LEMMA JournalForm ==
    ASSUME ImportInv, NEW h \in Hosts, NEW row \in JournalRow, WriteJournal(h, row),
           row.phase = "completed" => job[h].snap \in queued,
           UNCHANGED <<facts, bare, queued, writes, told, calls>>
    PROVE  /\ DataOK' /\ CountsOK'
           /\ journal'[job[h].snap] = row
           /\ crossed \subseteq crossed'
           /\ \A g \in Hosts \ {h} : Inside(g) => g \in crossed'
           /\ h \in crossed' => h \in crossed
<1>1. job[h].snap \in Snapshots /\ journal \in [Snapshots -> JournalRow]
  BY HostTypes DEF JobRow
<1>2. journal' = [journal EXCEPT ![job[h].snap] = row] /\ journal'[job[h].snap] = row
  BY <1>1 DEF WriteJournal
<1>3. DataOK'
  BY <1>1, <1>2 DEF ImportInv, DataOK
<1> QED
  BY <1>2, <1>3 DEF WriteJournal, Crossing, ImportInv, CountsOK

\* A step that goes on after it wrote: it has crossed the others.
LEMMA WritesOn ==
    ASSUME ImportInv, LeaseInv', DataOK', CountsOK', NEW h \in Hosts,
           NEW step \in Steps \ {"none", "other"}, Goto(h, step),
           session[h].pc = "in", job[h].kind # "other",
           queued \subseteq queued', crossed \subseteq crossed',
           \A g \in Hosts \ {h} : Inside(g) => g \in crossed',
           h \in crossed' => h \in crossed,
           step \notin {"stage", "validate", "verify", "finish"} \/
               (step = "stage" /\ job[h].kind = "prepare"),
           h \notin crossed =>
                /\ step = "journal" /\ job[h].kind = "import" => bare'
                /\ step = "load" => bare'
                /\ step = "swap" => journal'[job[h].snap].backup = {facts'}
                /\ step # "decide" => journal'[job[h].snap].phase # "completed"
    PROVE  ImportInv'
<1>1. job[h] \in JobRow /\ ~job[h].ok
  BY HostTypes DEF HostOK
<1>2. /\ [job[h] EXCEPT !.step = step] \in JobRow
      /\ job' = [job EXCEPT ![h] = [job[h] EXCEPT !.step = step]]
      /\ job'[h] = [job[h] EXCEPT !.step = step]
      /\ session' = session
  BY GotoForm
<1>3. /\ job'[h].ok = FALSE /\ job'[h].step = step
      /\ job'[h].kind = job[h].kind /\ job'[h].snap = job[h].snap
  BY <1>1, <1>2 DEF JobRow
<1>4. (h \notin crossed => Relies(h))'
  BY <1>2, <1>3 DEF Relies, AtSome, Done, Working
<1>5. HostOK(h)'
  BY <1>2, <1>3, <1>4 DEF HostOK, AtSome
<1> QED
  BY <1>2, <1>5, StepOfHost

\* The end of an operation: a success has to be true of facts and journal.
LEMMA ReturnInv ==
    ASSUME ImportInv, LeaseInv', DataOK', CountsOK', NEW h \in Hosts, NEW ok \in BOOLEAN,
           Return(h, ok), queued \subseteq queued', crossed \subseteq crossed',
           Quietly \/ \A g \in Hosts \ {h} : Inside(g) => g \in crossed',
           h \in crossed' => h \in crossed,
           ok /\ h \notin crossed /\ job[h].kind # "other" =>
               \/ facts' = job[h].snap /\ journal'[job[h].snap].phase = "completed"
               \/ job[h].kind = "prepare" /\ journal'[job[h].snap].phase = "validated"
    PROVE  ImportInv'
<1>1. job[h] \in JobRow
  BY HostTypes
<1>2. /\ [job[h] EXCEPT !.step = "none", !.ok = ok] \in JobRow
      /\ job' = [job EXCEPT ![h] = [job[h] EXCEPT !.step = "none", !.ok = ok]]
      /\ job'[h] = [job[h] EXCEPT !.step = "none", !.ok = ok]
      /\ session'[h].pc = "out"
      /\ \A g \in Hosts \ {h} : session'[g] = session[g]
  BY ReturnForm
<1>3. /\ job'[h].ok = ok /\ job'[h].step = "none"
      /\ job'[h].kind = job[h].kind /\ job'[h].snap = job[h].snap
  BY <1>1, <1>2 DEF JobRow
<1>4. (h \notin crossed => Relies(h))'
  BY <1>2, <1>3 DEF Relies, AtSome, Done, Working
<1>5. HostOK(h)'
  BY <1>2, <1>3, <1>4 DEF HostOK, AtSome
<1> QED
  BY <1>2, <1>5, StepOfHost

\* What a host at work knows of its operation.
LEMMA AtWork ==
    ASSUME ImportInv, NEW h \in Hosts, NEW step \in Steps \ {"none", "other"}, At(h, step)
    PROVE  /\ session[h].pc = "in" /\ job[h].step = step /\ AtSome(h, {step})
           /\ job[h].kind \in Kinds \ {"other"} /\ job[h].snap \in Snapshots
           /\ (h \notin crossed => Relies(h))
           /\ (step \in {"verify", "finish"} => job[h].snap \in queued)
           /\ (step \in {"stage", "validate"} => job[h].kind = "prepare")
           /\ step # "decide" =>
                  /\ job[h].step \in Working
                  /\ h \notin crossed => journal[job[h].snap].phase # "completed"
<1>1. HostOK(h) /\ job[h] \in JobRow
  BY HostTypes
<1>2. session[h].pc = "in" /\ job[h].step = step
  BY DEF At
<1>3. step # "decide" /\ h \notin crossed => journal[job[h].snap].phase # "completed"
  BY <1>1, <1>2 DEF HostOK, Relies, AtSome, Working
<1> QED
  BY <1>1, <1>2, <1>3 DEF AtSome, HostOK, JobRow, Working

(***************************************************************************)
(* The steps of an import.                                                 *)
(***************************************************************************)
LEMMA SameData ==
    ASSUME ImportInv, UNCHANGED <<data, crossed, told, calls>>
    PROVE  /\ DataOK' /\ CountsOK' /\ Quietly /\ queued' = queued /\ crossed' = crossed
           /\ facts' = facts /\ journal' = journal
BY DEF data, ImportInv, DataOK, CountsOK, Quietly

LEMMA DecideInv ==
    ASSUME ImportInv, LeaseInv', NEW h \in Hosts, Decide(h)
    PROVE  ImportInv'
<1> DEFINE s == job[h].snap
<1> DEFINE p == journal[job[h].snap].phase
<1>1. "decide" \in Steps \ {"none", "other"}
  BY DEF Steps
<1>2. /\ session[h].pc = "in" /\ job[h].kind \in Kinds \ {"other"} /\ s \in Snapshots
  BY <1>1, AtWork DEF Decide
<1>3. CASE Stops(h)
  BY <1>3, StopsInv
<1>4. ASSUME DecideTo(h) = "succeed", Return(h, TRUE), UNCHANGED <<data, crossed>>
      PROVE  ImportInv'
  <2>1. \/ facts = s /\ p = "completed"
        \/ job[h].kind = "prepare" /\ p = "validated"
    BY <1>4 DEF DecideTo, WhenCompleted
  <2>2. UNCHANGED <<told, calls>>
    BY <1>4 DEF Return
  <2> QED
    BY <1>4, <2>1, <2>2, SameData, ReturnInv
<1>5. ASSUME Return(h, FALSE), UNCHANGED <<data, crossed>>
      PROVE  ImportInv'
  <2>1. UNCHANGED <<told, calls>>
    BY <1>5 DEF Return
  <2> QED
    BY <1>5, <2>1, SameData, ReturnInv
<1>6. ASSUME DecideTo(h) \notin {"succeed", "refuse"}, Goto(h, DecideTo(h)),
             UNCHANGED <<data, crossed>>
      PROVE  ImportInv'
  <2>1. DecideTo(h) \in {"enqueue", "adopt", "journal", "backup"}
    BY <1>6 DEF DecideTo, WhenCompleted
  <2>2. DecideTo(h) = "journal" /\ job[h].kind = "import" => bare
    BY <1>2 DEF DecideTo, WhenCompleted
  <2>3. DecideTo(h) \in Steps \ {"none", "other"}
    BY <2>1 DEF Steps
  <2>5. p # "completed"
    BY <1>6 DEF DecideTo, WhenCompleted
  <2>4. /\ job' = [job EXCEPT ![h] = [job[h] EXCEPT !.step = DecideTo(h)]]
        /\ session' = session /\ told' = told /\ calls' = calls
    BY <1>6, <2>3, GotoForm
  <2> QED
    BY <1>2, <1>6, <2>1, <2>2, <2>3, <2>4, <2>5, GoesOn
<1> QED
  BY <1>3, <1>4, <1>5, <1>6 DEF Decide

\* Writing the journal and going on.
LEMMA JournalOn ==
    ASSUME ImportInv, LeaseInv', NEW h \in Hosts, NEW row \in JournalRow, WriteJournal(h, row),
           row.phase # "completed", UNCHANGED <<facts, bare, queued, writes>>,
           NEW step \in Steps \ {"none", "other"}, Goto(h, step),
           session[h].pc = "in", job[h].kind # "other",
           step \notin {"stage", "validate", "verify", "finish"} \/
               (step = "stage" /\ job[h].kind = "prepare"),
           h \notin crossed =>
                /\ step = "journal" /\ job[h].kind = "import" => bare
                /\ step = "load" => bare
                /\ step = "swap" => row.backup = {facts}
    PROVE  ImportInv'
<1>1. UNCHANGED <<told, calls>>
  BY DEF Goto
<1>2. /\ DataOK' /\ CountsOK' /\ journal'[job[h].snap] = row /\ crossed \subseteq crossed'
      /\ \A g \in Hosts \ {h} : Inside(g) => g \in crossed'
      /\ h \in crossed' => h \in crossed
  BY <1>1, JournalForm
<1> QED
  BY <1>2, WritesOn

\* Moving the journal to a phase keeps its row typed.
LEMMA PhaseRow ==
    ASSUME ImportInv, NEW h \in Hosts, NEW p \in Phases, job[h].snap \in Snapshots
    PROVE  /\ [journal[job[h].snap] EXCEPT !.phase = p] \in JournalRow
           /\ [journal[job[h].snap] EXCEPT !.phase = p].phase = p
BY HostTypes DEF JournalRow

LEMMA AdoptInv ==
    ASSUME ImportInv, LeaseInv', NEW h \in Hosts, Adopt(h) \/ Publish(h)
    PROVE  ImportInv'
<1>1. {"adopt", "publish", "enqueue"} \subseteq Steps \ {"none", "other"} /\ "published" \in Phases
  BY DEF Steps, Phases
<1>2. session[h].pc = "in" /\ job[h].kind # "other" /\ job[h].snap \in Snapshots
  BY <1>1, AtWork DEF Adopt, Publish
<1>3. CASE Stops(h)
  BY <1>3, StopsInv
<1>4. CASE Goto(h, "enqueue") /\ SetPhase(h, "published") /\ UNCHANGED <<facts, bare, queued, writes>>
  BY <1>1, <1>2, <1>4, PhaseRow, JournalOn DEF SetPhase
<1> QED
  BY <1>3, <1>4 DEF Adopt, Publish

LEMMA InsertJournalInv ==
    ASSUME ImportInv, LeaseInv', NEW h \in Hosts, InsertJournal(h)
    PROVE  ImportInv'
<1> DEFINE row == [phase |-> "prepared", backup |-> {}]
<1>1. /\ {"journal", "backup", "stage", "load"} \subseteq Steps \ {"none", "other"}
      /\ row \in JournalRow /\ row.phase # "completed"
  BY DEF Steps, JournalRow, Phases
<1>2. /\ session[h].pc = "in" /\ job[h].kind \in Kinds \ {"other"}
      /\ AtSome(h, {"journal"}) /\ (h \notin crossed => Relies(h))
  BY <1>1, AtWork DEF InsertJournal
<1>3. CASE Stops(h)
  BY <1>3, StopsInv
<1>4. ASSUME NEW step \in {"backup", "stage", "load"}, Goto(h, step), WriteJournal(h, row),
             UNCHANGED <<facts, bare, queued, writes>>,
             step = "stage" => job[h].kind = "prepare",
             step = "load" => job[h].kind = "import"
      PROVE  ImportInv'
  <2>1. h \notin crossed /\ step = "load" => bare
    BY <1>2, <1>4 DEF Relies
  <2> QED
    BY <1>1, <1>2, <1>4, <2>1, JournalOn
<1>5. job[h].kind \in {"import", "replace", "prepare"}
  BY <1>2 DEF Kinds
<1> QED
  BY <1>3, <1>4, <1>5 DEF InsertJournal

LEMMA StageInv ==
    ASSUME ImportInv, LeaseInv', NEW h \in Hosts, Stage(h)
    PROVE  ImportInv'
<1>1. {"stage", "validate"} \subseteq Steps \ {"none", "other"}
  BY DEF Steps
<1>2. /\ session[h].pc = "in" /\ job[h].kind = "prepare" /\ job[h].step \in Working
      /\ (h \notin crossed => journal[job[h].snap].phase # "completed")
  BY <1>1, AtWork DEF Stage
<1>3. CASE FailsTo(h, "failed")
  BY <1>2, <1>3, FailsToInv
<1>4. CASE Goto(h, "validate") /\ UNCHANGED <<data, crossed>>
  <2>1. /\ job' = [job EXCEPT ![h] = [job[h] EXCEPT !.step = "validate"]]
        /\ session' = session /\ told' = told /\ calls' = calls
    BY <1>1, <1>4, GotoForm
  <2> QED
    BY <1>1, <1>2, <1>4, <2>1, GoesOn
<1> QED
  BY <1>3, <1>4 DEF Stage

\* Writing the journal and ending.
LEMMA JournalReturn ==
    ASSUME ImportInv, LeaseInv', NEW h \in Hosts, NEW row \in JournalRow, WriteJournal(h, row),
           row.phase = "completed" => job[h].snap \in queued,
           UNCHANGED <<facts, bare, queued, writes>>,
           NEW ok \in BOOLEAN, Return(h, ok),
           ok /\ h \notin crossed =>
               \/ facts = job[h].snap /\ row.phase = "completed"
               \/ job[h].kind = "prepare" /\ row.phase = "validated"
    PROVE  ImportInv'
<1>1. UNCHANGED <<told, calls>>
  BY DEF Return
<1>2. /\ DataOK' /\ CountsOK' /\ journal'[job[h].snap] = row /\ crossed \subseteq crossed'
      /\ \A g \in Hosts \ {h} : Inside(g) => g \in crossed'
      /\ h \in crossed' => h \in crossed
  BY <1>1, JournalForm
<1> QED
  BY <1>2, ReturnInv

LEMMA ValidateInv ==
    ASSUME ImportInv, LeaseInv', NEW h \in Hosts, Validate(h)
    PROVE  ImportInv'
<1> DEFINE row == [phase |-> "validated", backup |-> {}]
<1>1. /\ "validate" \in Steps \ {"none", "other"}
      /\ row \in JournalRow /\ row.phase = "validated"
  BY DEF Steps, JournalRow, Phases
<1>2. job[h].kind = "prepare" /\ job[h].step \in Working
  BY <1>1, AtWork DEF Validate
<1>3. CASE FailsTo(h, "failed")
  BY <1>2, <1>3, FailsToInv
<1>4. CASE Return(h, TRUE) /\ WriteJournal(h, row) /\ UNCHANGED <<facts, bare, queued, writes>>
  BY <1>1, <1>2, <1>4, JournalReturn
<1> QED
  BY <1>3, <1>4 DEF Validate

LEMMA BackupInv ==
    ASSUME ImportInv, LeaseInv', NEW h \in Hosts, Backup(h)
    PROVE  ImportInv'
<1>1. {"backup", "swap"} \subseteq Steps \ {"none", "other"}
  BY DEF Steps
<1>2. /\ session[h].pc = "in" /\ job[h].kind # "other" /\ job[h].step \in Working
      /\ job[h].snap \in Snapshots
      /\ (h \notin crossed => journal[job[h].snap].phase # "completed")
  BY <1>1, AtWork DEF Backup
<1>3. CASE FailsTo(h, "failed")
  BY <1>2, <1>3, FailsToInv
<1>4. CASE Stops(h)
  BY <1>4, StopsInv
<1>5. CASE Goto(h, "swap") /\ WriteJournal(h, Noted(h)) /\ UNCHANGED <<facts, bare, queued, writes>>
  <2>1. journal[job[h].snap] \in JournalRow /\ facts \in Facts
    BY <1>2, HostTypes DEF ImportInv, DataOK
  <2>2. Noted(h) \in JournalRow /\ Noted(h).backup = {facts}
        /\ Noted(h).phase = journal[job[h].snap].phase
    BY <2>1 DEF Noted, JournalRow
  <2>3. /\ DataOK' /\ CountsOK' /\ journal'[job[h].snap] = Noted(h) /\ crossed \subseteq crossed'
        /\ \A g \in Hosts \ {h} : Inside(g) => g \in crossed'
        /\ h \in crossed' => h \in crossed
    BY <1>2, <1>5, <2>2, JournalForm DEF Goto, ImportInv, DataOK
  <2> QED
    BY <1>1, <1>2, <1>5, <2>2, <2>3, WritesOn
<1> QED
  BY <1>3, <1>4, <1>5 DEF Backup

LEMMA SwapInv ==
    ASSUME ImportInv, LeaseInv', NEW h \in Hosts, Swap(h)
    PROVE  ImportInv'
<1> DEFINE s == job[h].snap
<1>1. {"swap", "enqueue"} \subseteq Steps \ {"none", "other"} /\ "published" \in Phases
  BY DEF Steps, Phases
<1>2. /\ session[h].pc = "in" /\ job[h].kind # "other" /\ job[h].step \in Working
      /\ s \in Snapshots
  BY <1>1, AtWork DEF Swap
<1>3. CASE FailsTo(h, "failed")
  BY <1>2, <1>3, FailsToInv
<1>4. CASE /\ Goto(h, "enqueue") /\ facts' = s /\ bare' = FALSE
           /\ SetPhase(h, "published") /\ UNCHANGED <<queued, writes>>
  <2> DEFINE row == [journal[s] EXCEPT !.phase = "published"]
  <2>1. row \in JournalRow /\ row.phase = "published"
    BY <1>1, <1>2, PhaseRow
  <2>2. journal' = [journal EXCEPT ![s] = row] /\ journal \in [Snapshots -> JournalRow]
    BY <1>4, HostTypes DEF SetPhase, WriteJournal
  <2>3. s # 0 /\ s \in Facts
    BY <1>2 DEF Facts
  <2>4. DataOK'
    BY <1>2, <1>4, <2>1, <2>2, <2>3 DEF DataOK, ImportInv
  <2>5. crossed' = crossed \cup {g \in Hosts \ {h} : Inside(g)} /\ UNCHANGED <<told, calls>>
    BY <1>4 DEF SetPhase, WriteJournal, Crossing, Goto
  <2>6. CountsOK'
    BY <2>5 DEF CountsOK, ImportInv
  <2>7. journal'[s].phase = "published"
    BY <1>2, <2>1, <2>2
  <2> QED
    BY <1>1, <1>2, <1>4, <2>4, <2>5, <2>6, <2>7, WritesOn
<1> QED
  BY <1>3, <1>4 DEF Swap

LEMMA LoadInv ==
    ASSUME ImportInv, LeaseInv', NEW h \in Hosts, Load(h)
    PROVE  ImportInv'
<1> DEFINE s == job[h].snap
<1>1. {"load", "publish", "failed"} \subseteq Steps \ {"none", "other"}
  BY DEF Steps
<1>2. /\ session[h].pc = "in" /\ job[h].kind # "other" /\ job[h].step \in Working
      /\ s \in Snapshots
      /\ (h \notin crossed => journal[s].phase # "completed")
  BY <1>1, AtWork DEF Load
<1>3. CASE FailsTo(h, "failed")
  BY <1>2, <1>3, FailsToInv
<1>4. CASE Goto(h, "failed") /\ UNCHANGED <<data, crossed>>
  <2>1. /\ job' = [job EXCEPT ![h] = [job[h] EXCEPT !.step = "failed"]]
        /\ session' = session /\ told' = told /\ calls' = calls
    BY <1>1, <1>4, GotoForm
  <2> QED
    BY <1>1, <1>2, <1>4, <2>1, GoesOn
<1>5. CASE /\ Goto(h, "publish")
           /\ IF facts = 0
              THEN facts' = s /\ UNCHANGED writes
              ELSE writes < MaxWrites /\ writes' = writes + 1 /\ facts' = writes'
           /\ bare' = FALSE
           /\ Crossing(h)
           /\ UNCHANGED <<journal, queued>>
  <2>1. writes \in 0..MaxWrites
    BY DEF ImportInv, DataOK
  <2>2. facts' \in Facts /\ facts' # 0 /\ writes' \in 0..MaxWrites
    BY <1>2, <1>5, <2>1 DEF Facts
  <2>3. DataOK'
    BY <1>5, <2>2 DEF DataOK, ImportInv
  <2>4. crossed' = crossed \cup {g \in Hosts \ {h} : Inside(g)} /\ UNCHANGED <<told, calls>>
    BY <1>5 DEF Crossing, Goto
  <2>5. CountsOK'
    BY <2>4 DEF CountsOK, ImportInv
  <2> QED
    BY <1>1, <1>2, <1>5, <2>3, <2>4, <2>5, WritesOn
<1> QED
  BY <1>3, <1>4, <1>5 DEF Load

LEMMA EnqueueInv ==
    ASSUME ImportInv, LeaseInv', NEW h \in Hosts, Enqueue(h)
    PROVE  ImportInv'
<1> DEFINE s == job[h].snap
<1>1. {"enqueue", "verify"} \subseteq Steps \ {"none", "other"}
  BY DEF Steps
<1>2. /\ session[h].pc = "in" /\ job[h].kind # "other" /\ s \in Snapshots
      /\ (h \notin crossed => journal[s].phase # "completed")
  BY <1>1, AtWork DEF Enqueue
<1>3. CASE Stops(h)
  BY <1>3, StopsInv
<1>4. CASE /\ Goto(h, "verify") /\ queued' = queued \cup {s}
           /\ UNCHANGED <<facts, bare, journal, writes, crossed>>
  <2>1. /\ [job[h] EXCEPT !.step = "verify"] \in JobRow
        /\ job' = [job EXCEPT ![h] = [job[h] EXCEPT !.step = "verify"]]
        /\ job'[h] = [job[h] EXCEPT !.step = "verify"]
        /\ session' = session /\ told' = told /\ calls' = calls
    BY <1>1, <1>4, GotoForm
  <2>2. job[h] \in JobRow /\ ~job[h].ok
    BY <1>2, HostTypes DEF HostOK
  <2>3. /\ job'[h].ok = FALSE /\ job'[h].step = "verify"
        /\ job'[h].kind = job[h].kind /\ job'[h].snap = s
    BY <2>1, <2>2 DEF JobRow
  <2>4. HostOK(h)'
    BY <1>2, <1>4, <2>1, <2>3 DEF HostOK, Relies, AtSome, Done
  <2>5. DataOK' /\ CountsOK' /\ Quietly
    BY <1>2, <1>4, <2>1 DEF ImportInv, DataOK, CountsOK, Quietly
  <2> QED
    BY <1>4, <2>1, <2>4, <2>5, StepOfHost
<1> QED
  BY <1>3, <1>4 DEF Enqueue

LEMMA VerifyInv ==
    ASSUME ImportInv, LeaseInv', NEW h \in Hosts, Verify(h)
    PROVE  ImportInv'
<1>1. {"verify", "finish"} \subseteq Steps \ {"none", "other"}
  BY DEF Steps
<1>2. /\ session[h].pc = "in" /\ job[h].kind # "other" /\ job[h].snap \in queued
      /\ (h \notin crossed => journal[job[h].snap].phase # "completed")
  BY <1>1, AtWork DEF Verify
<1>3. CASE Stops(h)
  BY <1>3, StopsInv
<1>4. CASE Goto(h, "finish") /\ Verified(h) /\ UNCHANGED <<data, crossed>>
  <2>1. /\ job' = [job EXCEPT ![h] = [job[h] EXCEPT !.step = "finish"]]
        /\ session' = session /\ told' = told /\ calls' = calls
    BY <1>1, <1>4, GotoForm
  <2>2. facts = job[h].snap
    BY <1>4 DEF Verified
  <2> QED
    BY <1>1, <1>2, <1>4, <2>1, <2>2, GoesOn
<1>5. CASE Return(h, FALSE) /\ UNCHANGED <<data, crossed>>
  <2>1. UNCHANGED <<told, calls>>
    BY <1>5 DEF Return
  <2> QED
    BY <1>5, <2>1, SameData, ReturnInv
<1> QED
  BY <1>3, <1>4, <1>5 DEF Verify

LEMMA FinishInv ==
    ASSUME ImportInv, LeaseInv', NEW h \in Hosts, Finish(h)
    PROVE  ImportInv'
<1> DEFINE row == [journal[job[h].snap] EXCEPT !.phase = "completed"]
<1>1. "finish" \in Steps \ {"none", "other"} /\ "completed" \in Phases
  BY DEF Steps, Phases
<1>2. /\ job[h].snap \in Snapshots /\ job[h].snap \in queued
      /\ AtSome(h, {"finish"}) /\ (h \notin crossed => Relies(h))
  BY <1>1, AtWork DEF Finish
<1>3. CASE Stops(h)
  BY <1>3, StopsInv
<1>4. CASE Return(h, TRUE) /\ SetPhase(h, "completed") /\ UNCHANGED <<facts, bare, queued, writes>>
  <2>1. row \in JournalRow /\ row.phase = "completed"
    BY <1>1, <1>2, PhaseRow
  <2>2. h \notin crossed => facts = job[h].snap
    BY <1>2 DEF Relies
  <2> QED
    BY <1>2, <1>4, <2>1, <2>2, JournalReturn DEF SetPhase
<1> QED
  BY <1>3, <1>4 DEF Finish

LEMMA MarkFailedInv ==
    ASSUME ImportInv, LeaseInv', NEW h \in Hosts, MarkFailed(h)
    PROVE  ImportInv'
<1>1. "failed" \in Steps \ {"none", "other"} /\ "failed" \in Phases
  BY DEF Steps, Phases
<1>2. job[h].snap \in Snapshots
  BY <1>1, AtWork DEF MarkFailed
<1>3. CASE Stops(h)
  BY <1>3, StopsInv
<1>4. CASE Return(h, FALSE) /\ SetPhase(h, "failed") /\ UNCHANGED <<facts, bare, queued, writes>>
  BY <1>1, <1>2, <1>4, PhaseRow, JournalReturn DEF SetPhase
<1> QED
  BY <1>3, <1>4 DEF MarkFailed

LEMMA OtherInv ==
    ASSUME ImportInv, LeaseInv', NEW h \in Hosts, Other(h)
    PROVE  ImportInv'
<1>1. CASE Stops(h)
  BY <1>1, StopsInv
<1>2. CASE Return(h, TRUE) /\ UNCHANGED <<data, crossed>>
  <2>1. job[h].kind = "other"
    BY HostTypes DEF Other, At, HostOK, AtSome
  <2>2. UNCHANGED <<told, calls>>
    BY <1>2 DEF Return
  <2> QED
    BY <1>2, <2>1, <2>2, SameData, ReturnInv
<1> QED
  BY <1>1, <1>2 DEF Other

(***************************************************************************)
(* Calls and the rest of the world.                                        *)
(***************************************************************************)
LEMMA StartInv ==
    ASSUME ImportInv, LeaseInv', NEW h \in Hosts, NEW kind \in Kinds, NEW s \in Snapshots,
           Start(h, kind, s), calls' \in 0..MaxCalls
    PROVE  ImportInv'
<1> DEFINE step == IF kind = "other" THEN "other" ELSE "decide"
<1> DEFINE row == [NoJob EXCEPT !.kind = kind, !.snap = s, !.step = step]
<1>1. /\ row \in JobRow /\ row.ok = FALSE /\ row.kind = kind
      /\ row.step = IF kind = "other" THEN "other" ELSE "decide"
  <2>1. NoJob \in JobRow /\ NoJob.ok = FALSE
    BY NoJobType DEF NoJob
  <2>2. step \in Steps
    BY DEF Steps
  <2> HIDE DEF step
  <2>3. row \in JobRow /\ row.ok = FALSE /\ row.kind = kind /\ row.step = step
    BY <2>1, <2>2 DEF JobRow
  <2> QED
    BY <2>3 DEF step
<1>2. job' = [job EXCEPT ![h] = row]
  BY Zenon DEF Start
<1>3. /\ session'[h].pc = "in" /\ \A g \in Hosts \ {h} : session'[g] = session[g]
  BY HostTypes DEF Start, Acquire
<1> HIDE DEF row
<1>4. job'[h] = row
  BY <1>2, HostTypes
<1>5. HostOK(h)'
  BY <1>1, <1>3, <1>4 DEF HostOK, Relies, AtSome, Done, Working
<1>6. DataOK' /\ CountsOK' /\ Quietly /\ queued' = queued /\ crossed' = crossed
  BY DEF Start, data, ImportInv, DataOK, CountsOK, Quietly
<1> QED
  BY <1>1, <1>2, <1>3, <1>5, <1>6, StepOfHost

\* The end of a call, however it comes.
LEMMA OverInv ==
    ASSUME ImportInv, LeaseInv', NEW h \in Hosts, UNCHANGED <<data, calls>>,
           job' = [job EXCEPT ![h] = NoJob], \A g \in Hosts \ {h} : session'[g] = session[g],
           told' \subseteq Hosts, crossed' = crossed \ {h}
    PROVE  ImportInv'
<1>1. job'[h] = NoJob /\ job'[h].step = "none" /\ ~job'[h].ok
  BY HostTypes DEF NoJob
<1>2. HostOK(h)'
  BY <1>1 DEF HostOK, Relies, AtSome, Done, Working
<1>3. DataOK' /\ CountsOK' /\ Quietly /\ queued' = queued
  BY DEF data, ImportInv, DataOK, CountsOK, Quietly
<1> QED
  BY <1>2, <1>3, NoJobType, StepOfHost

LEMMA EndInv ==
    ASSUME ImportInv, LeaseInv', NEW h \in Hosts, End(h) \/ Gone(h)
    PROVE  ImportInv'
<1>1. \A g \in Hosts \ {h} : session'[g] = session[g]
  BY HostTypes DEF End, Gone, Release, ReleaseFails, AcquireIsDropped, Cancel, Crash
<1>2. told' \subseteq Hosts
  BY DEF End, Gone, ImportInv, CountsOK
<1> QED
  BY <1>1, <1>2, OverInv DEF End, Gone

\* A host that runs nothing claims nothing.
LEMMA IdleClaims ==
    ASSUME ImportInv, NEW h \in Hosts, ~Inside(h), job'[h] = job[h], ~Inside(h)'
    PROVE  HostOK(h)'
<1>1. job[h].step = "none" /\ ~job[h].ok
  BY HostTypes DEF HostOK, Inside
<1> QED
  BY <1>1 DEF HostOK, Relies, AtSome, Done, Working

LEMMA EditInv ==
    ASSUME ImportInv, LeaseInv', NEW h \in Hosts, Edit(h)
    PROVE  ImportInv'
<1>1. writes \in 0..MaxWrites
  BY DEF ImportInv, DataOK
<1>2. facts' \in Facts /\ facts' # 0 /\ writes' \in 0..MaxWrites /\ bare' \in BOOLEAN
  BY <1>1 DEF Edit, Facts
<1>3. DataOK'
  BY <1>2 DEF DataOK, ImportInv, Edit
<1>4. /\ crossed' = crossed \cup {g \in Hosts \ {h} : Inside(g)}
      /\ UNCHANGED <<session, queued, job, told, calls>> /\ session[h].pc = "idle"
  BY DEF Edit, Crossing, leaseVars
<1>5. CountsOK'
  BY <1>4 DEF CountsOK, ImportInv
<1>6. HostOK(h)'
  BY <1>4, IdleClaims DEF Inside
<1>7. job[h] \in JobRow /\ job' = [job EXCEPT ![h] = job[h]]
  BY <1>4, HostTypes
<1> QED
  BY <1>3, <1>4, <1>5, <1>6, <1>7, StepOfHost

\* The lease alone changes.
LEMMA LeaseOnly ==
    ASSUME ImportInv, LeaseInv', UNCHANGED importVars, session' \in [Hosts -> SessionRow],
           \A h \in Hosts : session'[h].pc = session[h].pc \/ (~Inside(h) /\ ~Inside(h)')
    PROVE  ImportInv'
<1>1. UNCHANGED <<facts, bare, journal, queued, writes, job, told, crossed, calls>>
  BY DEF importVars, data
<1>2. DataOK' /\ CountsOK' /\ job' \in [Hosts -> JobRow]
  BY <1>1 DEF ImportInv, DataOK, CountsOK
<1>3. ASSUME NEW h \in Hosts PROVE HostOK(h)'
  <2>1. CASE session'[h].pc = session[h].pc
    BY <1>1, <2>1, HostTypes DEF HostOK, Relies, AtSome, Done
  <2>2. CASE ~Inside(h) /\ ~Inside(h)'
    BY <1>1, <2>2, IdleClaims
  <2> QED
    BY <1>3, <2>1, <2>2
<1> QED
  BY <1>2, <1>3 DEF ImportInv

LEMMA ImportStepInv ==
    ASSUME ImportInv, LeaseInv', NEW h \in Hosts, ImportStep(h)
    PROVE  ImportInv'
BY DecideInv, AdoptInv, InsertJournalInv, StageInv, ValidateInv, BackupInv, SwapInv, LoadInv,
   EnqueueInv, VerifyInv, FinishInv, MarkFailedInv, OtherInv DEF ImportStep

LEMMA ImportNextInv ==
    ASSUME ImportInv, [Next]_ivars
    PROVE  ImportInv'
<1>1. LeaseInv'
  BY ImportNextLease, LeaseNextInv DEF ImportInv
<1>2. session' \in [Hosts -> SessionRow]
  BY <1>1 DEF LeaseInv, LeaseTypeOK, SessionRow
<1>3. CASE UNCHANGED ivars
  BY <1>1, <1>2, <1>3, LeaseOnly DEF ivars, leaseVars
<1>4. ASSUME NEW h \in Hosts, Call(h) PROVE ImportInv'
  <2>1. calls' \in 0..MaxCalls
    BY <1>4 DEF Call, ImportInv, CountsOK
  <2> QED
    BY <1>1, <1>4, <2>1, StartInv DEF Call
<1>5. ASSUME NEW h \in Hosts, NEW s \in Snapshots, Retry(h, s) PROVE ImportInv'
  <2>1. calls' \in 0..MaxCalls /\ "replace" \in Kinds
    BY <1>5 DEF Retry, ImportInv, CountsOK, Kinds
  <2> QED
    BY <1>1, <1>5, <2>1, StartInv DEF Retry
<1>6. ASSUME NEW h \in Hosts, Refuse(h) PROVE ImportInv'
  <2>1. UNCHANGED <<data, session, job, crossed, calls>> /\ told' \subseteq Hosts
    BY <1>6 DEF Refuse, leaseVars, ImportInv, CountsOK
  <2>2. DataOK' /\ CountsOK'
    BY <2>1 DEF data, ImportInv, DataOK, CountsOK
  <2>3. \A g \in Hosts : HostOK(g)'
    BY <2>1 DEF data, ImportInv, HostOK, Relies, AtSome, Done
  <2> QED
    BY <1>1, <2>1, <2>2, <2>3 DEF ImportInv
<1>7. ASSUME NEW h \in Hosts, ImportStep(h) \/ End(h) \/ Gone(h) \/ Edit(h) PROVE ImportInv'
  BY <1>1, <1>7, ImportStepInv, EndInv, EditInv
<1>8. ASSUME NEW h \in Hosts, Background(h) PROVE ImportInv'
  <2>1. \A g \in Hosts : session'[g].pc = session[g].pc \/ (~Inside(g) /\ ~Inside(g)')
    <3>1. session \in [Hosts -> SessionRow]
      BY HostTypes
    <3>2. CASE Heartbeat(h)
      BY <3>1, <3>2 DEF Heartbeat, SessionRow
    <3>3. CASE Restart(h)
      BY <3>1, <3>3 DEF Restart, NoSession, Inside
    <3> QED
      BY <1>8, <3>2, <3>3 DEF Background
  <2> QED
    BY <1>1, <1>2, <1>8, <2>1, LeaseOnly DEF Background
<1>9. ASSUME (\E d \in drops : DropRelease(d)) \/ Expire, UNCHANGED importVars PROVE ImportInv'
  <2>1. session' = session
    BY <1>9 DEF DropRelease, Expire
  <2> QED
    BY <1>1, <1>2, <1>9, <2>1, LeaseOnly
<1> QED
  BY <1>3, <1>4, <1>5, <1>6, <1>7, <1>8, <1>9 DEF Next

LEMMA ImportInvariance == Spec => []ImportInv
BY ImportInitInv, ImportNextInv, PTL DEF Spec

\* Every variable of lease, journal and operations keeps its type.
THEOREM ImportsAreTyped == Spec => []TypeOK
<1>1. ImportInv => TypeOK
  BY DEF ImportInv, LeaseInv, DataOK, CountsOK, HostOK, TypeOK, JobRow, JournalRow
<1> QED
  BY <1>1, ImportInvariance, PTL

LEMMA ReportStep ==
    ASSUME ImportInv, [Next]_ivars, NEW h \in told' \ told
    PROVE  LET s == job[h].snap  done == journal[s].phase = "completed" IN
           /\ lease.held /\ lease.token = session[h].token /\ session[h].beat = "alive"
           /\ job[h].kind \in {"import", "replace"} /\ h \notin crossed =>
                  facts = s /\ done /\ s \in queued
           /\ job[h].kind = "prepare" /\ h \notin crossed =>
                  journal[s].phase = "validated" \/ (done /\ facts = s)
<1>1. PICK g \in Hosts : End(g) /\ told' # told
  BY DEF Next, ivars, importVars, Call, Retry, Start, Refuse, ImportStep, Decide, Adopt,
         InsertJournal, Stage, Validate, Backup, Swap, Load, Publish, Enqueue, Verify, Finish,
         MarkFailed, Other, Return, Goto, Stops, FailsTo, Gone, Edit, Background
<1>2. h = g /\ job[h].ok /\ Clean(h) /\ session[h].pc = "out" /\ h \in Hosts
  BY <1>1 DEF End, Release
<1>3. Matches(h) /\ session[h].beat = "alive"
  BY <1>2 DEF Clean, ImportInv, LeaseInv, Inside
<1>4. HostOK(h) /\ job[h] \in JobRow
  BY <1>2, HostTypes
<1>5. h \notin crossed => Relies(h)
  BY <1>4 DEF HostOK
<1>6. \A s \in Snapshots : journal[s].phase = "completed" => s \in queued
  BY DEF ImportInv, DataOK
<1> QED
  BY <1>2, <1>3, <1>4, <1>5, <1>6 DEF Matches, Relies, Done, JobRow

\* A success is reported only by an operation that still holds its lease and
\* whose result is there, unless another host wrote while it was at work.
THEOREM ReportsAreTrue == Spec => ReportIsTrue
<1>1. ImportInv /\ [Next]_ivars
      => [\A h \in told' \ told :
             LET s == job[h].snap  done == journal[s].phase = "completed" IN
             /\ lease.held /\ lease.token = session[h].token /\ session[h].beat = "alive"
             /\ job[h].kind \in {"import", "replace"} /\ h \notin crossed =>
                    facts = s /\ done /\ s \in queued
             /\ job[h].kind = "prepare" /\ h \notin crossed =>
                    journal[s].phase = "validated" \/ (done /\ facts = s)]_ivars
  BY ReportStep
<1> QED
  BY <1>1, ImportInvariance, PTL DEF Spec, ReportIsTrue

LEMMA ReplaceStep ==
    ASSUME ImportInv, [Next]_ivars, NEW s \in Snapshots, facts # s, facts' = s, ~bare
    PROVE  \/ journal[s].backup = {facts}
           \/ \E h \in crossed : At(h, "swap") /\ job[h].snap = s
<1>1. s \notin Nat
  OBVIOUS
<1>2. /\ writes \in Nat /\ (facts = 0 => bare)
  BY DEF ImportInv, DataOK
<1>3. facts' # facts
  OBVIOUS
<1>4. ASSUME NEW h \in Hosts PROVE ~Edit(h)
  BY <1>1, <1>2 DEF Edit
<1>5. ASSUME NEW h \in Hosts PROVE ~Load(h)
  <2>1. Load(h) => (facts' = job[h].snap /\ facts = 0) \/ facts' = writes + 1
    BY <1>3 DEF Load, Stops, FailsTo, data
  <2> QED
    BY <1>1, <1>2, <2>1
<1>6. PICK h \in Hosts : Swap(h)
  BY <1>3, <1>4, <1>5 DEF Next, ivars, importVars, data, Call, Retry, Start, Refuse, ImportStep,
         Decide, Adopt, InsertJournal, Stage, Validate, Backup, Publish, Enqueue, Verify,
         Finish, MarkFailed, Other, Return, Goto, Stops, FailsTo, Gone, End, Background
<1>7. At(h, "swap") /\ job[h].snap = s
  BY <1>3, <1>6 DEF Swap, FailsTo, data
<1>8. "swap" \in Steps \ {"none", "other"}
  BY DEF Steps
<1>9. AtSome(h, {"swap"}) /\ (h \notin crossed => Relies(h))
  BY <1>7, <1>8, AtWork
<1> QED
  BY <1>7, <1>9 DEF Relies

\* Facts of somebody's own are never overwritten by an import without a
\* journal that names the backup of just these facts, unless another host
\* wrote between the backup and the swap.
THEOREM ReplacedAreBackedUp == Spec => ReplacedIsBackedUp
<1>1. ImportInv /\ [Next]_ivars
      => [\A s \in Snapshots :
             facts # s /\ facts' = s /\ ~bare =>
                 \/ journal[s].backup = {facts}
                 \/ \E h \in crossed : At(h, "swap") /\ job[h].snap = s]_ivars
  BY ReplaceStep
<1> QED
  BY <1>1, ImportInvariance, PTL DEF Spec, ReplacedIsBackedUp

\* Whatever step changes a journal writes the row of its own snapshot, and is one
\* of the steps after the decision.
LEMMA JournalWriter ==
    ASSUME [Next]_ivars, journal' # journal
    PROVE  \E h \in Hosts, step \in Working :
               At(h, step) /\ \E row : WriteJournal(h, row)
<1>1. PICK h \in Hosts : ImportStep(h)
  BY DEF Next, ivars, importVars, data, Call, Retry, Start, Refuse, End, Gone, Edit, Background
<1>2. ~Stops(h) /\ \A step : ~FailsTo(h, step)
  BY DEF Stops, FailsTo, data
<1>3. {"adopt", "journal", "validate", "backup", "swap", "publish", "finish", "failed"}
          \subseteq Working
  BY DEF Working, Steps
<1>4. \/ Adopt(h) \/ InsertJournal(h) \/ Validate(h) \/ Backup(h) \/ Swap(h)
      \/ Publish(h) \/ Finish(h) \/ MarkFailed(h)
  BY <1>1, <1>2 DEF ImportStep, Decide, Stage, Load, Enqueue, Verify, Other, data
<1>5. \E step \in Working : At(h, step)
  BY <1>3, <1>4 DEF Adopt, InsertJournal, Validate, Backup, Swap, Publish, Finish, MarkFailed
<1>6. \E row : WriteJournal(h, row)
  BY <1>2, <1>4 DEF Adopt, InsertJournal, Validate, Backup, Swap, Publish, Finish, MarkFailed,
     SetPhase
<1> QED
  BY <1>5, <1>6

LEMMA FinalStep ==
    ASSUME ImportInv, [Next]_ivars, NEW s \in Snapshots,
           journal[s].phase = "completed", journal'[s].phase # "completed"
    PROVE  \E h \in crossed : session[h].pc = "in" /\ job[h].snap = s
<1>1. PICK h \in Hosts, step \in Working : At(h, step) /\ \E row : WriteJournal(h, row)
  BY JournalWriter
<1>2. step \in Steps \ {"none", "other"} /\ step # "decide"
  BY DEF Working
<1>3. session[h].pc = "in" /\ (h \notin crossed => journal[job[h].snap].phase # "completed")
  BY <1>1, <1>2, AtWork
<1>4. job[h].snap = s
  BY <1>1, HostTypes DEF WriteJournal
<1> QED
  BY <1>3, <1>4

\* A completed import is reopened by no later call, retry or error, whatever
\* was edited since: only by an operation that another host wrote beside.
THEOREM CompletedImportsAreFinal == Spec => CompletedIsFinal
<1>1. ImportInv /\ [Next]_ivars
      => [\A s \in Snapshots :
             journal[s].phase = "completed" /\ journal'[s].phase # "completed" =>
                 \E h \in crossed : session[h].pc = "in" /\ job[h].snap = s]_ivars
  BY FinalStep
<1> QED
  BY <1>1, ImportInvariance, PTL DEF Spec, CompletedIsFinal
=============================================================================
