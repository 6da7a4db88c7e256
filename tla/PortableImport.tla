--------------------------- MODULE PortableImport ---------------------------
(***************************************************************************)
(* Maintenance operations under the lease, and among them the import of a  *)
(* portable snapshot: a journal per snapshot says how far it came, so that *)
(* an import that failed, was dropped or died with its host is taken up    *)
(* again by the next call for the same snapshot.                           *)
(*                                                                         *)
(* The canonical facts are the snapshot they equal, or the number of the   *)
(* write that made them what they are: 0 after the bootstrap.              *)
(***************************************************************************)
EXTENDS MaintenanceLease

CONSTANTS
    Snapshots,      \* portable files, told apart by their payload checksum
    MaxCalls,       \* bound on the calls that are not the retry of a replace
    MaxWrites       \* bound on the writes of other callers

ASSUME ImportAssumption ==
    /\ Snapshots # {} /\ Snapshots \cap Nat = {}
    /\ MaxCalls \in Nat /\ MaxWrites \in Nat

VARIABLES
    facts,      \* the canonical tables
    bare,       \* canonical_record_count = 0: boards and predicates, no more
    journal,    \* journal[s]: import_journal, its phase and the backup it names
    queued,     \* snapshots whose rebuild jobs were enqueued
    job,        \* job[h]: the operation h runs, and its locals
    told,       \* hosts whose last operation was reported to its caller as done
    crossed,    \* hosts at work while another host wrote facts or journals
    writes,
    calls

data == <<facts, bare, journal, queued, writes>>
importVars == <<data, job, told, crossed, calls>>
ivars == <<leaseVars, importVars>>

\* An import merges into the facts (FALSE) or replaces them (TRUE); prepare
\* builds a staged database only.  Any other operation leaves all this alone.
Kinds == {"import", "replace", "prepare", "other"}

NoJob == [step |-> "none", kind |-> "other", snap |-> CHOOSE s \in Snapshots : TRUE, ok |-> FALSE]

Steps == {"none", "decide", "adopt", "journal", "stage", "validate", "backup", "swap",
          "load", "publish", "enqueue", "verify", "finish", "failed", "other"}

Phases == {"none", "prepared", "failed", "validated", "published", "completed"}

Facts == Snapshots \cup 0..MaxWrites

Init ==
    /\ LeaseInit
    /\ facts = 0
    /\ bare = TRUE
    /\ journal = [s \in Snapshots |-> [phase |-> "none", backup |-> {}]]
    /\ queued = {}
    /\ job = [h \in Hosts |-> NoJob]
    /\ told = {}
    /\ crossed = {}
    /\ writes = 0
    /\ calls = 0

Crossing(h) == crossed' = crossed \cup {g \in Hosts \ {h} : Inside(g)}

(***************************************************************************)
(* A call, its lease and its result.                                       *)
(***************************************************************************)
Start(h, kind, s) ==
    /\ Acquire(h)
    /\ job' = [job EXCEPT ![h] = [NoJob EXCEPT !.kind = kind, !.snap = s,
                                  !.step = IF kind = "other" THEN "other" ELSE "decide"]]
    /\ told' = told \ {h}
    /\ UNCHANGED <<data, crossed>>

Call(h) ==
    /\ calls < MaxCalls
    /\ calls' = calls + 1
    /\ \E kind \in Kinds \ {"replace"}, s \in Snapshots : Start(h, kind, s)

\* Whoever wants the snapshot asks for it until it is there.
Retry(h, s) == Start(h, "replace", s) /\ UNCHANGED calls

\* MaintenanceBusy.
Refuse(h) ==
    /\ session[h].pc = "idle" /\ ~Free
    /\ told' = told \ {h}
    /\ UNCHANGED <<leaseVars, data, job, crossed, calls>>

\* What the caller is told: success needs the operation's and the release's.
End(h) ==
    /\ Release(h)
    /\ told' = IF job[h].ok /\ Clean(h) THEN told \cup {h} ELSE told
    /\ job' = [job EXCEPT ![h] = NoJob]
    /\ crossed' = crossed \ {h}
    /\ UNCHANGED <<data, calls>>

\* The operation's result is lost with its release, or with its caller.
Gone(h) ==
    /\ ReleaseFails(h) \/ AcquireIsDropped(h) \/ Cancel(h) \/ Crash(h)
    /\ job' = [job EXCEPT ![h] = NoJob]
    /\ crossed' = crossed \ {h}
    /\ UNCHANGED <<data, told, calls>>

At(h, step) == session[h].pc = "in" /\ job[h].step = step

Goto(h, step) ==
    /\ job' = [job EXCEPT ![h].step = step]
    /\ UNCHANGED <<leaseVars, told, calls>>

Return(h, ok) ==
    /\ Leave(h)
    /\ job' = [job EXCEPT ![h].step = "none", ![h].ok = ok]
    /\ UNCHANGED <<told, calls>>

\* An error that is noted in the journal, at most: the phase stays.
Stops(h) ==
    /\ LeaveWithError(h)
    /\ job' = [job EXCEPT ![h].step = "none"]
    /\ UNCHANGED <<data, told, crossed, calls>>

\* An error after which the journal is marked failed.
FailsTo(h, step) ==
    /\ MeetError(h)
    /\ job' = [job EXCEPT ![h].step = step]
    /\ UNCHANGED <<data, told, crossed, calls>>

(***************************************************************************)
(* import_with_lease and replace_import_transaction.                       *)
(***************************************************************************)

\* Mutant: a journal whose attempt failed is not taken up again.
Resumes_NotFailed(kind, p) ==
    p \in {"none", "prepared"} \/ (p \in {"validated", "published"} /\ kind # "import")

\* The phases from which a call starts over with the facts.
Resumes(kind, p) ==
    p \in {"none", "prepared", "failed"} \/ (p \in {"validated", "published"} /\ kind # "import")

\* Mutant: a completed import whose facts were edited is done over.
WhenCompleted_Redo(s) == IF facts = s THEN "succeed" ELSE "journal"

WhenCompleted(s) == IF facts = s THEN "succeed" ELSE "refuse"

\* What a call makes of the journal it finds and of the facts it sees.
DecideTo(h) ==
    LET s == job[h].snap  kind == job[h].kind  p == journal[job[h].snap].phase IN
    IF p = "completed" THEN WhenCompleted(s)
    ELSE IF p = "published" /\ kind # "prepare" THEN "enqueue"
    ELSE IF ~Resumes(kind, p) THEN "refuse"
    ELSE IF p = "prepared" /\ facts = s THEN "adopt"
    ELSE CASE kind = "replace" -> IF p \in {"none", "failed"} THEN "journal" ELSE "backup"
           [] kind = "prepare" -> IF p = "validated" THEN "succeed" ELSE "journal"
           [] kind \notin {"replace", "prepare"} -> IF bare THEN "journal" ELSE "refuse"

Decide(h) ==
    /\ At(h, "decide")
    /\ \/ /\ CASE DecideTo(h) = "succeed" -> Return(h, TRUE)
               [] DecideTo(h) = "refuse" -> Return(h, FALSE)
               [] OTHER -> Goto(h, DecideTo(h))
          /\ UNCHANGED <<data, crossed>>
       \/ Stops(h)

WriteJournal(h, row) ==
    /\ journal' = [journal EXCEPT ![job[h].snap] = row]
    /\ Crossing(h)

SetPhase(h, p) == WriteJournal(h, [journal[job[h].snap] EXCEPT !.phase = p])

\* The facts are there, and the journal did not get to say so.
Adopt(h) ==
    /\ At(h, "adopt")
    /\ \/ Goto(h, "enqueue") /\ SetPhase(h, "published") /\ UNCHANGED <<facts, bare, queued, writes>>
       \/ Stops(h)

\* insert_import_journal starts the row again, without a backup.
InsertJournal(h) ==
    /\ At(h, "journal")
    /\ \/ /\ Goto(h, CASE job[h].kind = "replace" -> "backup"
                       [] job[h].kind = "prepare" -> "stage"
                       [] OTHER -> "load")
          /\ WriteJournal(h, [phase |-> "prepared", backup |-> {}])
          /\ UNCHANGED <<facts, bare, queued, writes>>
       \/ Stops(h)

\* prepare_replacement fills and verifies a database of its own.
Stage(h) ==
    /\ At(h, "stage")
    /\ \/ Goto(h, "validate") /\ UNCHANGED <<data, crossed>>
       \/ FailsTo(h, "failed")

\* update_import_journal_validated forgets what else the row identified.
Validate(h) ==
    /\ At(h, "validate")
    /\ \/ /\ Return(h, TRUE)
          /\ WriteJournal(h, [phase |-> "validated", backup |-> {}])
          /\ UNCHANGED <<facts, bare, queued, writes>>
       \/ FailsTo(h, "failed")

\* Mutant: a journal that names a backup already gets no second one.
Noted_First(h) ==
    [journal[job[h].snap] EXCEPT !.backup = IF @ = {} THEN {facts} ELSE @]

Noted(h) == [journal[job[h].snap] EXCEPT !.backup = {facts}]

\* create_verified_replace_backup and update_import_journal_backup.  Between
\* the two only a file is new that nothing refers to.
Backup(h) ==
    /\ At(h, "backup")
    /\ \/ Goto(h, "swap") /\ WriteJournal(h, Noted(h)) /\ UNCHANGED <<facts, bare, queued, writes>>
       \/ FailsTo(h, "failed")
       \/ Stops(h)

\* One transaction deletes the facts, inserts the snapshot, verifies it and
\* publishes the journal, or does none of it.
Swap(h) ==
    /\ At(h, "swap")
    /\ \/ /\ Goto(h, "enqueue")
          /\ facts' = job[h].snap
          /\ bare' = FALSE
          /\ SetPhase(h, "published")
          /\ UNCHANGED <<queued, writes>>
       \/ FailsTo(h, "failed")

\* import_records_into_connection inserts into what is there: boards of
\* somebody's own stay beside the snapshot's, records with the same key make
\* the transaction fail.
Load(h) ==
    /\ At(h, "load")
    /\ \/ /\ Goto(h, "publish")
          /\ IF facts = 0
             THEN facts' = job[h].snap /\ UNCHANGED writes
             ELSE writes < MaxWrites /\ writes' = writes + 1 /\ facts' = writes'
          /\ bare' = FALSE
          /\ Crossing(h)
          /\ UNCHANGED <<journal, queued>>
       \/ facts # 0 /\ Goto(h, "failed") /\ UNCHANGED <<data, crossed>>
       \/ FailsTo(h, "failed")

Publish(h) ==
    /\ At(h, "publish")
    /\ \/ Goto(h, "enqueue") /\ SetPhase(h, "published") /\ UNCHANGED <<facts, bare, queued, writes>>
       \/ Stops(h)

\* enqueue_rebuild_jobs: one job per board and target, by a dedupe key.
Enqueue(h) ==
    /\ At(h, "enqueue")
    /\ \/ /\ Goto(h, "verify")
          /\ queued' = queued \cup {job[h].snap}
          /\ UNCHANGED <<facts, bare, journal, writes, crossed>>
       \/ Stops(h)

\* Mutant: an import is finished without a look at the facts.
Verified_Never(h) == TRUE

\* verify_imported_target: row counts and the payload checksum.
Verified(h) == facts = job[h].snap

Verify(h) ==
    /\ At(h, "verify")
    /\ \/ /\ IF Verified(h) THEN Goto(h, "finish") ELSE Return(h, FALSE)
          /\ UNCHANGED <<data, crossed>>
       \/ Stops(h)

Finish(h) ==
    /\ At(h, "finish")
    /\ \/ Return(h, TRUE) /\ SetPhase(h, "completed") /\ UNCHANGED <<facts, bare, queued, writes>>
       \/ Stops(h)

\* mark_import_journal_failed: its own error is ignored.
MarkFailed(h) ==
    /\ At(h, "failed")
    /\ \/ Return(h, FALSE) /\ SetPhase(h, "failed") /\ UNCHANGED <<facts, bare, queued, writes>>
       \/ Stops(h)

\* checkpoint, backup, export, vacuum, maintenance_run: of canonical facts
\* they change nothing.
Other(h) ==
    /\ At(h, "other")
    /\ \/ Return(h, TRUE) /\ UNCHANGED <<data, crossed>>
       \/ Stops(h)

ImportStep(h) ==
    \/ Decide(h) \/ Adopt(h) \/ InsertJournal(h) \/ Stage(h) \/ Validate(h)
    \/ Backup(h) \/ Swap(h) \/ Load(h) \/ Publish(h) \/ Enqueue(h) \/ Verify(h)
    \/ Finish(h) \/ MarkFailed(h) \/ Other(h)

(***************************************************************************)
(* The rest of the world.                                                  *)
(***************************************************************************)

\* Any mutation of the host's other callers, which takes the gate.  One that
\* only makes boards leaves a bare database bare.
Edit(h) ==
    /\ session[h].pc = "idle"
    /\ writes < MaxWrites
    /\ writes' = writes + 1
    /\ facts' = writes'
    /\ \E b \in BOOLEAN : bare' = (b /\ bare)
    /\ Crossing(h)
    /\ UNCHANGED <<leaseVars, journal, queued, job, told, calls>>

Background(h) == (Heartbeat(h) \/ Restart(h)) /\ UNCHANGED importVars

Next ==
    \/ \E h \in Hosts :
        \/ Call(h) \/ (\E s \in Snapshots : Retry(h, s))
        \/ Refuse(h) \/ ImportStep(h) \/ End(h) \/ Gone(h) \/ Edit(h) \/ Background(h)
    \/ \E d \in drops : DropRelease(d) /\ UNCHANGED importVars
    \/ Expire /\ UNCHANGED importVars

\* The runtime goes on with what it has begun, spawned tasks included; time
\* passes; a dead host is started again, and somebody retries the import.
Fairness ==
    /\ \A h \in Hosts : WF_ivars(ImportStep(h) \/ End(h))
    /\ \A h \in Hosts : WF_ivars(Restart(h) /\ UNCHANGED importVars)
    /\ \A h \in Hosts, s \in Snapshots : WF_ivars(Retry(h, s))
    /\ WF_ivars(\E d \in drops : DropRelease(d) /\ UNCHANGED importVars)
    /\ WF_ivars(Expire /\ UNCHANGED importVars)

Spec == Init /\ [][Next]_ivars /\ Fairness

(***************************************************************************)
(* Properties.                                                             *)
(***************************************************************************)
TypeOK ==
    /\ LeaseTypeOK
    /\ facts \in Facts
    /\ bare \in BOOLEAN
    /\ journal \in [Snapshots -> [phase : Phases, backup : SUBSET Facts]]
    /\ queued \subseteq Snapshots
    /\ job \in [Hosts -> [step : Steps, kind : Kinds, snap : Snapshots, ok : BOOLEAN]]
    /\ \A h \in Hosts : (job[h].step # "none") => session[h].pc = "in"
    /\ told \subseteq Hosts
    /\ crossed \subseteq Hosts
    /\ writes \in 0..MaxWrites
    /\ calls \in 0..MaxCalls

\* An import that nobody from another host got across reports success only of
\* what is there: the facts are the snapshot, its rebuild is queued and its
\* journal says completed; a prepared one has a staged database.  And whoever
\* lost the lease or its heartbeat reports no success ("拒绝报告成功").
ReportIsTrue ==
    [][\A h \in told' \ told :
             LET s == job[h].snap  done == journal[s].phase = "completed" IN
             /\ lease.held /\ lease.token = session[h].token /\ session[h].beat = "alive"
             /\ job[h].kind \in {"import", "replace"} /\ h \notin crossed =>
                    facts = s /\ done /\ s \in queued
             /\ job[h].kind = "prepare" /\ h \notin crossed =>
                    journal[s].phase = "validated" \/ (done /\ facts = s)]_ivars

\* A completed import is final: no later call, retry or error of this host's
\* reopens its journal, also when the facts were edited since.  Only an
\* operation that another host wrote beside, one that went on after its lease
\* had run out, may still put its own phase over it.
CompletedIsFinal ==
    [][\A s \in Snapshots :
         journal[s].phase = "completed" /\ journal'[s].phase # "completed" =>
             \E h \in crossed : session[h].pc = "in" /\ job[h].snap = s]_ivars

\* Facts of somebody's own are overwritten by an import only when the journal
\* names a backup of just these facts, taken before.
ReplacedIsBackedUp ==
    [][\A s \in Snapshots :
         facts # s /\ facts' = s /\ ~bare =>
             \/ journal[s].backup = {facts}
             \/ \E h \in crossed : At(h, "swap") /\ job[h].snap = s]_ivars

\* Maintenance goes on: as long as somebody asks for it, no lease stays behind
\* for ever from an operation that failed, was dropped or died.
MaintenanceGoesOn == []<>~lease.held

\* The facts were written to since the snapshot was published.
Overtaken(s) == journal[s].phase \in {"published", "completed"} /\ facts # s

\* However an import was broken off, whoever retries it gets it finished: no
\* phase the journal can be left in is a dead end.
RetryFinishes ==
    \A s \in Snapshots :
        []<>(Overtaken(s) \/ (journal[s].phase = "completed" /\ facts = s /\ s \in queued))
=============================================================================
