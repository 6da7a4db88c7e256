---------------------------- MODULE VectorQueue ----------------------------
(***************************************************************************)
(* The vector projection of crates/kanban-service: canonical tasks and     *)
(* label atoms, the triggers that queue a job for each of their changes,   *)
(* the worker tick that claims a job, asks an external provider for an     *)
(* embedding and records it, and the publication of a generation.          *)
(*                                                                         *)
(* A host's mutation gate is held from the start of a tick to its end, so  *)
(* a host that is not "idle" serves no other write.  Hosts are separate    *)
(* processes on one database: they share no gate, only the fence.          *)
(***************************************************************************)
EXTENDS Integers, FiniteSets

CONSTANTS
    Hosts,          \* host processes that open the database
    Tasks, Atoms,   \* canonical entities with an embedding
    Models,         \* provider configurations, told apart by their model
    NULL,
    MaxAttempts,    \* max_attempts of a job (10 in the code)
    TickJobs,       \* VECTOR_WORKER_TICK_MAX_JOBS (8 in the code)
    MaxEdits,       \* bound on the versions of one entity
    MaxCalls,       \* bound on configure, rebuild and sync calls
    MaxFaults       \* bound on crashes, storage errors and provider failures

ASSUME QueueAssumption ==
    /\ Tasks \cap Atoms = {}
    /\ NULL \notin Hosts \cup Models
    /\ MaxAttempts \in Nat \ {0}
    /\ TickJobs \in Nat \ {0}
    /\ MaxEdits \in Nat
    /\ MaxCalls \in Nat
    /\ MaxFaults \in Nat

Entities == Tasks \cup Atoms

\* dedupe_key: one row per entity and operation.
Operations == {"upsert", "rebuild"}
Jobs == Entities \X Operations

\* The two rows of projection_state.
Projections == {"tasks", "atoms"}

VARIABLES
    content,    \* content[e]: the version of the canonical fact, 0 before it exists
    job,        \* projection_jobs
    state,      \* projection_state: lifecycle_status and dirty of each row
    model,      \* vector.config and provider_fingerprint: NULL when not configured
    vector,     \* retrieval_vectors: the version embedded, by entity and model
    host,       \* what each host process is doing
    calls,      \* configure, rebuild and sync calls so far
    faults,     \* crashes, storage errors and provider failures so far
    owed,       \* entities queued and marked since the provider was configured
    crossed     \* entities whose last enqueuing met another host at work

vars == <<content, job, state, model, vector, host, calls, faults, owed, crossed>>

\* The status of a row, its claims so far, the fence of its last claim (with
\* the row's id: a row that is deleted never comes back under the same one),
\* when it may be tried again and whether its lease has run out.
JobRow == [status : {"none", "pending", "running", "done", "failed"},
           attempts : Nat, fence : Nat, due : {"now", "later", "never"},
           expired : BOOLEAN]
NoJob == [status |-> "none", attempts |-> 0, fence |-> 0, due |-> "now", expired |-> FALSE]

\* A host between two of its steps.  config, job, fence and seen are what the
\* tick holds in its locals, budget the jobs it may still claim; todo is what an
\* enqueue loop has left, any whether it had anything, and put what it enqueued
\* since the provider was configured.
Idle == [pc |-> "idle", config |-> NULL, job |-> NULL, fence |-> 0, seen |-> 0,
         budget |-> 0, todo |-> {}, any |-> FALSE, put |-> {}, op |-> "upsert"]
Off == [Idle EXCEPT !.pc = "off"]

Working == {"read", "embed", "store", "complete", "retry", "fatal"}
Ticking == Working \cup {"claim", "degrade", "publish"}
Pcs == Ticking \cup {"off", "idle", "enqueue", "mark"}

Outstanding(j) == job[j].status \in {"pending", "running", "failed"}
Embedded(e) == model # NULL /\ vector[e][model] = content[e]
Row(e) == IF e \in Tasks THEN "tasks" ELSE "atoms"

Init ==
    /\ content = [e \in Entities |-> 0]
    /\ job = [j \in Jobs |-> NoJob]
    /\ state = [p \in Projections |-> [lifecycle |-> "bootstrap_required", dirty |-> TRUE]]
    /\ model = NULL
    /\ vector = [e \in Entities |-> [m \in Models |-> 0]]
    /\ host = [h \in Hosts |-> Idle]
    /\ calls = 0
    /\ faults = 0
    /\ owed = {}
    /\ crossed = {}

(***************************************************************************)
(* Enqueuing.                                                              *)
(***************************************************************************)

\* Mutant: a failed job is put back to pending but a done one is left done.
Enqueued_DoneStays(row, op) ==
    IF op = "rebuild" \/ row.status = "none"
    THEN [status |-> "pending", attempts |-> 0, fence |-> row.fence + 1,
          due |-> "now", expired |-> FALSE]
    ELSE [row EXCEPT !.status = IF @ = "failed" THEN "pending" ELSE @, !.due = "now"]

\* The upsert on (target, dedupe_key): a rebuild takes the job from whoever
\* runs it and forgives its attempts, an upsert only revives a done job.
Enqueued(row, op) ==
    IF op = "rebuild" \/ row.status = "none"
    THEN [status |-> "pending", attempts |-> 0, fence |-> row.fence + 1,
          due |-> "now", expired |-> FALSE]
    ELSE [row EXCEPT !.status = IF @ = "done" THEN "pending" ELSE @, !.due = "now"]

\* A host that may still answer for e from what it read before: it works on e,
\* or its tick was started under another configuration.
MayOvertake(g, e) ==
    \/ host[g].pc \in Working /\ host[g].job[1] = e
    \/ host[g].pc \in Ticking /\ host[g].config # model

\* Another host may answer for e from before what h writes now.
Overtaken(h, e) == \E g \in Hosts \ {h} : MayOvertake(g, e)

\* The bookkeeping of owed and crossed for a canonical write of h.
Owe(h, e) ==
    /\ owed' = owed \cup {e}
    /\ crossed' = IF Overtaken(h, e) THEN crossed \cup {e} ELSE crossed \ {e}

\* Degraded and dirty, as everything but the triggers marks both rows.
Degraded == [p \in Projections |-> [lifecycle |-> "degraded", dirty |-> TRUE]]

\* The triggers' mark: only a ready row becomes degraded.
Stale(row) ==
    [lifecycle |-> IF row.lifecycle = "ready" THEN "degraded" ELSE row.lifecycle,
     dirty |-> TRUE]

\* Mutant: a write of the host does not wait for its tick.
Edit_NoGate(h, e) ==
    /\ host[h].pc # "off"
    /\ content[e] < MaxEdits
    /\ content' = [content EXCEPT ![e] = @ + 1]
    /\ job' = [job EXCEPT ![<<e, "upsert">>] = Enqueued(@, "upsert")]
    /\ state' = [p \in Projections |->
                    IF e \in Tasks \/ p = "atoms" THEN Stale(state[p]) ELSE state[p]]
    /\ Owe(h, e)
    /\ UNCHANGED <<model, vector, host, calls, faults>>

\* A canonical write: the fact, its job and the mark commit together.  A task
\* event marks both rows, a label atom its own.
Edit(h, e) ==
    /\ host[h].pc = "idle"
    /\ content[e] < MaxEdits
    /\ content' = [content EXCEPT ![e] = @ + 1]
    /\ job' = [job EXCEPT ![<<e, "upsert">>] = Enqueued(@, "upsert")]
    /\ state' = [p \in Projections |->
                    IF e \in Tasks \/ p = "atoms" THEN Stale(state[p]) ELSE state[p]]
    /\ Owe(h, e)
    /\ UNCHANGED <<model, vector, host, calls, faults>>

\* rebuild_vector and sync_vector enqueue one job after the other ...
Enqueue(h, op) ==
    /\ host[h].pc = "idle"
    /\ calls < MaxCalls
    /\ calls' = calls + 1
    /\ host' = [host EXCEPT ![h] = [Idle EXCEPT !.pc = "enqueue", !.op = op,
                                    !.todo = {e \in Entities : content[e] > 0}]]
    /\ UNCHANGED <<content, job, state, model, vector, faults, owed, crossed>>

EnqueueOne(h) ==
    /\ host[h].pc = "enqueue"
    /\ \/ \E e \in host[h].todo :
            /\ job' = [job EXCEPT ![<<e, host[h].op>>] = Enqueued(@, host[h].op)]
            /\ host' = [host EXCEPT ![h].todo = @ \ {e}, ![h].any = TRUE,
                                    ![h].put = @ \cup {e}]
            /\ crossed' = IF Overtaken(h, e) THEN crossed \cup {e} ELSE crossed
       \/ /\ host[h].todo = {}
          /\ host' = [host EXCEPT ![h].pc = "mark"]
          /\ UNCHANGED <<job, crossed>>
    /\ UNCHANGED <<content, state, model, vector, calls, faults, owed>>

\* ... and then mark both rows, unless there was nothing to enqueue.
MarkEnqueued(h) ==
    /\ host[h].pc = "mark"
    /\ host' = [host EXCEPT ![h] = Idle]
    /\ state' = IF host[h].any \/ model = NULL THEN Degraded ELSE state
    /\ owed' = owed \cup host[h].put
    /\ UNCHANGED <<content, job, model, vector, calls, faults, crossed>>

\* configure_vector: one transaction, and no job is enqueued by it.  What was
\* owed under the provider before is owed no more.
Configure(h, m) ==
    /\ host[h].pc = "idle"
    /\ calls < MaxCalls
    /\ calls' = calls + 1
    /\ model' = m
    /\ state' = Degraded
    /\ owed' = {}
    /\ host' = [g \in Hosts |-> [host[g] EXCEPT !.put = {}]]
    /\ UNCHANGED <<content, job, vector, faults, crossed>>

(***************************************************************************)
(* One tick of the worker, under the gate of its host.                     *)
(***************************************************************************)
StartTick(h) ==
    /\ host[h].pc = "idle"
    /\ model # NULL
    /\ host' = [host EXCEPT ![h] = [Idle EXCEPT !.pc = "claim", !.config = model,
                                               !.budget = TickJobs]]
    /\ UNCHANGED <<content, job, state, model, vector, calls, faults, owed, crossed>>

Claimable(row) ==
    /\ row.attempts < MaxAttempts
    /\ \/ row.status \in {"pending", "failed"} /\ row.due = "now"
       \/ row.status = "running" /\ row.expired

\* Mutant: a last attempt that never answered keeps its job running.
Spent_Never(row) == FALSE

\* The last attempt's lease ran out: nobody may claim the job again.
Spent(row) == row.status = "running" /\ row.expired /\ row.attempts >= MaxAttempts

Swept(row) ==
    IF Spent(row) THEN [row EXCEPT !.status = "failed", !.due = "now", !.expired = FALSE]
    ELSE row

Claimed(row) ==
    [status |-> "running", attempts |-> row.attempts + 1, fence |-> row.fence + 1,
     due |-> "now", expired |-> FALSE]

\* claim_vector_jobs with a limit of one: the sweep of spent jobs and the claim
\* are one transaction.  The oldest job first; any may be the oldest.
Claim(h) ==
    /\ host[h].pc = "claim"
    /\ state' = IF \E j \in Jobs : Spent(job[j]) THEN Degraded ELSE state
    /\ \/ \E j \in {i \in Jobs : Claimable(job[i])} :
            /\ job' = [i \in Jobs |-> IF i = j THEN Claimed(job[i]) ELSE Swept(job[i])]
            /\ host' = [host EXCEPT ![h].pc = "read", ![h].job = j,
                                    ![h].fence = job'[j].fence, ![h].budget = @ - 1]
       \/ /\ \A j \in Jobs : ~Claimable(job[j])
          /\ job' = [i \in Jobs |-> Swept(job[i])]
          /\ host' = [host EXCEPT ![h].pc = "publish"]
    /\ UNCHANGED <<content, model, vector, calls, faults, owed, crossed>>

Fault == faults < MaxFaults /\ faults' = faults + 1

\* process_job reads the fact as it is now, not the payload of the job, and
\* asks the provider only if that version has no embedding yet.
ReadFact(h) ==
    LET e == host[h].job[1] IN
    /\ host[h].pc = "read"
    /\ \/ /\ host' = [host EXCEPT ![h].seen = content[e],
                   ![h].pc = IF vector[e][host[h].config] = content[e]
                             THEN "complete" ELSE "embed"]
          /\ UNCHANGED faults
       \/ Fault /\ host' = [host EXCEPT ![h].pc = "fatal"]
    /\ UNCHANGED <<content, job, state, model, vector, calls, owed, crossed>>

\* The provider answers, or fails in a way worth a retry or not.
Embed(h) ==
    /\ host[h].pc = "embed"
    /\ \/ host' = [host EXCEPT ![h].pc = "store"] /\ UNCHANGED faults
       \/ Fault /\ \E pc \in {"retry", "fatal"} : host' = [host EXCEPT ![h].pc = pc]
    /\ UNCHANGED <<content, job, state, model, vector, calls, owed, crossed>>

\* The document and its embedding are written without a look at the claim.
Store(h) ==
    /\ host[h].pc = "store"
    /\ \/ /\ vector' = [vector EXCEPT ![host[h].job[1]][host[h].config] = host[h].seen]
          /\ host' = [host EXCEPT ![h].pc = "complete"]
          /\ UNCHANGED faults
       \/ Fault /\ host' = [host EXCEPT ![h].pc = "fatal"] /\ UNCHANGED vector
    /\ UNCHANGED <<content, job, state, model, calls, owed, crossed>>

\* Mutant: the row is matched by its status alone.
Holds_AnyFence(h) == job[host[h].job].status = "running"

\* The row still carries the token and the fence of h's claim.
Holds(h) ==
    LET row == job[host[h].job] IN row.status = "running" /\ row.fence = host[h].fence

\* After a job: another one, or the end of the tick.
Onward(h) ==
    host' = [host EXCEPT ![h] = [Idle EXCEPT !.config = host[h].config, !.budget = host[h].budget,
                                 !.pc = IF host[h].budget > 0 THEN "claim" ELSE "publish"]]

\* complete_vector_job: changes nothing when the claim was lost.
Complete(h) ==
    /\ host[h].pc = "complete"
    /\ job' = IF Holds(h)
              THEN [job EXCEPT ![host[h].job] = [@ EXCEPT !.status = "done", !.due = "now",
                                                          !.expired = FALSE]]
              ELSE job
    /\ Onward(h)
    /\ UNCHANGED <<content, state, model, vector, calls, faults, owed, crossed>>

\* fail_vector_job: retried after a pause, or not at all ...
Fail(h) ==
    /\ host[h].pc \in {"retry", "fatal"}
    /\ IF Holds(h)
       THEN /\ job' = [job EXCEPT ![host[h].job] =
                          [@ EXCEPT !.status = "failed", !.expired = FALSE,
                                    !.due = IF host[h].pc = "retry" THEN "later" ELSE "never"]]
            /\ host' = [host EXCEPT ![h].pc = "degrade"]
       ELSE Onward(h) /\ UNCHANGED job
    /\ UNCHANGED <<content, state, model, vector, calls, faults, owed, crossed>>

\* ... and only then, in a statement of its own, the mark.
Degrade(h) ==
    /\ host[h].pc = "degrade"
    /\ state' = Degraded
    /\ Onward(h)
    /\ UNCHANGED <<content, job, model, vector, calls, faults, owed, crossed>>

Quiet == \A j \in Jobs : ~Outstanding(j)

\* Mutant: a generation is published at once by a tick that had work to do.
Publish_IfWorked(h) ==
    /\ host[h].pc = "publish"
    /\ state' = IF /\ host[h].config = model /\ Quiet
                   /\ host[h].budget < TickJobs
                   /\ \E p \in Projections : state[p].dirty
                THEN [p \in Projections |-> [lifecycle |-> "ready", dirty |-> FALSE]]
                ELSE state
    /\ host' = [host EXCEPT ![h] = Idle]
    /\ UNCHANGED <<content, job, model, vector, calls, faults, owed, crossed>>

\* publish_vector_generation: under the tick's own fingerprint, in one
\* transaction with the look at the queue.
Publish(h) ==
    /\ host[h].pc = "publish"
    /\ state' = IF /\ host[h].config = model /\ Quiet
                   /\ \E p \in Projections : state[p].dirty
                THEN [p \in Projections |-> [lifecycle |-> "ready", dirty |-> FALSE]]
                ELSE state
    /\ host' = [host EXCEPT ![h] = Idle]
    /\ UNCHANGED <<content, job, model, vector, calls, faults, owed, crossed>>

(***************************************************************************)
(* What happens to a host and to the queue.                                *)
(***************************************************************************)

\* A statement on the database fails: the call ends with the error, and a job
\* that was claimed stays running.
StatementFails(h) ==
    /\ host[h].pc \in {"claim", "complete", "retry", "fatal", "degrade", "publish",
                       "enqueue", "mark"}
    /\ Fault
    /\ host' = [host EXCEPT ![h] = Idle]
    /\ UNCHANGED <<content, job, state, model, vector, calls, owed, crossed>>

Crash(h) ==
    /\ host[h].pc # "off"
    /\ Fault
    /\ host' = [host EXCEPT ![h] = Off]
    /\ UNCHANGED <<content, job, state, model, vector, calls, owed, crossed>>

Restart(h) ==
    /\ host[h].pc = "off"
    /\ host' = [host EXCEPT ![h] = Idle]
    /\ UNCHANGED <<content, job, state, model, vector, calls, faults, owed, crossed>>

\* VECTOR_JOB_LEASE_MS pass since the claim, whatever its worker does.
ExpireLease(j) ==
    /\ job[j].status = "running" /\ ~job[j].expired
    /\ job' = [job EXCEPT ![j].expired = TRUE]
    /\ UNCHANGED <<content, state, model, vector, host, calls, faults, owed, crossed>>

\* retry_backoff_ms pass since the failure.
EndPause(j) ==
    /\ job[j].status = "failed" /\ job[j].due = "later"
    /\ job' = [job EXCEPT ![j].due = "now"]
    /\ UNCHANGED <<content, state, model, vector, host, calls, faults, owed, crossed>>

\* cleanup_rebuildable of a maintenance run deletes a job that is long done.
Cleanup(h, j) ==
    /\ host[h].pc = "idle"
    /\ job[j].status = "done"
    /\ job' = [job EXCEPT ![j] = [NoJob EXCEPT !.fence = job[j].fence]]
    /\ UNCHANGED <<content, state, model, vector, host, calls, faults, owed, crossed>>

HostStep(h) ==
    \/ EnqueueOne(h) \/ MarkEnqueued(h)
    \/ StartTick(h) \/ Claim(h) \/ ReadFact(h) \/ Embed(h) \/ Store(h)
    \/ Complete(h) \/ Fail(h) \/ Degrade(h) \/ Publish(h)

Next ==
    \/ \E h \in Hosts :
        \/ HostStep(h)
        \/ StatementFails(h) \/ Crash(h) \/ Restart(h)
        \/ \E e \in Entities : Edit(h, e)
        \/ \E op \in Operations : Enqueue(h, op)
        \/ \E m \in Models : Configure(h, m)
        \/ \E j \in Jobs : Cleanup(h, j)
    \/ \E j \in Jobs : ExpireLease(j) \/ EndPause(j)

\* A host that is up goes on with its tick and the dispatcher starts the next
\* one; time passes.  Nothing says that a host comes back.
Fairness ==
    /\ \A h \in Hosts : WF_vars(HostStep(h))
    /\ \A j \in Jobs : WF_vars(ExpireLease(j)) /\ WF_vars(EndPause(j))

Spec == Init /\ [][Next]_vars /\ Fairness

(***************************************************************************)
(* Properties.                                                             *)
(***************************************************************************)
TypeOK ==
    /\ content \in [Entities -> 0..MaxEdits]
    /\ job \in [Jobs -> JobRow]
    /\ state \in [Projections -> [lifecycle : {"bootstrap_required", "degraded", "ready"},
                                  dirty : BOOLEAN]]
    /\ model \in Models \cup {NULL}
    /\ vector \in [Entities -> [Models -> 0..MaxEdits]]
    /\ host \in [Hosts -> [pc : Pcs, config : Models \cup {NULL}, job : Jobs \cup {NULL},
                           fence : Nat, seen : 0..MaxEdits, budget : Nat,
                           todo : SUBSET Entities, any : BOOLEAN, put : SUBSET Entities,
                           op : Operations]]
    /\ calls \in 0..MaxCalls
    /\ faults \in 0..MaxFaults
    /\ owed \subseteq Entities
    /\ crossed \subseteq Entities

\* A row of projection_state says "ready" only when every fact of it that was
\* queued since the provider was configured has an embedding of its present
\* version: a published generation serves no vector of an older text.  The
\* gate is what makes it so: a write of another host that meets a job at work
\* is not waited for, and is what crossed excuses.
ReadyIsCurrent ==
    \A e \in owed \ crossed : state[Row(e)].lifecycle = "ready" => Embedded(e)

\* No fact is forgotten, whatever fails and whoever crashes: one that was
\* queued and has no embedding of its present version has a job that is not
\* done, so that no later publication can pass over it.
NothingIsForgotten ==
    \A e \in owed \ crossed : Embedded(e) \/ \E op \in Operations : Outstanding(<<e, op>>)

\* Two workers never hold the same claim, and none holds a claim newer than
\* its row: complete_vector_job and fail_vector_job match one worker at most.
ClaimsAreUnique ==
    \A g \in Hosts : host[g].pc \in Working =>
        /\ host[g].fence <= job[host[g].job].fence
        /\ \A h \in Hosts \ {g} :
            host[h].pc \in Working /\ host[h].job = host[g].job => host[h].fence # host[g].fence

SomeHostStays == \E h \in Hosts : <>[](host[h].pc # "off")

\* While a host stays up, no job stays running for ever: a worker answers, or
\* its lease runs out and the next tick claims the job again or gives it up.
RunningIsRecovered ==
    SomeHostStays => \A j \in Jobs : []<>(job[j].status # "running")

\* A queue that stays quiet under a provider is published in the end, by a tick
\* that finds nothing to do.
QuietIsPublished ==
    SomeHostStays =>
        []<>(model = NULL \/ ~Quiet \/ \A p \in Projections : state[p].lifecycle = "ready")

\* The claims and answers are those of a fenced queue: a late worker, one whose
\* job was reclaimed, rebuilt or deleted, answers into the void.
Phase(row) ==
    CASE row.status = "none" -> "none" [] row.status = "done" -> "done"
      [] row.status = "running" -> "leased" [] OTHER -> "queued"

LastClaimant(j) ==
    {h \in Hosts : /\ host[h].pc \in Working /\ host[h].job = j
                   /\ job[j].status = "running" /\ job[j].fence = host[h].fence}

Holder(j) == IF LastClaimant(j) = {} THEN NULL ELSE CHOOSE h \in LastClaimant(j) : TRUE

Fenced == INSTANCE FencedQueue WITH
    phase <- [j \in Jobs |-> Phase(job[j])],
    holder <- [j \in Jobs |-> Holder(j)]

AnswersAreFenced == Fenced!Spec
=============================================================================
