---------------------------- MODULE TaskLifecycle ----------------------------
(***************************************************************************)
(* The task lifecycle of crates/kanban-service: tasks, their claims and    *)
(* runs, execution plans and dependencies on one board, and every          *)
(* operation that changes a task's status.                                 *)
(*                                                                         *)
(* Each operation takes the service's mutation_gate, reads the task, and   *)
(* runs one Immediate transaction that re-reads and re-checks what it      *)
(* depends on; nothing else can write between the two.  An operation is    *)
(* therefore one atomic action here, and a rejected call is a step that    *)
(* does not happen.  lock_version is left out: under the gate the expected *)
(* version is the current one, except where a caller passes its own.       *)
(***************************************************************************)
EXTENDS ReadinessRules, FiniteSets

CONSTANTS
    Tasks,          \* task ids the board may come to hold
    Runs,           \* run ids; a claim token is minted together with its run
    Steps,          \* step ids of an execution plan
    Actors,         \* people, workers and the dispatcher
    Schedules,      \* instants a caller may pass as scheduled_at
    RetryLimits,    \* limits a caller may pass as max_retries
    Ttls,           \* claim lifetimes a caller may pass
    MaxTime         \* bound on the clock, for model checking

ASSUME IdAssumption == NULL \notin Runs \cup Actors \cup Tasks
ASSUME InputAssumption ==
    /\ Schedules \subseteq Nat
    /\ RetryLimits \subseteq Nat
    /\ Ttls \subseteq Nat \ {0}
ASSUME TimeAssumption == MaxTime \in Nat

VARIABLES
    now,            \* the service's clock
    boardArchived,  \* boards.archived_at is set
    task,           \* the tasks table, "absent" where there is no row yet
    plan,           \* task_execution_plans and task_steps, by task
    deps,           \* task_dependencies, pairs <<parent, child>>
    runs            \* the task_runs table, "unused" where there is no row yet

vars == <<now, boardArchived, task, plan, deps, runs>>

(***************************************************************************)
(* Shapes of the rows.                                                     *)
(***************************************************************************)
ClaimType == [token: Runs, owner: Actors, expires: Nat]
NoClaim == [token |-> NULL, owner |-> NULL, expires |-> NULL]

RunStatuses == {"running", "succeeded", "failed", "canceled", "expired"}
PlanStates == {"unplanned", "planned", "not_required"}

TaskType == [status: TaskStatuses \cup {"absent"},
             spec: BOOLEAN,                    \* is the description filled in?
             scheduledAt: Nat \cup {NULL},
             claim: ClaimType \cup {NoClaim},
             run: Runs \cup {NULL},            \* current_run_id
             retries: Nat,
             maxRetries: Nat \cup {NULL}]
PlanType == [row: PlanStates, steps: SUBSET Steps,
             required: SUBSET Steps, resolved: SUBSET Steps]
RunType == [status: RunStatuses \cup {"unused"},
            task: Tasks \cup {NULL},
            claim: ClaimType \cup {NoClaim}]

NoTask == [status |-> "absent", spec |-> FALSE, scheduledAt |-> NULL,
           claim |-> NoClaim, run |-> NULL, retries |-> 0, maxRetries |-> NULL]
NoPlan == [row |-> "unplanned", steps |-> {}, required |-> {}, resolved |-> {}]
NoRun == [status |-> "unused", task |-> NULL, claim |-> NoClaim]

TypeOK ==
    /\ now \in Nat
    /\ boardArchived \in BOOLEAN
    /\ task \in [Tasks -> TaskType]
    /\ plan \in [Tasks -> PlanType]
    /\ deps \subseteq Tasks \X Tasks
    /\ runs \in [Runs -> RunType]

Init ==
    /\ now = 0
    /\ boardArchived = FALSE
    /\ task = [t \in Tasks |-> NoTask]
    /\ plan = [t \in Tasks |-> NoPlan]
    /\ deps = {}
    /\ runs = [r \in Runs |-> NoRun]

(***************************************************************************)
(* Facts the transactions read.                                            *)
(***************************************************************************)
Exists(t) == task[t].status # "absent"

\* Neither the task nor its board is archived: what every mutation requires.
Live(t) == Exists(t) /\ task[t].status # "archived" /\ ~boardArchived

Parents(t) == {p \in Tasks : <<p, t>> \in deps}
Children(t) == {c \in Tasks : <<t, c>> \in deps}
ParentsDone(t) == \A p \in Parents(t) : task[p].status \in Satisfied

PlanReady(t) == plan[t].steps # {} \/ plan[t].row = "not_required"
RequiredStepsDone(t) == plan[t].required \subseteq plan[t].resolved

Canonical(t) ==
    RecomputeReadyStatus(task[t].spec, task[t].scheduledAt, ParentsDone(t), now)
GatedCanonical(t) == PlanGate(Canonical(t), PlanReady(t))

Expired(t) == task[t].claim.expires <= now

ActiveRuns(t) == {r \in Runs : runs[r].status = "running" /\ runs[r].task = t}

\* Mutant: whoever goes by the name of the owner may act on the claim.
HoldsClaim_OwnerOnly(t, a, k) == task[t].claim.owner = a

\* The caller presents the owner and the token the task is claimed with.
HoldsClaim(t, a, k) == task[t].claim.owner = a /\ task[t].claim.token = k

\* The only active run of t is its current run, held under the same claim.
ActiveRunMatches(t) ==
    /\ ActiveRuns(t) = {task[t].run}
    /\ runs[task[t].run].claim.token = task[t].claim.token
    /\ runs[task[t].run].claim.owner = task[t].claim.owner

\* The check of the reclaims: they compare the expiry too, and do not count.
CurrentRunMatches(t) ==
    /\ task[t].run \in ActiveRuns(t)
    /\ runs[task[t].run].claim = task[t].claim

EndRun(t, status) == runs' = [runs EXCEPT ![task[t].run].status = status]

\* The claim columns are cleared; current_run_id survives as `run`.
Unclaimed(t, status, run) ==
    [task EXCEPT ![t].status = status, ![t].claim = NoClaim, ![t].run = run]

(***************************************************************************)
(* Creating and describing a task.                                         *)
(***************************************************************************)

\* The clock is read before the gate is taken, hence `readAt`.  A parent
\* may be archived; it only has to be a task of the board.
CreateTask(t, explicit, spec, at, max, parents, readAt) ==
    /\ ~boardArchived
    /\ ~Exists(t)
    /\ \A p \in parents : Exists(p)
    /\ explicit # NULL => MayStartAs(explicit, spec, at, readAt)
    /\ task' = [task EXCEPT ![t] =
                  [NoTask EXCEPT !.status = InitialStatus(explicit, spec, at, readAt),
                                 !.spec = spec,
                                 !.scheduledAt = at,
                                 !.maxRetries = max]]
    /\ plan' = [plan EXCEPT ![t] = NoPlan]
    /\ deps' = deps \cup (parents \X {t})
    /\ UNCHANGED <<now, boardArchived, runs>>

\* Writes the fields the caller passes; only a recomputable status moves.
UpdateTask(t, spec, at, max) ==
    /\ Live(t)
    /\ max \in {task[t].maxRetries, NULL} \cup (Nat \ {0})
    /\ LET recomputed == RecomputeReadyStatus(spec, at, ParentsDone(t), now)
       IN  task' = [task EXCEPT
             ![t].spec = spec, ![t].scheduledAt = at, ![t].maxRetries = max,
             ![t].status = IF @ \in Recomputable
                           THEN PlanGate(recomputed, PlanReady(t)) ELSE @]
    /\ UNCHANGED <<now, boardArchived, plan, deps, runs>>

\* A missing argument keeps the stored value, so neither field can be cleared.
SpecifyTask(t, spec, at) ==
    /\ Live(t)
    /\ task[t].status = "triage"
    /\ task[t].spec => spec
    /\ at = NULL => task[t].scheduledAt = NULL
    /\ LET recomputed == RecomputeReadyStatus(spec, at, ParentsDone(t), now)
       IN  task' = [task EXCEPT ![t].spec = spec, ![t].scheduledAt = at,
                                ![t].status = PlanGate(recomputed, PlanReady(t))]
    /\ UNCHANGED <<now, boardArchived, plan, deps, runs>>

PromoteTask(t) ==
    /\ Live(t)
    /\ task[t].status \in {"todo", "scheduled"}
    /\ task[t].status = "scheduled" => task[t].scheduledAt # NULL
    /\ GatedCanonical(t) = "ready"
    /\ task' = [task EXCEPT ![t].status = "ready"]
    /\ UNCHANGED <<now, boardArchived, plan, deps, runs>>

(***************************************************************************)
(* Claims: a lease with an owner, a token and an expiry, and the run that  *)
(* is carried out under it.                                                *)
(***************************************************************************)

\* A task can be handed to a worker in this state.
Claimable(t) ==
    /\ Live(t)
    /\ task[t].status = "ready"
    /\ task[t].claim = NoClaim
    /\ task[t].run = NULL
    /\ GatedCanonical(t) = "ready"

\* Mutant: a token that was minted before is handed out again.
ClaimTask_ReusesRun(t, a, r, ttl) ==
    /\ Claimable(t)
    /\ LET claim == [token |-> r, owner |-> a, expires |-> now + ttl]
       IN  /\ task' = [task EXCEPT ![t].status = "running",
                                   ![t].claim = claim, ![t].run = r]
           /\ runs' = [runs EXCEPT ![r] = [status |-> "running", task |-> t,
                                           claim |-> claim]]
    /\ UNCHANGED <<now, boardArchived, plan, deps>>

ClaimTask(t, a, r, ttl) ==
    /\ Claimable(t)
    /\ runs[r].status = "unused"
    /\ LET claim == [token |-> r, owner |-> a, expires |-> now + ttl]
       IN  /\ task' = [task EXCEPT ![t].status = "running",
                                   ![t].claim = claim, ![t].run = r]
           /\ runs' = [runs EXCEPT ![r] = [status |-> "running", task |-> t,
                                           claim |-> claim]]
    /\ UNCHANGED <<now, boardArchived, plan, deps>>

\* Mutant: only the task's row is extended.
Heartbeat_TaskRowOnly(t, a, k, ttl) ==
    /\ Live(t)
    /\ task[t].status = "running"
    /\ HoldsClaim(t, a, k)
    /\ ActiveRunMatches(t)
    /\ task' = [task EXCEPT ![t].claim.expires = now + ttl]
    /\ UNCHANGED <<now, boardArchived, plan, deps, runs>>

\* The expiry is moved forward on the task and on its run.  Nothing asks
\* whether it has already passed.
Heartbeat(t, a, k, ttl) ==
    /\ Live(t)
    /\ task[t].status = "running"
    /\ HoldsClaim(t, a, k)
    /\ ActiveRunMatches(t)
    /\ task' = [task EXCEPT ![t].claim.expires = now + ttl]
    /\ runs' = [runs EXCEPT ![task[t].run].claim.expires = now + ttl]
    /\ UNCHANGED <<now, boardArchived, plan, deps>>

\* The owner gives the task back unfinished; it must still be claimable.
ReleaseTask(t, a, k) ==
    /\ Live(t)
    /\ task[t].status = "running"
    /\ HoldsClaim(t, a, k)
    /\ GatedCanonical(t) = "ready"
    /\ ActiveRunMatches(t)
    /\ task' = Unclaimed(t, "ready", NULL)
    /\ EndRun(t, "canceled")
    /\ UNCHANGED <<now, boardArchived, plan, deps>>

SubmitReview(t, a, k, force) ==
    /\ Live(t)
    /\ task[t].status = "running"
    /\ force \/ HoldsClaim(t, a, k)
    /\ ActiveRunMatches(t)
    /\ task' = Unclaimed(t, "review", task[t].run)
    /\ EndRun(t, "succeeded")
    /\ UNCHANGED <<now, boardArchived, plan, deps>>

\* Required steps bind even a forced completion.
CompleteRunning(t, a, k, force) ==
    /\ Live(t)
    /\ task[t].status = "running"
    /\ force \/ HoldsClaim(t, a, k)
    /\ RequiredStepsDone(t)
    /\ ActiveRunMatches(t)
    /\ task' = Unclaimed(t, "done", task[t].run)
    /\ EndRun(t, "succeeded")
    /\ UNCHANGED <<now, boardArchived, plan, deps>>

\* Anyone may approve a reviewed task.
CompleteReviewed(t) ==
    /\ Live(t)
    /\ task[t].status = "review"
    /\ RequiredStepsDone(t)
    /\ ActiveRuns(t) = {}
    /\ task[t].run # NULL => runs[task[t].run].status = "succeeded"
    /\ task' = Unclaimed(t, "done", task[t].run)
    /\ UNCHANGED <<now, boardArchived, plan, deps, runs>>

BlockRunning(t, a, k, force) ==
    /\ Live(t)
    /\ task[t].status = "running"
    /\ force \/ HoldsClaim(t, a, k)
    /\ ActiveRunMatches(t)
    /\ task' = Unclaimed(t, "blocked", task[t].run)
    /\ EndRun(t, "failed")
    /\ UNCHANGED <<now, boardArchived, plan, deps>>

\* Mutant: blocking a reviewed task fails the run that had succeeded.
BlockIdle_FailsLastRun(t) ==
    /\ Live(t)
    /\ task[t].status \in Recomputable \cup {"review"}
    /\ ActiveRuns(t) = {}
    /\ task' = Unclaimed(t, "blocked", task[t].run)
    /\ runs' = [r \in Runs |-> IF r = task[t].run
                              THEN [runs[r] EXCEPT !.status = "failed"] ELSE runs[r]]
    /\ UNCHANGED <<now, boardArchived, plan, deps>>

BlockIdle(t) ==
    /\ Live(t)
    /\ task[t].status \in Recomputable \cup {"review"}
    /\ ActiveRuns(t) = {}
    /\ task' = Unclaimed(t, "blocked", task[t].run)
    /\ UNCHANGED <<now, boardArchived, plan, deps, runs>>

(***************************************************************************)
(* Taking a lease back.  `target` is what the caller asks for: ready,      *)
(* blocked or, when NULL, whatever the facts call for.                     *)
(***************************************************************************)
ReclaimTarget(t, target) ==
    IF RetriesExhausted(task[t].retries, task[t].maxRetries) THEN "blocked"
    ELSE PlanGate(IF target = NULL THEN Canonical(t) ELSE target, PlanReady(t))

\* Mutant: the reclaimed task still points at the run it lost.
ReclaimTask_KeepsRun(t, force, target) ==
    /\ Live(t)
    /\ task[t].status = "running"
    /\ force \/ Expired(t)
    /\ CurrentRunMatches(t)
    /\ task' = [Unclaimed(t, ReclaimTarget(t, target), task[t].run)
                  EXCEPT ![t].retries = @ + 1]
    /\ EndRun(t, IF Expired(t) THEN "expired" ELSE "canceled")
    /\ UNCHANGED <<now, boardArchived, plan, deps>>

ReclaimTask(t, force, target) ==
    /\ Live(t)
    /\ task[t].status = "running"
    /\ force \/ Expired(t)
    /\ CurrentRunMatches(t)
    /\ task' = [Unclaimed(t, ReclaimTarget(t, target), NULL)
                  EXCEPT ![t].retries = @ + 1]
    /\ EndRun(t, IF Expired(t) THEN "expired" ELSE "canceled")
    /\ UNCHANGED <<now, boardArchived, plan, deps>>

\* Mutant: the sweep forgets to count the retry.
ReclaimExpired_Uncounted(t) ==
    /\ Live(t)
    /\ task[t].status = "running"
    /\ Expired(t)
    /\ ActiveRunMatches(t)
    /\ task' = Unclaimed(t, ReclaimTarget(t, NULL), NULL)
    /\ EndRun(t, "expired")
    /\ UNCHANGED <<now, boardArchived, plan, deps>>

\* One task of the dispatcher's sweep; each has a transaction of its own.
ReclaimExpired(t) ==
    /\ Live(t)
    /\ task[t].status = "running"
    /\ Expired(t)
    /\ ActiveRunMatches(t)
    /\ CurrentRunMatches(t)
    /\ task' = [Unclaimed(t, ReclaimTarget(t, NULL), NULL)
                  EXCEPT ![t].retries = @ + 1]
    /\ EndRun(t, "expired")
    /\ UNCHANGED <<now, boardArchived, plan, deps>>

(***************************************************************************)
(* Back from blocked and done, and out to archived.                        *)
(***************************************************************************)
UnblockTask(t) ==
    /\ Live(t)
    /\ task[t].status = "blocked"
    /\ task' = [task EXCEPT ![t].status = GatedCanonical(t), ![t].run = NULL]
    /\ UNCHANGED <<now, boardArchived, plan, deps, runs>>

\* Mutant: no child is demoted.
ReopenTask_ChildrenKept(t) ==
    /\ Live(t)
    /\ task[t].status = "done"
    /\ task' = [task EXCEPT ![t].status = GatedCanonical(t), ![t].run = NULL]
    /\ UNCHANGED <<now, boardArchived, plan, deps, runs>>

\* Reopening also demotes the direct children that were waiting or ready:
\* their parent is unfinished again.  A running child is left alone.
ReopenTask(t) ==
    /\ Live(t)
    /\ task[t].status = "done"
    /\ task' = [c \in Tasks |->
         IF c = t
         THEN [task[t] EXCEPT !.status = GatedCanonical(t), !.run = NULL]
         ELSE IF c \in Children(t) /\ task[c].status \in Recomputable
         THEN [task[c] EXCEPT !.status =
                 RecomputeReadyStatus(task[c].spec, task[c].scheduledAt, FALSE, now)]
         ELSE task[c]]
    /\ UNCHANGED <<now, boardArchived, plan, deps, runs>>

ArchiveRunning(t) ==
    /\ Live(t)
    /\ task[t].status = "running"
    /\ ActiveRunMatches(t)
    /\ CurrentRunMatches(t)
    /\ task' = Unclaimed(t, "archived", NULL)
    /\ EndRun(t, "canceled")
    /\ UNCHANGED <<now, boardArchived, plan, deps>>

ArchiveIdle(t, force) ==
    /\ Live(t)
    /\ task[t].status # "running"
    /\ force \/ RequiredStepsDone(t)
    /\ ActiveRuns(t) = {}
    /\ task' = Unclaimed(t, "archived", NULL)
    /\ UNCHANGED <<now, boardArchived, plan, deps, runs>>

\* Mutant: nobody looks whether something runs on the board.
ArchiveBoard_Anyway ==
    /\ ~boardArchived
    /\ boardArchived' = TRUE
    /\ UNCHANGED <<now, task, plan, deps, runs>>

ArchiveBoard ==
    /\ ~boardArchived
    /\ \A t \in Tasks : task[t].status # "running"
    /\ \A r \in Runs : runs[r].status # "running"
    /\ boardArchived' = TRUE
    /\ UNCHANGED <<now, task, plan, deps, runs>>

(***************************************************************************)
(* Dependencies.                                                           *)
(***************************************************************************)

\* What the frontier walk of dependencies/support.rs finds out: `to` can be
\* reached from `from` iff every set closed under deps that holds `from`
\* holds `to` as well.
PathExists(from, to) ==
    \A S \in SUBSET Tasks :
        (from \in S /\ \A e \in deps : e[1] \in S => e[2] \in S) => to \in S

\* Mutants: the way back is not looked for; a running child may get an
\* unfinished parent.
AddDependency_NoCycleCheck(p, c) ==
    /\ Live(c)
    /\ Exists(p)
    /\ p # c
    /\ <<p, c>> \notin deps
    /\ task[c].status = "running" => task[p].status \in Satisfied
    /\ deps' = deps \cup {<<p, c>>}
    /\ UNCHANGED <<now, boardArchived, task, plan, runs>>

AddDependency_UnderRunning(p, c) ==
    /\ Live(c)
    /\ Exists(p)
    /\ p # c
    /\ <<p, c>> \notin deps
    /\ ~PathExists(c, p)
    /\ deps' = deps \cup {<<p, c>>}
    /\ UNCHANGED <<now, boardArchived, task, plan, runs>>

\* A waiting child is recomputed with the new parent; one the facts would
\* make ready keeps its status, since only promote readies a task.
InsertDependency(p, c) ==
    /\ deps' = deps \cup {<<p, c>>}
    /\ LET computed == RecomputeReadyStatus(task[c].spec, task[c].scheduledAt,
                         ParentsDone(c) /\ task[p].status \in Satisfied, now)
       IN  task' = [task EXCEPT ![c].status =
                      IF @ \in Recomputable /\ computed # "ready"
                      THEN computed ELSE @]
    /\ UNCHANGED <<now, boardArchived, plan, runs>>

AddDependency(p, c) ==
    /\ Live(c)
    /\ Exists(p)
    /\ p # c
    /\ <<p, c>> \notin deps
    /\ ~PathExists(c, p)
    /\ task[c].status = "running" => task[p].status \in Satisfied
    /\ InsertDependency(p, c)

RemoveDependency(p, c) ==
    /\ Live(c)
    /\ <<p, c>> \in deps
    /\ deps' = deps \ {<<p, c>>}
    /\ UNCHANGED <<now, boardArchived, task, plan, runs>>

(***************************************************************************)
(* Execution plans.                                                        *)
(***************************************************************************)
MarkPlanNotRequired(t) ==
    /\ Live(t)
    /\ plan[t].steps = {}
    /\ plan' = [plan EXCEPT ![t].row = "not_required"]
    /\ UNCHANGED <<now, boardArchived, task, deps, runs>>

CreateStep(t, s, required) ==
    /\ Live(t)
    /\ task[t].status # "done"
    /\ s \notin plan[t].steps
    /\ plan' = [plan EXCEPT ![t].row = "planned",
                            ![t].steps = @ \cup {s},
                            ![t].required = IF required THEN @ \cup {s} ELSE @]
    /\ task' = [task EXCEPT ![t].status =
                  IF @ \in Recomputable THEN Canonical(t) ELSE @]
    /\ UNCHANGED <<now, boardArchived, deps, runs>>

\* Mutant: the plan's row outlives its steps.
RemoveStep_RowUntouched(t, s) ==
    /\ Live(t)
    /\ s \in plan[t].steps
    /\ LET last == plan[t].steps = {s}
       IN  /\ plan' = [plan EXCEPT ![t].steps = @ \ {s},
                                   ![t].required = @ \ {s},
                                   ![t].resolved = @ \ {s}]
           /\ task' = [task EXCEPT ![t].status =
                         IF last /\ @ \in Recomputable THEN Canonical(t) ELSE @]
    /\ UNCHANGED <<now, boardArchived, deps, runs>>

\* Removing the last step recomputes the task without asking for a plan.
RemoveStep(t, s) ==
    /\ Live(t)
    /\ s \in plan[t].steps
    /\ LET last == plan[t].steps = {s}
       IN  /\ plan' = [plan EXCEPT ![t].row = IF last THEN "unplanned" ELSE @,
                                   ![t].steps = @ \ {s},
                                   ![t].required = @ \ {s},
                                   ![t].resolved = @ \ {s}]
           /\ task' = [task EXCEPT ![t].status =
                         IF last /\ @ \in Recomputable THEN Canonical(t) ELSE @]
    /\ UNCHANGED <<now, boardArchived, deps, runs>>

\* complete_step and skip_step count alike; a done task accepts them too.
ResolveStep(t, s) ==
    /\ Live(t)
    /\ s \in plan[t].steps
    /\ plan' = [plan EXCEPT ![t].resolved = @ \cup {s}]
    /\ UNCHANGED <<now, boardArchived, task, deps, runs>>

ReopenStep(t, s) ==
    /\ Live(t)
    /\ s \in plan[t].steps
    /\ plan' = [plan EXCEPT ![t].resolved = @ \ {s}]
    /\ UNCHANGED <<now, boardArchived, task, deps, runs>>

UpdateStep(t, s, required) ==
    /\ Live(t)
    /\ s \in plan[t].steps
    /\ plan' = [plan EXCEPT ![t].required =
                  IF required THEN @ \cup {s} ELSE @ \ {s}]
    /\ UNCHANGED <<now, boardArchived, task, deps, runs>>

Tick ==
    /\ now < MaxTime
    /\ now' = now + 1
    /\ UNCHANGED <<boardArchived, task, plan, deps, runs>>

(***************************************************************************)
(* The specification.                                                      *)
(***************************************************************************)
ScheduleArgs == Schedules \cup {NULL}
RetryArgs == RetryLimits \cup {NULL}

Describe(t) ==
    \/ \E explicit \in Recomputable \cup {NULL}, spec \in BOOLEAN,
          at \in ScheduleArgs, max \in RetryArgs, parents \in SUBSET Tasks,
          readAt \in 0..now :
           CreateTask(t, explicit, spec, at, max, parents, readAt)
    \/ \E spec \in BOOLEAN, at \in ScheduleArgs \cup {task[t].scheduledAt},
          max \in RetryArgs \cup {task[t].maxRetries} :
           UpdateTask(t, spec, at, max)
    \/ \E spec \in BOOLEAN, at \in ScheduleArgs \cup {task[t].scheduledAt} :
           SpecifyTask(t, spec, at)
    \/ PromoteTask(t)

WorkOn(t) ==
    \/ \E a \in Actors, r \in Runs, ttl \in Ttls : ClaimTask(t, a, r, ttl)
    \/ \E a \in Actors, k \in Runs, ttl \in Ttls : Heartbeat(t, a, k, ttl)
    \/ \E a \in Actors, k \in Runs : ReleaseTask(t, a, k)
    \/ \E a \in Actors, k \in Runs, force \in BOOLEAN :
           \/ SubmitReview(t, a, k, force)
           \/ CompleteRunning(t, a, k, force)
           \/ BlockRunning(t, a, k, force)
    \/ CompleteReviewed(t)
    \/ BlockIdle(t)

Intervene(t) ==
    \/ \E force \in BOOLEAN, target \in {NULL, "ready", "blocked"} :
           ReclaimTask(t, force, target)
    \/ ReclaimExpired(t)
    \/ UnblockTask(t)
    \/ ReopenTask(t)
    \/ ArchiveRunning(t)
    \/ \E force \in BOOLEAN : ArchiveIdle(t, force)

Plan(t) ==
    \/ MarkPlanNotRequired(t)
    \/ \E s \in Steps, required \in BOOLEAN :
           CreateStep(t, s, required) \/ UpdateStep(t, s, required)
    \/ \E s \in Steps : RemoveStep(t, s) \/ ResolveStep(t, s) \/ ReopenStep(t, s)

Link == \E p, c \in Tasks : AddDependency(p, c) \/ RemoveDependency(p, c)

Next ==
    \/ \E t \in Tasks : Describe(t) \/ WorkOn(t) \/ Intervene(t) \/ Plan(t)
    \/ Link
    \/ ArchiveBoard
    \/ Tick

Spec == Init /\ [][Next]_vars

(***************************************************************************)
(* Safety.                                                                 *)
(***************************************************************************)

\* A task is running exactly when one run is active for it; that run is its
\* current run, and both rows carry the same owner, token and expiry.  In
\* every other status the claim columns are empty.  The two rows are written
\* by separate statements of claim, heartbeat and each way a run can end.
ClaimMatchesRun ==
    \A t \in Tasks :
        IF task[t].status = "running"
        THEN /\ ActiveRuns(t) = {task[t].run}
             /\ task[t].claim # NoClaim
             /\ runs[task[t].run].claim = task[t].claim
        ELSE ActiveRuns(t) = {} /\ task[t].claim = NoClaim

\* A task that waits to be worked on keeps no trace of an earlier run: claim
\* and the promotion rules trust an empty current_run_id.  unblock, reopen,
\* release and the reclaims must all clear it.
WaitingHasNoRun ==
    \A t \in Tasks : task[t].status \in Recomputable => task[t].run = NULL

\* Only these five pairs of a task's status and the status of the run it
\* points at ever occur, and the run is always one of that task's own: no
\* order of finishing, blocking, approving and reclaiming leaves a task with
\* a run that ended otherwise than the task says, or with one when it waits.
RunMatchesStatus ==
    \A t \in Tasks : task[t].run # NULL =>
        /\ runs[task[t].run].task = t
        /\ <<task[t].status, runs[task[t].run].status>> \in
               {<<"running", "running">>, <<"review", "succeeded">>,
                <<"done", "succeeded">>, <<"blocked", "succeeded">>,
                <<"blocked", "failed">>}

\* A board is only archived when nothing runs on it, and nothing starts
\* afterwards: no lease outlives its board, where no operation could end it.
ArchivedBoardIsIdle ==
    boardArchived => \A r \in Runs : runs[r].status # "running"

\* No run is ever stuck: whoever is left with a run that is still open - an
\* administrator with force, the sweep once the lease has expired, somebody who
\* archives the task - finds a task whose row, board and run all pass the checks
\* of the call that ends it.  Heartbeats, archived boards and half-recorded
\* outcomes could each leave a lease that every operation refuses.
NoRunIsStuck ==
    \A r \in Runs : runs[r].status = "running" =>
        \E t \in Tasks :
            /\ Live(t)
            /\ task[t].status = "running" /\ task[t].run = r
            /\ ActiveRunMatches(t) /\ CurrentRunMatches(t)

\* No task waits for itself, however dependencies are added and removed and
\* whatever parents a new task names.
AcyclicDependencies == \A e \in deps : ~PathExists(e[2], e[1])

\* The plan row and the step rows tell the same story: maintenance counts
\* unplanned tasks by the row, the claim rule by the steps.
PlanRowMatchesSteps ==
    \A t \in Tasks : plan[t].row = "planned" <=> plan[t].steps # {}

\* Every expired run was counted as a retry of its task, so no sequence of
\* crashes can retry a task past its limit uncounted.
ExpiredRunsAreRetries ==
    \A t \in Tasks :
        Cardinality({r \in Runs : runs[r].task = t /\ runs[r].status = "expired"})
            <= task[t].retries

(***************************************************************************)
(* Action properties.                                                      *)
(***************************************************************************)

\* A run that is over stays as it is: a late heartbeat, a second completion
\* or a reclaim never touches the row of a finished run.
FinishedRunsStayFinished ==
    [][\A r \in Runs :
          runs[r].status \notin {"unused", "running"} => runs'[r] = runs[r]]_vars

\* While a task stays ready, what made it ready stays true: its description,
\* its due date and its finished parents.  Whoever invalidates one of them (an
\* update, a new dependency, a reopened parent) takes the task out of ready.
ReadyIsNotStranded ==
    [][\A t \in Tasks :
          /\ task[t].status = "ready" /\ Canonical(t) = "ready"
          /\ task'[t].status = "ready"
          => Canonical(t)' = "ready"]_vars

\* A task that is being worked on only comes to wait for a parent because
\* that parent is reopened, never because a dependency is added under it.
OnlyReopenOvertakesRunning ==
    [][\A t \in Tasks :
          /\ task[t].status = "running" /\ ParentsDone(t)
          /\ task'[t].status = "running" /\ ~ParentsDone(t)'
          => \E p \in Parents(t) :
                task[p].status = "done" /\ task'[p].status \notin Satisfied]_vars

(***************************************************************************)
(* The claims implement the run lease: a running task is leased to its     *)
(* current run.  Whatever a caller, the sweep or an administrator does, a  *)
(* lease is never handed over without ending, no run is leased twice, and  *)
(* the run's row is closed together with the task's claim.                 *)
(***************************************************************************)
Lease == INSTANCE RunLease WITH
    holder <- [t \in Tasks |->
                 IF task[t].status = "running" THEN task[t].run ELSE NULL],
    outcome <- [r \in Runs |-> runs[r].status]

\* The lease specification as a property of this one: one lease per run, one
\* run per task, and every end recorded when it happens.
ImplementsLease == Lease!Spec

(***************************************************************************)
(* A statement of crates/kanban-core/docs/state_machine.md that the code   *)
(* does not keep; a run shows how.                                         *)
(***************************************************************************)

\* "ready means that it can be claimed": the status promises a worker that
\* claim will not refuse the task.  Removing the last step breaks it.
ReadyIsClaimable ==
    \A t \in Tasks : Live(t) /\ task[t].status = "ready" => Claimable(t)
=============================================================================
