----------------------- MODULE TaskLifecycle_proofs -----------------------
(***************************************************************************)
(* Theorems about TaskLifecycle, for every set of tasks, runs, steps and   *)
(* actors.                                                                 *)
(***************************************************************************)
EXTENDS TaskLifecycle, TLAPS

(***************************************************************************)
(* What the rules can return.                                              *)
(***************************************************************************)

\* Recomputing never leaves the recomputable statuses, gated or not.
LEMMA RecomputeRange ==
    ASSUME NEW spec, NEW at, NEW done, NEW instant, NEW ready
    PROVE  /\ RecomputeReadyStatus(spec, at, done, instant) \in Recomputable
           /\ PlanGate(RecomputeReadyStatus(spec, at, done, instant), ready)
                \in Recomputable
BY DEF RecomputeReadyStatus, PlanGate, Recomputable

\* A new task starts in a recomputable status.
LEMMA InitialRange ==
    ASSUME NEW explicit \in Recomputable \cup {NULL},
           NEW spec, NEW at, NEW instant
    PROVE  InitialStatus(explicit, spec, at, instant) \in Recomputable
BY RecomputeRange DEF InitialStatus, PlanGate, Recomputable

\* A reclaim ends in a recomputable status or in blocked.
LEMMA ReclaimRange ==
    ASSUME NEW t, NEW target \in {NULL, "ready", "blocked"}
    PROVE  ReclaimTarget(t, target) \in Recomputable \cup {"blocked"}
BY RecomputeRange DEF ReclaimTarget, Canonical, PlanGate, Recomputable

(***************************************************************************)
(* Type correctness.                                                       *)
(***************************************************************************)
USE NullAssumption, IdAssumption, InputAssumption, TimeAssumption

LEMMA InitTypeOK == Init => TypeOK
<1>1. NoTask \in TaskType
  BY DEF NoTask, TaskType
<1>2. NoPlan \in PlanType
  BY DEF NoPlan, PlanType, PlanStates
<1>3. NoRun \in RunType
  BY DEF NoRun, RunType
<1> SUFFICES ASSUME Init PROVE TypeOK
  OBVIOUS
<1>4. now \in Nat /\ boardArchived \in BOOLEAN /\ deps \subseteq Tasks \X Tasks
  BY DEF Init
<1>5. /\ task \in [Tasks -> TaskType]
      /\ plan \in [Tasks -> PlanType]
      /\ runs \in [Runs -> RunType]
  BY <1>1, <1>2, <1>3 DEF Init
<1> QED
  BY <1>4, <1>5 DEF TypeOK

\* Writing one column of a task row keeps the table typed.
LEMMA TaskColumns ==
    ASSUME NEW f \in [Tasks -> TaskType], NEW t \in Tasks
    PROVE  /\ \A v \in TaskStatuses \cup {"absent"} :
                  [f EXCEPT ![t].status = v] \in [Tasks -> TaskType]
           /\ \A v \in BOOLEAN : [f EXCEPT ![t].spec = v] \in [Tasks -> TaskType]
           /\ \A v \in Nat \cup {NULL} :
                  /\ [f EXCEPT ![t].scheduledAt = v] \in [Tasks -> TaskType]
                  /\ [f EXCEPT ![t].maxRetries = v] \in [Tasks -> TaskType]
           /\ \A v \in ClaimType \cup {NoClaim} :
                  [f EXCEPT ![t].claim = v] \in [Tasks -> TaskType]
           /\ \A v \in Runs \cup {NULL} :
                  [f EXCEPT ![t].run = v] \in [Tasks -> TaskType]
           /\ \A v \in Nat : [f EXCEPT ![t].retries = v] \in [Tasks -> TaskType]
<1>1. \A v \in TaskStatuses \cup {"absent"} :
         [f EXCEPT ![t].status = v] \in [Tasks -> TaskType]
  BY DEF TaskType
<1>2. \A v \in BOOLEAN : [f EXCEPT ![t].spec = v] \in [Tasks -> TaskType]
  BY DEF TaskType
<1>3. \A v \in Nat \cup {NULL} :
         [f EXCEPT ![t].scheduledAt = v] \in [Tasks -> TaskType]
  BY DEF TaskType
<1>4. \A v \in Nat \cup {NULL} :
         [f EXCEPT ![t].maxRetries = v] \in [Tasks -> TaskType]
  BY DEF TaskType
<1>5. \A v \in ClaimType \cup {NoClaim} :
         [f EXCEPT ![t].claim = v] \in [Tasks -> TaskType]
  BY DEF TaskType
<1>6. \A v \in Runs \cup {NULL} :
         [f EXCEPT ![t].run = v] \in [Tasks -> TaskType]
  BY DEF TaskType
<1>7. \A v \in Nat : [f EXCEPT ![t].retries = v] \in [Tasks -> TaskType]
  BY DEF TaskType
<1> QED
  BY <1>1, <1>2, <1>3, <1>4, <1>5, <1>6, <1>7

\* The same for the two columns reopen writes, on a row by itself.
LEMMA RowColumns ==
    ASSUME NEW row \in TaskType, NEW status \in TaskStatuses
    PROVE  /\ [row EXCEPT !.status = status] \in TaskType
           /\ [row EXCEPT !.run = NULL] \in TaskType
<1>1. [row EXCEPT !.status = status] \in TaskType
  BY DEF TaskType
<1>2. [row EXCEPT !.run = NULL] \in TaskType
  BY DEF TaskType
<1> QED
  BY <1>1, <1>2

\* Clearing the claim columns while moving to another status.
LEMMA UnclaimedTyped ==
    ASSUME TypeOK, NEW t \in Tasks, NEW status \in TaskStatuses,
           NEW run \in Runs \cup {NULL}
    PROVE  Unclaimed(t, status, run) \in [Tasks -> TaskType]
<1> DEFINE f == [task EXCEPT ![t].status = status]
           g == [f EXCEPT ![t].claim = NoClaim]
<1>1. f \in [Tasks -> TaskType]
  BY TaskColumns DEF TypeOK
<1>2. g \in [Tasks -> TaskType]
  BY <1>1, TaskColumns
<1>3. [g EXCEPT ![t].run = run] \in [Tasks -> TaskType]
  BY <1>2, TaskColumns
<1> QED
  BY <1>3 DEF Unclaimed

\* Closing a run keeps the table typed.
LEMMA EndRunTyped ==
    ASSUME TypeOK, NEW t \in Tasks, NEW status \in RunStatuses,
           EndRun(t, status)
    PROVE  runs' \in [Runs -> RunType]
BY DEF EndRun, TypeOK, RunType

LEMMA DescribeTypeOK ==
    ASSUME TypeOK, NEW t \in Tasks, Describe(t)
    PROVE  TypeOK'
<1>1. ASSUME NEW explicit \in Recomputable \cup {NULL}, NEW spec \in BOOLEAN,
             NEW at \in ScheduleArgs, NEW max \in RetryArgs,
             NEW parents \in SUBSET Tasks, NEW readAt \in 0..now,
             CreateTask(t, explicit, spec, at, max, parents, readAt)
      PROVE  TypeOK'
  <2>1. InitialStatus(explicit, spec, at, readAt) \in Recomputable
    BY InitialRange
  <2>2. [NoTask EXCEPT !.status = InitialStatus(explicit, spec, at, readAt),
                       !.spec = spec, !.scheduledAt = at, !.maxRetries = max]
          \in TaskType
    BY <2>1 DEF NoTask, TaskType, TaskStatuses, ScheduleArgs, RetryArgs
  <2>3. NoPlan \in PlanType
    BY DEF NoPlan, PlanType, PlanStates
  <2> QED
    BY <1>1, <2>2, <2>3 DEF CreateTask, TypeOK
<1>2. ASSUME NEW spec \in BOOLEAN,
             NEW at \in ScheduleArgs \cup {task[t].scheduledAt},
             NEW max \in RetryArgs \cup {task[t].maxRetries},
             UpdateTask(t, spec, at, max)
      PROVE  TypeOK'
  <2> DEFINE recomputed == RecomputeReadyStatus(spec, at, ParentsDone(t), now)
             status == IF task[t].status \in Recomputable
                       THEN PlanGate(recomputed, PlanReady(t))
                       ELSE task[t].status
  <2>1. status \in TaskStatuses \cup {"absent"}
    BY RecomputeRange DEF TypeOK, TaskType, TaskStatuses
  <2>2. at \in Nat \cup {NULL} /\ max \in Nat \cup {NULL}
    BY DEF TypeOK, TaskType, ScheduleArgs, RetryArgs
  <2> HIDE DEF status
  <2> DEFINE f == [task EXCEPT ![t].spec = spec]
             g == [f EXCEPT ![t].scheduledAt = at]
             h == [g EXCEPT ![t].maxRetries = max]
  <2>3. f \in [Tasks -> TaskType]
    BY TaskColumns DEF TypeOK
  <2>4. g \in [Tasks -> TaskType]
    BY <2>2, <2>3, TaskColumns
  <2>5. h \in [Tasks -> TaskType]
    BY <2>2, <2>4, TaskColumns
  <2>6. [h EXCEPT ![t].status = status] \in [Tasks -> TaskType]
    BY <2>1, <2>5, TaskColumns
  <2>7. task' = [h EXCEPT ![t].status = status]
    BY <1>2 DEF UpdateTask, TypeOK, TaskType, status
  <2> QED
    BY <1>2, <2>6, <2>7 DEF UpdateTask, TypeOK
<1>3. ASSUME NEW spec \in BOOLEAN,
             NEW at \in ScheduleArgs \cup {task[t].scheduledAt},
             SpecifyTask(t, spec, at)
      PROVE  TypeOK'
  <2> DEFINE recomputed == RecomputeReadyStatus(spec, at, ParentsDone(t), now)
             status == PlanGate(recomputed, PlanReady(t))
  <2>1. status \in TaskStatuses
    BY RecomputeRange DEF TaskStatuses
  <2>2. task' = [task EXCEPT ![t].spec = spec, ![t].scheduledAt = at,
                             ![t].status = status]
    BY <1>3 DEF SpecifyTask
  <2>3. at \in Nat \cup {NULL}
    BY DEF TypeOK, TaskType, ScheduleArgs
  <2> HIDE DEF status
  <2> DEFINE f == [task EXCEPT ![t].spec = spec]
             g == [f EXCEPT ![t].scheduledAt = at]
  <2>4. f \in [Tasks -> TaskType]
    BY TaskColumns DEF TypeOK
  <2>5. g \in [Tasks -> TaskType]
    BY <2>3, <2>4, TaskColumns
  <2>6. [g EXCEPT ![t].status = status] \in [Tasks -> TaskType]
    BY <2>1, <2>5, TaskColumns
  <2>7. task' = [g EXCEPT ![t].status = status]
    BY <2>2
  <2> QED
    BY <1>3, <2>6, <2>7 DEF SpecifyTask, TypeOK
<1>4. CASE PromoteTask(t)
  BY <1>4 DEF PromoteTask, TypeOK, TaskType, TaskStatuses, Recomputable
<1> QED
  BY <1>1, <1>2, <1>3, <1>4 DEF Describe

LEMMA WorkOnTypeOK ==
    ASSUME TypeOK, NEW t \in Tasks, WorkOn(t)
    PROVE  TypeOK'
<1> USE DEF TaskStatuses, Recomputable, RunStatuses
<1>0. task[t].run \in Runs \cup {NULL}
  BY DEF TypeOK, TaskType
<1>1. ASSUME NEW a \in Actors, NEW r \in Runs, NEW ttl \in Ttls,
             ClaimTask(t, a, r, ttl)
      PROVE  TypeOK'
  <2> DEFINE claim == [token |-> r, owner |-> a, expires |-> now + ttl]
             f == [task EXCEPT ![t].status = "running"]
             g == [f EXCEPT ![t].claim = claim]
  <2>1. claim \in ClaimType
    BY DEF ClaimType, TypeOK
  <2>2. [status |-> "running", task |-> t, claim |-> claim] \in RunType
    BY <2>1 DEF RunType
  <2> HIDE DEF claim
  <2>3. f \in [Tasks -> TaskType]
    BY TaskColumns DEF TypeOK
  <2>4. g \in [Tasks -> TaskType]
    BY <2>1, <2>3, TaskColumns
  <2>5. [g EXCEPT ![t].run = r] \in [Tasks -> TaskType]
    BY <2>4, TaskColumns
  <2>6. /\ task' = [g EXCEPT ![t].run = r]
        /\ runs' = [runs EXCEPT ![r] =
                      [status |-> "running", task |-> t, claim |-> claim]]
    BY <1>1 DEF ClaimTask, claim
  <2>7. runs' \in [Runs -> RunType]
    BY <2>2, <2>6 DEF TypeOK
  <2> QED
    BY <1>1, <2>5, <2>6, <2>7 DEF ClaimTask, TypeOK
<1>2. ASSUME NEW a \in Actors, NEW k \in Runs, NEW ttl \in Ttls,
             Heartbeat(t, a, k, ttl)
      PROVE  TypeOK'
  <2>1. now + ttl \in Nat
    BY DEF TypeOK
  <2>2. task[t].claim \in ClaimType
    BY <1>2 DEF Heartbeat, HoldsClaim, NoClaim, TypeOK, TaskType
  <2>3. [task[t].claim EXCEPT !.expires = now + ttl] \in ClaimType
    BY <2>1, <2>2 DEF ClaimType
  <2>4. task' \in [Tasks -> TaskType]
    <3>1. [task EXCEPT ![t].claim = [task[t].claim EXCEPT !.expires = now + ttl]]
            \in [Tasks -> TaskType]
      BY <2>3, TaskColumns DEF TypeOK
    <3> QED
      BY <1>2, <3>1 DEF Heartbeat
  <2>5. runs' \in [Runs -> RunType]
    <3> DEFINE r == task[t].run
    <3>1. r \in Runs /\ runs[r].claim.token = k
      BY <1>2 DEF Heartbeat, ActiveRunMatches, ActiveRuns, HoldsClaim
    <3>2. runs[r].claim \in ClaimType
      BY <3>1 DEF NoClaim, TypeOK, RunType
    <3>3. [runs[r].claim EXCEPT !.expires = now + ttl] \in ClaimType
      BY <2>1, <3>2 DEF ClaimType
    <3>4. [runs EXCEPT ![r].claim = [runs[r].claim EXCEPT !.expires = now + ttl]]
            \in [Runs -> RunType]
      BY <3>1, <3>3 DEF TypeOK, RunType
    <3> QED
      BY <1>2, <3>4 DEF Heartbeat
  <2> QED
    BY <1>2, <2>4, <2>5 DEF Heartbeat, TypeOK
<1>3. ASSUME NEW a \in Actors, NEW k \in Runs, ReleaseTask(t, a, k)
      PROVE  TypeOK'
  BY <1>3, UnclaimedTyped, EndRunTyped DEF ReleaseTask, TypeOK
<1>4. ASSUME NEW a \in Actors, NEW k \in Runs, NEW force \in BOOLEAN,
             \/ SubmitReview(t, a, k, force)
             \/ CompleteRunning(t, a, k, force)
             \/ BlockRunning(t, a, k, force)
      PROVE  TypeOK'
  BY <1>0, <1>4, UnclaimedTyped, EndRunTyped
     DEF SubmitReview, CompleteRunning, BlockRunning, TypeOK
<1>5. CASE CompleteReviewed(t)
  BY <1>0, <1>5, UnclaimedTyped DEF CompleteReviewed, TypeOK
<1>6. CASE BlockIdle(t)
  BY <1>0, <1>6, UnclaimedTyped DEF BlockIdle, TypeOK
<1> QED
  BY <1>1, <1>2, <1>3, <1>4, <1>5, <1>6 DEF WorkOn

\* A reclaim also counts the retry.
LEMMA ReclaimedTyped ==
    ASSUME TypeOK, NEW t \in Tasks, NEW status \in TaskStatuses
    PROVE  [Unclaimed(t, status, NULL) EXCEPT ![t].retries = @ + 1]
             \in [Tasks -> TaskType]
<1> DEFINE f == Unclaimed(t, status, NULL)
<1>1. f \in [Tasks -> TaskType]
  BY UnclaimedTyped
<1>2. f[t].retries + 1 \in Nat
  BY <1>1 DEF TaskType
<1> HIDE DEF f
<1>3. [f EXCEPT ![t].retries = f[t].retries + 1] \in [Tasks -> TaskType]
  BY <1>1, <1>2, TaskColumns
<1> QED
  BY <1>3 DEF f

LEMMA InterveneTypeOK ==
    ASSUME TypeOK, NEW t \in Tasks, Intervene(t)
    PROVE  TypeOK'
<1> USE DEF TaskStatuses, Recomputable, RunStatuses
<1>1. ASSUME NEW force \in BOOLEAN, NEW target \in {NULL, "ready", "blocked"},
             ReclaimTask(t, force, target)
      PROVE  TypeOK'
  <2>1. ReclaimTarget(t, target) \in TaskStatuses
    BY ReclaimRange
  <2>2. task' \in [Tasks -> TaskType]
    BY <1>1, <2>1, ReclaimedTyped DEF ReclaimTask
  <2> QED
    BY <1>1, <2>2, EndRunTyped DEF ReclaimTask, TypeOK
<1>2. CASE ReclaimExpired(t)
  <2>1. ReclaimTarget(t, NULL) \in TaskStatuses
    BY ReclaimRange
  <2>2. task' \in [Tasks -> TaskType]
    BY <1>2, <2>1, ReclaimedTyped DEF ReclaimExpired
  <2> QED
    BY <1>2, <2>2, EndRunTyped DEF ReclaimExpired, TypeOK
<1>3. CASE UnblockTask(t)
  <2> DEFINE f == [task EXCEPT ![t].status = GatedCanonical(t)]
  <2>1. GatedCanonical(t) \in TaskStatuses
    BY RecomputeRange DEF GatedCanonical, Canonical
  <2>2. f \in [Tasks -> TaskType]
    BY <2>1, TaskColumns DEF TypeOK
  <2>3. [f EXCEPT ![t].run = NULL] \in [Tasks -> TaskType]
    BY <2>2, TaskColumns
  <2> QED
    BY <1>3, <2>3 DEF UnblockTask, TypeOK
<1>4. CASE ReopenTask(t)
  <2>1. GatedCanonical(t) \in TaskStatuses
    BY RecomputeRange DEF GatedCanonical, Canonical
  <2>2. [task[t] EXCEPT !.status = GatedCanonical(t), !.run = NULL] \in TaskType
    <3>1. [task[t] EXCEPT !.status = GatedCanonical(t)] \in TaskType
      BY <2>1, RowColumns DEF TypeOK
    <3> QED
      BY <3>1, RowColumns
  <2>3. ASSUME NEW c \in Tasks
        PROVE  [task[c] EXCEPT !.status = RecomputeReadyStatus(task[c].spec,
                  task[c].scheduledAt, FALSE, now)] \in TaskType
    <3>1. RecomputeReadyStatus(task[c].spec, task[c].scheduledAt, FALSE, now)
            \in TaskStatuses
      BY RecomputeRange
    <3> QED
      BY <3>1, RowColumns DEF TypeOK
  <2>4. task' \in [Tasks -> TaskType]
    BY <1>4, <2>2, <2>3 DEF ReopenTask, TypeOK
  <2> QED
    BY <1>4, <2>4 DEF ReopenTask, TypeOK
<1>5. CASE ArchiveRunning(t)
  BY <1>5, UnclaimedTyped, EndRunTyped DEF ArchiveRunning, TypeOK
<1>6. ASSUME NEW force \in BOOLEAN, ArchiveIdle(t, force)
      PROVE  TypeOK'
  BY <1>6, UnclaimedTyped DEF ArchiveIdle, TypeOK
<1> QED
  BY <1>1, <1>2, <1>3, <1>4, <1>5, <1>6 DEF Intervene

\* Writing the columns of a plan keeps the table typed.
LEMMA PlanColumns ==
    ASSUME NEW f \in [Tasks -> PlanType], NEW t \in Tasks
    PROVE  /\ \A v \in PlanStates : [f EXCEPT ![t].row = v] \in [Tasks -> PlanType]
           /\ \A v \in SUBSET Steps :
                  /\ [f EXCEPT ![t].steps = v] \in [Tasks -> PlanType]
                  /\ [f EXCEPT ![t].required = v] \in [Tasks -> PlanType]
                  /\ [f EXCEPT ![t].resolved = v] \in [Tasks -> PlanType]
<1>1. \A v \in PlanStates : [f EXCEPT ![t].row = v] \in [Tasks -> PlanType]
  BY DEF PlanType
<1>2. \A v \in SUBSET Steps : [f EXCEPT ![t].steps = v] \in [Tasks -> PlanType]
  BY DEF PlanType
<1>3. \A v \in SUBSET Steps : [f EXCEPT ![t].required = v] \in [Tasks -> PlanType]
  BY DEF PlanType
<1>4. \A v \in SUBSET Steps : [f EXCEPT ![t].resolved = v] \in [Tasks -> PlanType]
  BY DEF PlanType
<1> QED
  BY <1>1, <1>2, <1>3, <1>4

\* Recomputing the status of a task, or leaving it, keeps the table typed.
LEMMA RecomputedTyped ==
    ASSUME TypeOK, NEW t \in Tasks, NEW status \in Recomputable,
           NEW changes \in BOOLEAN
    PROVE  [task EXCEPT ![t].status = IF changes THEN status ELSE @]
             \in [Tasks -> TaskType]
<1> DEFINE new == IF changes THEN status ELSE task[t].status
<1>1. new \in TaskStatuses \cup {"absent"}
  BY DEF TypeOK, TaskType, TaskStatuses
<1> HIDE DEF new
<1>2. [task EXCEPT ![t].status = new] \in [Tasks -> TaskType]
  BY <1>1, TaskColumns DEF TypeOK
<1> QED
  BY <1>2 DEF new

LEMMA PlanTypeOK ==
    ASSUME TypeOK, NEW t \in Tasks, Plan(t)
    PROVE  TypeOK'
<1>0. /\ plan[t].steps \in SUBSET Steps
      /\ plan[t].required \in SUBSET Steps
      /\ plan[t].resolved \in SUBSET Steps
      /\ plan[t].row \in PlanStates
      /\ plan \in [Tasks -> PlanType]
  BY DEF TypeOK, PlanType
<1>1. CASE MarkPlanNotRequired(t)
  <2>1. plan' \in [Tasks -> PlanType]
    BY <1>0, <1>1, PlanColumns DEF MarkPlanNotRequired, PlanStates
  <2> QED
    BY <1>1, <2>1 DEF MarkPlanNotRequired, TypeOK
<1>2. ASSUME NEW s \in Steps, NEW required \in BOOLEAN, CreateStep(t, s, required)
      PROVE  TypeOK'
  <2> DEFINE need == IF required THEN plan[t].required \cup {s} ELSE plan[t].required
             f == [plan EXCEPT ![t].row = "planned"]
             g == [f EXCEPT ![t].steps = plan[t].steps \cup {s}]
  <2>1. f \in [Tasks -> PlanType]
    BY <1>0, PlanColumns DEF PlanStates
  <2>2. g \in [Tasks -> PlanType]
    <3>1. plan[t].steps \cup {s} \in SUBSET Steps
      BY <1>0
    <3> HIDE DEF f
    <3> QED
      BY <2>1, <3>1, PlanColumns
  <2>3. need \in SUBSET Steps
    BY <1>0
  <2> HIDE DEF need
  <2>4. [g EXCEPT ![t].required = need] \in [Tasks -> PlanType]
    BY <2>2, <2>3, PlanColumns
  <2>5. plan' = [g EXCEPT ![t].required = need]
    BY <1>0, <1>2 DEF CreateStep, PlanType, need
  <2>6. task' \in [Tasks -> TaskType]
    <3>1. Canonical(t) \in Recomputable
      BY RecomputeRange DEF Canonical
    <3>2. task' = [task EXCEPT ![t].status =
                     IF task[t].status \in Recomputable THEN Canonical(t) ELSE @]
      BY <1>2 DEF CreateStep
    <3> QED
      BY <3>1, <3>2, RecomputedTyped
  <2> QED
    BY <1>2, <2>4, <2>5, <2>6 DEF CreateStep, TypeOK
<1>3. ASSUME NEW s \in Steps, RemoveStep(t, s)
      PROVE  TypeOK'
  <2> DEFINE last == plan[t].steps = {s}
             row == IF last THEN "unplanned" ELSE plan[t].row
             f == [plan EXCEPT ![t].row = row]
             g == [f EXCEPT ![t].steps = plan[t].steps \ {s}]
             h == [g EXCEPT ![t].required = plan[t].required \ {s}]
  <2>1. row \in PlanStates
    BY <1>0 DEF PlanStates
  <2> HIDE DEF row
  <2>2. f \in [Tasks -> PlanType]
    BY <1>0, <2>1, PlanColumns
  <2>3. g \in [Tasks -> PlanType]
    BY <1>0, <2>2, PlanColumns
  <2>4. h \in [Tasks -> PlanType]
    BY <1>0, <2>3, PlanColumns
  <2>5. [h EXCEPT ![t].resolved = plan[t].resolved \ {s}] \in [Tasks -> PlanType]
    BY <1>0, <2>4, PlanColumns
  <2>6. plan' = [h EXCEPT ![t].resolved = plan[t].resolved \ {s}]
    BY <1>0, <1>3 DEF RemoveStep, PlanType, row
  <2>7. task' \in [Tasks -> TaskType]
    <3>1. Canonical(t) \in Recomputable
      BY RecomputeRange DEF Canonical
    <3>2. task' = [task EXCEPT ![t].status =
                     IF last /\ task[t].status \in Recomputable
                     THEN Canonical(t) ELSE @]
      BY <1>3 DEF RemoveStep
    <3> QED
      BY <3>1, <3>2, RecomputedTyped
  <2> QED
    BY <1>3, <2>5, <2>6, <2>7 DEF RemoveStep, TypeOK
<1>4. ASSUME NEW s \in Steps, ResolveStep(t, s) \/ ReopenStep(t, s)
      PROVE  TypeOK'
  <2>1. PICK v \in SUBSET Steps : plan' = [plan EXCEPT ![t].resolved = v]
    <3>1. CASE ResolveStep(t, s)
      BY <1>0, <3>1 DEF ResolveStep
    <3>2. CASE ReopenStep(t, s)
      BY <1>0, <3>2 DEF ReopenStep
    <3> QED
      BY <1>4, <3>1, <3>2
  <2>2. plan' \in [Tasks -> PlanType]
    BY <1>0, <2>1, PlanColumns
  <2> QED
    BY <1>4, <2>2 DEF ResolveStep, ReopenStep, TypeOK
<1>5. ASSUME NEW s \in Steps, NEW required \in BOOLEAN, UpdateStep(t, s, required)
      PROVE  TypeOK'
  <2> DEFINE need == IF required THEN plan[t].required \cup {s}
                     ELSE plan[t].required \ {s}
  <2>1. need \in SUBSET Steps
    BY <1>0
  <2>2. plan' = [plan EXCEPT ![t].required = need]
    BY <1>5 DEF UpdateStep
  <2> HIDE DEF need
  <2>3. plan' \in [Tasks -> PlanType]
    BY <1>0, <2>1, <2>2, PlanColumns
  <2> QED
    BY <1>5, <2>3 DEF UpdateStep, TypeOK
<1> QED
  BY <1>1, <1>2, <1>3, <1>4, <1>5 DEF Plan

LEMMA LinkTypeOK ==
    ASSUME TypeOK, Link
    PROVE  TypeOK'
<1>1. ASSUME NEW p \in Tasks, NEW c \in Tasks, AddDependency(p, c)
      PROVE  TypeOK'
  <2> DEFINE computed == RecomputeReadyStatus(task[c].spec, task[c].scheduledAt,
                           ParentsDone(c) /\ task[p].status \in Satisfied, now)
  <2>1. computed \in Recomputable
    BY RecomputeRange
  <2>2. task' = [task EXCEPT ![c].status =
                   IF task[c].status \in Recomputable /\ computed # "ready"
                   THEN computed ELSE @]
    BY <1>1 DEF AddDependency, InsertDependency
  <2> HIDE DEF computed
  <2>3. task' \in [Tasks -> TaskType]
    BY <2>1, <2>2, RecomputedTyped
  <2> QED
    BY <1>1, <2>3 DEF AddDependency, InsertDependency, TypeOK
<1>2. ASSUME NEW p \in Tasks, NEW c \in Tasks, RemoveDependency(p, c)
      PROVE  TypeOK'
  BY <1>2 DEF RemoveDependency, TypeOK
<1> QED
  BY <1>1, <1>2 DEF Link

LEMMA NextTypeOK == TypeOK /\ [Next]_vars => TypeOK'
<1> SUFFICES ASSUME TypeOK, [Next]_vars PROVE TypeOK'
  OBVIOUS
<1>1. ASSUME NEW t \in Tasks,
             Describe(t) \/ WorkOn(t) \/ Intervene(t) \/ Plan(t)
      PROVE  TypeOK'
  BY <1>1, DescribeTypeOK, WorkOnTypeOK, InterveneTypeOK, PlanTypeOK
<1>2. CASE ArchiveBoard
  BY <1>2 DEF ArchiveBoard, TypeOK
<1>3. CASE Tick
  BY <1>3 DEF Tick, TypeOK
<1>4. CASE UNCHANGED vars
  BY <1>4 DEF vars, TypeOK
<1> QED
  BY <1>1, <1>2, <1>3, <1>4, LinkTypeOK DEF Next

\* Every row the operations write has the columns and the statuses the
\* schema declares.
THEOREM TypeCorrect == Spec => []TypeOK
BY InitTypeOK, NextTypeOK, PTL DEF Spec

(***************************************************************************)
(* What a step can do to leases.  Every step either leaves them alone,     *)
(* starts one, renews one or ends one; the invariants about claims and     *)
(* runs, and the refinement of RunLease, follow from these four cases.     *)
(***************************************************************************)
Results == {"succeeded", "failed", "canceled", "expired"}

KeepsLease(u) ==
    /\ (task'[u].status = "running") <=> (task[u].status = "running")
    /\ task[u].status = "running" =>
           task'[u].claim = task[u].claim /\ task'[u].run = task[u].run
    /\ task'[u].claim \in {task[u].claim, NoClaim}
    /\ task'[u].run \in {task[u].run, NULL}
    /\ task'[u].run # NULL =>
           \/ task'[u].status = task[u].status
           \/ task[u].status \in Recomputable
           \/ task[u].status = "review" /\ task'[u].status \in {"blocked", "done"}
    /\ task'[u].status \in Recomputable =>
           task[u].status \in Recomputable \/ task'[u].run = NULL
    /\ task'[u].status = "absent" => task[u].status = "absent"

Quiet == runs' = runs /\ \A u \in Tasks : KeepsLease(u)

Starts(t) == \E a \in Actors, r \in Runs, ttl \in Ttls : ClaimTask(t, a, r, ttl)
Renews(t) == \E a \in Actors, k \in Runs, ttl \in Ttls : Heartbeat(t, a, k, ttl)

EndsWith(t, result) ==
    /\ ~boardArchived
    /\ task[t].status = "running"
    /\ task[t].run \in ActiveRuns(t)
    /\ EndRun(t, result)
    /\ \A u \in Tasks \ {t} : task'[u] = task[u]
    /\ task'[t].status \notin {"running", "absent"}
    /\ task'[t].claim = NoClaim
    /\ \/ task'[t].run = NULL
       \/ /\ task'[t].run = task[t].run
          /\ \/ task'[t].status \in {"review", "done"} /\ result = "succeeded"
             \/ task'[t].status = "blocked" /\ result = "failed"

\* A step that touches no run row and no lease column of any task.
LEMMA UnclaimedFields ==
    ASSUME TypeOK, NEW t \in Tasks, NEW status, NEW run,
           task' = Unclaimed(t, status, run)
    PROVE  /\ \A u \in Tasks \ {t} : task'[u] = task[u]
           /\ task'[t].status = status
           /\ task'[t].claim = NoClaim
           /\ task'[t].run = run
BY DEF Unclaimed, TypeOK, TaskType

LEMMA DescribeIsQuiet ==
    ASSUME TypeOK, NEW t \in Tasks, Describe(t)
    PROVE  Quiet
<1> USE DEF Recomputable
<1>1. ASSUME NEW explicit \in Recomputable \cup {NULL}, NEW spec \in BOOLEAN,
             NEW at \in ScheduleArgs, NEW max \in RetryArgs,
             NEW parents \in SUBSET Tasks, NEW readAt \in 0..now,
             CreateTask(t, explicit, spec, at, max, parents, readAt)
      PROVE  Quiet
  <2>1. InitialStatus(explicit, spec, at, readAt) \in Recomputable
    BY InitialRange
  <2>2. /\ task[t].status = "absent"
        /\ \A u \in Tasks \ {t} : task'[u] = task[u]
        /\ task'[t].status = InitialStatus(explicit, spec, at, readAt)
        /\ task'[t].claim = NoClaim
        /\ task'[t].run = NULL
    BY <1>1 DEF CreateTask, Exists, NoTask, TypeOK
  <2>3. runs' = runs
    BY <1>1 DEF CreateTask
  <2> QED
    BY <2>1, <2>2, <2>3 DEF Quiet, KeepsLease
<1>2. ASSUME NEW spec \in BOOLEAN,
             NEW at \in ScheduleArgs \cup {task[t].scheduledAt},
             NEW max \in RetryArgs \cup {task[t].maxRetries},
             UpdateTask(t, spec, at, max)
      PROVE  Quiet
  <2> DEFINE recomputed == RecomputeReadyStatus(spec, at, ParentsDone(t), now)
             status == IF task[t].status \in Recomputable
                       THEN PlanGate(recomputed, PlanReady(t))
                       ELSE task[t].status
  <2>1. task[t].status \in Recomputable => status \in Recomputable
    BY RecomputeRange
  <2>2. /\ \A u \in Tasks \ {t} : task'[u] = task[u]
        /\ task'[t].status = status
        /\ task'[t].claim = task[t].claim
        /\ task'[t].run = task[t].run
    BY <1>2 DEF UpdateTask, TypeOK, TaskType
  <2>3. runs' = runs /\ (task[t].status \notin Recomputable => status = task[t].status)
    BY <1>2 DEF UpdateTask
  <2> HIDE DEF status
  <2> QED
    BY <2>1, <2>2, <2>3 DEF Quiet, KeepsLease
<1>3. ASSUME NEW spec \in BOOLEAN,
             NEW at \in ScheduleArgs \cup {task[t].scheduledAt},
             SpecifyTask(t, spec, at)
      PROVE  Quiet
  <2> DEFINE recomputed == RecomputeReadyStatus(spec, at, ParentsDone(t), now)
             status == PlanGate(recomputed, PlanReady(t))
  <2>1. status \in Recomputable
    BY RecomputeRange
  <2>2. /\ \A u \in Tasks \ {t} : task'[u] = task[u]
        /\ task[t].status = "triage"
        /\ task'[t].status = status
        /\ task'[t].claim = task[t].claim
        /\ task'[t].run = task[t].run
        /\ runs' = runs
    BY <1>3 DEF SpecifyTask, TypeOK, TaskType
  <2> HIDE DEF status
  <2> QED
    BY <2>1, <2>2 DEF Quiet, KeepsLease
<1>4. CASE PromoteTask(t)
  <2>1. /\ \A u \in Tasks \ {t} : task'[u] = task[u]
        /\ task[t].status \in {"todo", "scheduled"}
        /\ task'[t].status = "ready"
        /\ task'[t].claim = task[t].claim
        /\ task'[t].run = task[t].run
        /\ runs' = runs
    BY <1>4 DEF PromoteTask, TypeOK, TaskType
  <2> QED
    BY <2>1 DEF Quiet, KeepsLease
<1> QED
  BY <1>1, <1>2, <1>3, <1>4 DEF Describe

LEMMA WorkOnLeases ==
    ASSUME TypeOK, NEW t \in Tasks, WorkOn(t)
    PROVE  \/ Quiet \/ Starts(t) \/ Renews(t)
           \/ \E result \in Results : EndsWith(t, result)
<1> USE DEF Recomputable, Results
<1>1. ASSUME NEW a \in Actors, NEW k \in Runs, ReleaseTask(t, a, k)
      PROVE  EndsWith(t, "canceled")
  BY <1>1, UnclaimedFields DEF ReleaseTask, Live, ActiveRunMatches, EndsWith
<1>2. ASSUME NEW a \in Actors, NEW k \in Runs, NEW force \in BOOLEAN,
             SubmitReview(t, a, k, force)
      PROVE  EndsWith(t, "succeeded")
  BY <1>2, UnclaimedFields DEF SubmitReview, Live, ActiveRunMatches, EndsWith
<1>3. ASSUME NEW a \in Actors, NEW k \in Runs, NEW force \in BOOLEAN,
             CompleteRunning(t, a, k, force)
      PROVE  EndsWith(t, "succeeded")
  BY <1>3, UnclaimedFields DEF CompleteRunning, Live, ActiveRunMatches, EndsWith
<1>4. ASSUME NEW a \in Actors, NEW k \in Runs, NEW force \in BOOLEAN,
             BlockRunning(t, a, k, force)
      PROVE  EndsWith(t, "failed")
  BY <1>4, UnclaimedFields DEF BlockRunning, Live, ActiveRunMatches, EndsWith
<1>5. CASE CompleteReviewed(t)
  BY <1>5, UnclaimedFields DEF CompleteReviewed, Quiet, KeepsLease
<1>6. CASE BlockIdle(t)
  BY <1>6, UnclaimedFields DEF BlockIdle, Quiet, KeepsLease
<1> QED
  BY <1>1, <1>2, <1>3, <1>4, <1>5, <1>6 DEF WorkOn, Starts, Renews

\* A reclaim writes the retry counter on top of clearing the claim.
LEMMA ReclaimedFields ==
    ASSUME TypeOK, NEW t \in Tasks, NEW status,
           task' = [Unclaimed(t, status, NULL) EXCEPT ![t].retries = @ + 1]
    PROVE  /\ \A u \in Tasks \ {t} : task'[u] = task[u]
           /\ task'[t].status = status
           /\ task'[t].claim = NoClaim
           /\ task'[t].run = NULL
BY DEF Unclaimed, TypeOK, TaskType

LEMMA InterveneLeases ==
    ASSUME TypeOK, NEW t \in Tasks, Intervene(t)
    PROVE  Quiet \/ \E result \in Results : EndsWith(t, result)
<1> USE DEF Recomputable, Results
<1>1. ASSUME NEW force \in BOOLEAN, NEW target \in {NULL, "ready", "blocked"},
             ReclaimTask(t, force, target)
      PROVE  \E result \in Results : EndsWith(t, result)
  <2> DEFINE result == IF Expired(t) THEN "expired" ELSE "canceled"
  <2>1. ReclaimTarget(t, target) \notin {"running", "absent"}
    BY ReclaimRange
  <2>2. EndsWith(t, result)
    BY <1>1, <2>1, ReclaimedFields
       DEF ReclaimTask, Live, CurrentRunMatches, EndsWith
  <2> QED
    BY <2>2
<1>2. CASE ReclaimExpired(t)
  <2>1. ReclaimTarget(t, NULL) \notin {"running", "absent"}
    BY ReclaimRange
  <2>2. EndsWith(t, "expired")
    BY <1>2, <2>1, ReclaimedFields
       DEF ReclaimExpired, Live, CurrentRunMatches, EndsWith
  <2> QED
    BY <2>2
<1>3. CASE UnblockTask(t)
  <2>1. GatedCanonical(t) \in Recomputable
    BY RecomputeRange DEF GatedCanonical, Canonical
  <2>2. /\ \A u \in Tasks \ {t} : task'[u] = task[u]
        /\ task[t].status = "blocked"
        /\ task'[t].status = GatedCanonical(t)
        /\ task'[t].claim = task[t].claim
        /\ task'[t].run = NULL
        /\ runs' = runs
    BY <1>3 DEF UnblockTask, TypeOK, TaskType
  <2> QED
    BY <2>1, <2>2 DEF Quiet, KeepsLease
<1>4. CASE ReopenTask(t)
  <2>1. GatedCanonical(t) \in Recomputable
    BY RecomputeRange DEF GatedCanonical, Canonical
  <2>2. KeepsLease(t)
    <3>1. /\ task[t].status = "done"
          /\ task'[t] = [task[t] EXCEPT !.status = GatedCanonical(t), !.run = NULL]
      BY <1>4 DEF ReopenTask
    <3>2. /\ task'[t].status = GatedCanonical(t)
          /\ task'[t].claim = task[t].claim
          /\ task'[t].run = NULL
      BY <3>1 DEF TypeOK, TaskType
    <3> QED
      BY <2>1, <3>1, <3>2 DEF KeepsLease
  <2>3. ASSUME NEW u \in Tasks \ {t}
        PROVE  KeepsLease(u)
    <3> DEFINE demoted == RecomputeReadyStatus(task[u].spec,
                            task[u].scheduledAt, FALSE, now)
    <3>1. demoted \in Recomputable
      BY RecomputeRange
    <3>2. CASE u \in Children(t) /\ task[u].status \in Recomputable
      <4>1. task'[u] = [task[u] EXCEPT !.status = demoted]
        BY <1>4, <3>2 DEF ReopenTask
      <4>2. /\ task'[u].status = demoted
            /\ task'[u].claim = task[u].claim
            /\ task'[u].run = task[u].run
        BY <4>1 DEF TypeOK, TaskType
      <4> HIDE DEF demoted
      <4> QED
        BY <3>1, <3>2, <4>2 DEF KeepsLease
    <3>3. CASE ~(u \in Children(t) /\ task[u].status \in Recomputable)
      <4>1. task'[u] = task[u]
        BY <1>4, <3>3 DEF ReopenTask
      <4> QED
        BY <4>1 DEF KeepsLease
    <3> QED
      BY <3>2, <3>3
  <2> QED
    BY <1>4, <2>2, <2>3 DEF ReopenTask, Quiet
<1>5. CASE ArchiveRunning(t)
  <2>1. EndsWith(t, "canceled")
    BY <1>5, UnclaimedFields DEF ArchiveRunning, Live, ActiveRunMatches, EndsWith
  <2> QED
    BY <2>1
<1>6. ASSUME NEW force \in BOOLEAN, ArchiveIdle(t, force)
      PROVE  Quiet
  BY <1>6, UnclaimedFields DEF ArchiveIdle, Quiet, KeepsLease
<1> QED
  BY <1>1, <1>2, <1>3, <1>4, <1>5, <1>6 DEF Intervene

\* Recomputing a recomputable task, or leaving it, leaves its lease alone.
LEMMA RecomputedIsQuiet ==
    ASSUME TypeOK, NEW t \in Tasks, NEW status \in Recomputable,
           NEW changes \in BOOLEAN, changes => task[t].status \in Recomputable,
           task' = [task EXCEPT ![t].status = IF changes THEN status ELSE @],
           runs' = runs
    PROVE  Quiet
<1> DEFINE new == IF changes THEN status ELSE task[t].status
<1>1. /\ new = task[t].status \/ {new, task[t].status} \subseteq Recomputable
      /\ new \in Recomputable => task[t].status \in Recomputable
  OBVIOUS
<1>2. /\ \A u \in Tasks \ {t} : task'[u] = task[u]
      /\ task'[t].status = new
      /\ task'[t].claim = task[t].claim
      /\ task'[t].run = task[t].run
  BY DEF TypeOK, TaskType
<1> HIDE DEF new
<1> QED
  BY <1>1, <1>2 DEF Quiet, KeepsLease, Recomputable

\* A step that leaves both tables as they are.
LEMMA IdleIsQuiet == task' = task /\ runs' = runs => Quiet
BY DEF Quiet, KeepsLease

LEMMA PlanIsQuiet ==
    ASSUME TypeOK, NEW t \in Tasks, Plan(t)
    PROVE  Quiet
<1>1. Canonical(t) \in Recomputable
  BY RecomputeRange DEF Canonical
<1>2. ASSUME NEW s \in Steps, NEW required \in BOOLEAN, CreateStep(t, s, required)
      PROVE  Quiet
  BY <1>1, <1>2, RecomputedIsQuiet DEF CreateStep
<1>3. ASSUME NEW s \in Steps, RemoveStep(t, s)
      PROVE  Quiet
  <2> DEFINE changes == plan[t].steps = {s} /\ task[t].status \in Recomputable
  <2>1. task' = [task EXCEPT ![t].status = IF changes THEN Canonical(t) ELSE @]
    BY <1>3 DEF RemoveStep
  <2>2. runs' = runs
    BY <1>3 DEF RemoveStep
  <2> QED
    BY <1>1, <2>1, <2>2, RecomputedIsQuiet
<1>4. CASE ~ \E s \in Steps, required \in BOOLEAN :
               CreateStep(t, s, required) \/ RemoveStep(t, s)
  <2>1. task' = task /\ runs' = runs
    BY <1>4 DEF Plan, MarkPlanNotRequired, UpdateStep, ResolveStep, ReopenStep
  <2> QED
    BY <2>1, IdleIsQuiet
<1> QED
  BY <1>2, <1>3, <1>4

LEMMA LinkIsQuiet ==
    ASSUME TypeOK, Link
    PROVE  Quiet
<1>1. ASSUME NEW p \in Tasks, NEW c \in Tasks, AddDependency(p, c)
      PROVE  Quiet
  <2> DEFINE computed == RecomputeReadyStatus(task[c].spec, task[c].scheduledAt,
                           ParentsDone(c) /\ task[p].status \in Satisfied, now)
             changes == task[c].status \in Recomputable /\ computed # "ready"
  <2>1. computed \in Recomputable
    BY RecomputeRange
  <2>2. /\ task' = [task EXCEPT ![c].status = IF changes THEN computed ELSE @]
        /\ runs' = runs
    BY <1>1 DEF AddDependency, InsertDependency
  <2>3. changes \in BOOLEAN /\ (changes => task[c].status \in Recomputable)
    OBVIOUS
  <2> HIDE DEF computed, changes
  <2> QED
    BY <2>1, <2>2, <2>3, RecomputedIsQuiet
<1>2. ASSUME NEW p \in Tasks, NEW c \in Tasks, RemoveDependency(p, c)
      PROVE  Quiet
  BY <1>2, IdleIsQuiet DEF RemoveDependency
<1> QED
  BY <1>1, <1>2 DEF Link

\* The four cases.
LEMMA LeaseSteps ==
    ASSUME TypeOK, [Next]_vars
    PROVE  \/ Quiet
           \/ \E t \in Tasks : Starts(t) \/ Renews(t)
           \/ \E t \in Tasks, result \in Results : EndsWith(t, result)
<1>1. CASE ArchiveBoard \/ Tick \/ UNCHANGED vars
  BY <1>1, IdleIsQuiet DEF ArchiveBoard, Tick, vars
<1>2. ASSUME NEW t \in Tasks, Describe(t) \/ WorkOn(t) \/ Intervene(t) \/ Plan(t)
      PROVE  \/ Quiet \/ Starts(t) \/ Renews(t)
             \/ \E result \in Results : EndsWith(t, result)
  BY <1>2, DescribeIsQuiet, WorkOnLeases, InterveneLeases, PlanIsQuiet
<1> QED
  BY <1>1, <1>2, LinkIsQuiet DEF Next

(***************************************************************************)
(* Claims and runs agree.  ClaimMatchesRun is not inductive without the    *)
(* types; RunMatchesStatus needs it to know that the run a step closes is not *)
(* one that another task keeps, and needs WaitingHasNoRun when an idle     *)
(* task is blocked.                                                        *)
(***************************************************************************)
LeaseInv == TypeOK /\ ClaimMatchesRun /\ WaitingHasNoRun /\ RunMatchesStatus

\* What a claim writes, and under which conditions.
StartWrites(t, r, c) ==
    /\ task[t].status = "ready" /\ runs[r].status = "unused"
    /\ ~boardArchived
    /\ \A u \in Tasks \ {t} : task'[u] = task[u]
    /\ task'[t].status = "running"
    /\ task'[t].claim = c
    /\ task'[t].run = r
    /\ \A q \in Runs \ {r} : runs'[q] = runs[q]
    /\ runs'[r] = [status |-> "running", task |-> t, claim |-> c]

LEMMA StartFields ==
    ASSUME TypeOK, NEW t \in Tasks, Starts(t)
    PROVE  \E r \in Runs, c \in ClaimType : StartWrites(t, r, c)
<1> PICK a \in Actors, r \in Runs, ttl \in Ttls : ClaimTask(t, a, r, ttl)
  BY DEF Starts
<1> DEFINE c == [token |-> r, owner |-> a, expires |-> now + ttl]
<1>1. c \in ClaimType
  BY DEF ClaimType, TypeOK
<1>2. /\ task' = [task EXCEPT ![t].status = "running", ![t].claim = c, ![t].run = r]
      /\ runs' = [runs EXCEPT ![r] = [status |-> "running", task |-> t, claim |-> c]]
      /\ task[t].status = "ready" /\ runs[r].status = "unused"
      /\ ~boardArchived
  BY DEF ClaimTask, Claimable, Live
<1> HIDE DEF c
<1>3. /\ \A u \in Tasks \ {t} : task'[u] = task[u]
      /\ task'[t].status = "running"
      /\ task'[t].claim = c
      /\ task'[t].run = r
  BY <1>2 DEF TypeOK, TaskType
<1>4. /\ \A q \in Runs \ {r} : runs'[q] = runs[q]
      /\ runs'[r] = [status |-> "running", task |-> t, claim |-> c]
  BY <1>2 DEF TypeOK
<1> QED
  BY <1>1, <1>2, <1>3, <1>4 DEF StartWrites

\* What a heartbeat writes.
RenewWrites(t, expires) ==
    /\ task[t].status = "running"
    /\ task[t].run \in ActiveRuns(t)
    /\ ~boardArchived
    /\ \A u \in Tasks \ {t} : task'[u] = task[u]
    /\ task'[t].status = "running"
    /\ task'[t].claim = [task[t].claim EXCEPT !.expires = expires]
    /\ task'[t].run = task[t].run
    /\ \A q \in Runs \ {task[t].run} : runs'[q] = runs[q]
    /\ runs'[task[t].run].status = "running"
    /\ runs'[task[t].run].task = t
    /\ runs'[task[t].run].claim =
         [runs[task[t].run].claim EXCEPT !.expires = expires]

LEMMA RenewFields ==
    ASSUME TypeOK, NEW t \in Tasks, Renews(t)
    PROVE  \E expires \in Nat : RenewWrites(t, expires)
<1> PICK a \in Actors, k \in Runs, ttl \in Ttls : Heartbeat(t, a, k, ttl)
  BY DEF Renews
<1> DEFINE expires == now + ttl
           r == task[t].run
<1>1. expires \in Nat
  BY DEF TypeOK
<1>2. /\ task' = [task EXCEPT ![t].claim = [task[t].claim EXCEPT !.expires = expires]]
      /\ runs' = [runs EXCEPT ![r].claim = [runs[r].claim EXCEPT !.expires = expires]]
      /\ task[t].status = "running"
      /\ r \in ActiveRuns(t)
      /\ ~boardArchived
  BY DEF Heartbeat, Live, ActiveRunMatches
<1> HIDE DEF expires
<1>3. /\ \A u \in Tasks \ {t} : task'[u] = task[u]
      /\ task'[t].status = "running"
      /\ task'[t].claim = [task[t].claim EXCEPT !.expires = expires]
      /\ task'[t].run = r
  BY <1>2 DEF TypeOK, TaskType
<1>4. /\ \A q \in Runs \ {r} : runs'[q] = runs[q]
      /\ runs'[r].status = "running"
      /\ runs'[r].task = t
      /\ runs'[r].claim = [runs[r].claim EXCEPT !.expires = expires]
  BY <1>2 DEF TypeOK, RunType, ActiveRuns
<1> QED
  BY <1>1, <1>2, <1>3, <1>4 DEF RenewWrites

\* What closing a run writes.
LEMMA EndFields ==
    ASSUME TypeOK, NEW t \in Tasks, NEW result \in Results, EndsWith(t, result)
    PROVE  /\ task[t].run \in Runs
           /\ runs[task[t].run].status = "running"
           /\ runs[task[t].run].task = t
           /\ \A q \in Runs \ {task[t].run} : runs'[q] = runs[q]
           /\ runs'[task[t].run].status = result
           /\ runs'[task[t].run].task = t
BY DEF EndsWith, EndRun, ActiveRuns, TypeOK, RunType

\* What ClaimMatchesRun says of one task.
ClaimAgrees(u) ==
    IF task[u].status = "running"
    THEN /\ ActiveRuns(u) = {task[u].run}
         /\ task[u].claim # NoClaim
         /\ runs[task[u].run].claim = task[u].claim
    ELSE ActiveRuns(u) = {} /\ task[u].claim = NoClaim

LEMMA ClaimMatchesRunStep ==
    ASSUME TypeOK, ClaimMatchesRun, [Next]_vars
    PROVE  ClaimMatchesRun'
<1> SUFFICES ASSUME NEW u \in Tasks
             PROVE  ClaimAgrees(u)'
  BY DEF ClaimMatchesRun, ClaimAgrees
<1>0. ClaimAgrees(u)
  BY DEF ClaimMatchesRun, ClaimAgrees
<1> USE DEF ClaimAgrees, StartWrites, RenewWrites
<1>1. CASE Quiet
  <2>1. ActiveRuns(u)' = ActiveRuns(u) /\ runs' = runs /\ KeepsLease(u)
    BY <1>1 DEF Quiet, ActiveRuns
  <2> QED
    BY <1>0, <2>1 DEF KeepsLease
<1>2. ASSUME NEW t \in Tasks, Starts(t)
      PROVE  ClaimAgrees(u)'
  <2>1. PICK r \in Runs, c \in ClaimType : StartWrites(t, r, c)
    BY <1>2, StartFields
  <2>2. CASE u = t
    <3>1. ActiveRuns(t)' = {r}
      BY <1>0, <2>1, <2>2 DEF ActiveRuns
    <3>2. c # NoClaim
      BY DEF ClaimType, NoClaim
    <3> QED
      BY <2>1, <2>2, <3>1, <3>2
  <2>3. CASE u # t
    <3>1. ActiveRuns(u)' = ActiveRuns(u)
      BY <2>1, <2>3 DEF ActiveRuns
    <3>2. task[u].status = "running" => runs'[task[u].run] = runs[task[u].run]
      BY <1>0, <2>1 DEF ActiveRuns
    <3> QED
      BY <1>0, <2>1, <2>3, <3>1, <3>2
  <2> QED
    BY <2>2, <2>3
<1>3. ASSUME NEW t \in Tasks, Renews(t)
      PROVE  ClaimAgrees(u)'
  <2>1. PICK expires \in Nat : RenewWrites(t, expires)
    BY <1>3, RenewFields
  <2>2. ActiveRuns(u)' = ActiveRuns(u)
    BY <2>1 DEF ActiveRuns
  <2>3. CASE u = t
    <3>1. task[t].claim \in ClaimType
      BY <1>0, <2>1, <2>3 DEF TypeOK, TaskType
    <3>2. [task[t].claim EXCEPT !.expires = expires] \in ClaimType
      BY <3>1 DEF ClaimType
    <3>3. [task[t].claim EXCEPT !.expires = expires] # NoClaim
      BY <3>2 DEF ClaimType, NoClaim
    <3> QED
      BY <1>0, <2>1, <2>2, <2>3, <3>3
  <2>4. CASE u # t
    <3>1. task[u].status = "running" => runs'[task[u].run] = runs[task[u].run]
      BY <1>0, <2>1, <2>4 DEF ActiveRuns
    <3> QED
      BY <1>0, <2>1, <2>2, <2>4, <3>1
  <2> QED
    BY <2>3, <2>4
<1>4. ASSUME NEW t \in Tasks, NEW result \in Results, EndsWith(t, result)
      PROVE  ClaimAgrees(u)'
  <2>1. /\ task[t].run \in Runs
        /\ runs[task[t].run].status = "running"
        /\ runs[task[t].run].task = t
        /\ \A q \in Runs \ {task[t].run} : runs'[q] = runs[q]
        /\ runs'[task[t].run].status = result
        /\ runs'[task[t].run].task = t
    BY <1>4, EndFields
  <2>2. /\ task[t].status = "running"
        /\ task'[t].status # "running"
        /\ task'[t].claim = NoClaim
        /\ \A v \in Tasks \ {t} : task'[v] = task[v]
    BY <1>4 DEF EndsWith
  <2>3. CASE u = t
    <3>1. ActiveRuns(t)' = {}
      BY <1>0, <2>1, <2>2, <2>3 DEF ActiveRuns, Results
    <3> QED
      BY <2>2, <2>3, <3>1
  <2>4. CASE u # t
    <3>1. ActiveRuns(u)' = ActiveRuns(u)
      BY <2>1, <2>4 DEF ActiveRuns
    <3>2. task[u].status = "running" => runs'[task[u].run] = runs[task[u].run]
      BY <1>0, <2>1, <2>4 DEF ActiveRuns
    <3> QED
      BY <1>0, <2>2, <2>4, <3>1, <3>2
  <2> QED
    BY <2>3, <2>4
<1> QED
  BY <1>1, <1>2, <1>3, <1>4, LeaseSteps

LEMMA WaitingHasNoRunStep ==
    ASSUME TypeOK, WaitingHasNoRun, [Next]_vars
    PROVE  WaitingHasNoRun'
<1> SUFFICES ASSUME NEW u \in Tasks, task'[u].status \in Recomputable
             PROVE  task'[u].run = NULL
  BY DEF WaitingHasNoRun
<1>0. task[u].status \in Recomputable => task[u].run = NULL
  BY DEF WaitingHasNoRun
<1>1. CASE Quiet
  BY <1>0, <1>1 DEF Quiet, KeepsLease
<1>2. ASSUME NEW t \in Tasks, Starts(t)
      PROVE  task'[u].run = NULL
  <2>1. task'[t].status = "running" /\ \A v \in Tasks \ {t} : task'[v] = task[v]
    BY <1>2, StartFields DEF StartWrites
  <2> QED
    BY <1>0, <2>1 DEF Recomputable
<1>3. ASSUME NEW t \in Tasks, Renews(t)
      PROVE  task'[u].run = NULL
  <2>1. task'[t].status = "running" /\ \A v \in Tasks \ {t} : task'[v] = task[v]
    BY <1>3, RenewFields DEF RenewWrites
  <2> QED
    BY <1>0, <2>1 DEF Recomputable
<1>4. ASSUME NEW t \in Tasks, NEW result \in Results, EndsWith(t, result)
      PROVE  task'[u].run = NULL
  BY <1>0, <1>4 DEF EndsWith, Recomputable
<1> QED
  BY <1>1, <1>2, <1>3, <1>4, LeaseSteps

\* What RunMatchesStatus says of one task.
PointsAtOwnRun(u) ==
    task[u].run # NULL =>
        /\ runs[task[u].run].task = u
        /\ <<task[u].status, runs[task[u].run].status>> \in
               {<<"running", "running">>, <<"review", "succeeded">>,
                <<"done", "succeeded">>, <<"blocked", "succeeded">>,
                <<"blocked", "failed">>}

LEMMA RunMatchesStatusStep ==
    ASSUME LeaseInv, [Next]_vars
    PROVE  RunMatchesStatus'
<1> USE DEF Recomputable
<1> USE DEF PointsAtOwnRun, StartWrites, RenewWrites
<1> SUFFICES ASSUME NEW u \in Tasks, task'[u].run # NULL
             PROVE  PointsAtOwnRun(u)'
  BY DEF RunMatchesStatus
<1>0. /\ TypeOK
      /\ PointsAtOwnRun(u)
      /\ task[u].status = "running" => task[u].run \in ActiveRuns(u)
      /\ task[u].status \in Recomputable => task[u].run = NULL
      /\ task[u].run \in Runs \cup {NULL}
  BY DEF LeaseInv, ClaimMatchesRun, WaitingHasNoRun, RunMatchesStatus,
         PointsAtOwnRun, TypeOK, TaskType
<1>1. CASE Quiet
  <2>1. runs' = runs /\ KeepsLease(u)
    BY <1>1 DEF Quiet
  <2> QED
    BY <1>0, <2>1 DEF KeepsLease, PointsAtOwnRun
<1>2. ASSUME NEW t \in Tasks, Starts(t)
      PROVE  PointsAtOwnRun(u)'
  <2>1. PICK r \in Runs, c \in ClaimType : StartWrites(t, r, c)
    BY <1>0, <1>2, StartFields
  <2>2. CASE u = t
    BY <2>1, <2>2
  <2>3. CASE u # t
    <3>1. task[u].run \in Runs \ {r}
      BY <1>0, <2>1, <2>3 DEF PointsAtOwnRun
    <3> QED
      BY <1>0, <2>1, <2>3, <3>1 DEF PointsAtOwnRun
  <2> QED
    BY <2>2, <2>3
<1>3. ASSUME NEW t \in Tasks, Renews(t)
      PROVE  PointsAtOwnRun(u)'
  <2>1. PICK expires \in Nat : RenewWrites(t, expires)
    BY <1>0, <1>3, RenewFields
  <2>2. CASE u = t
    BY <2>1, <2>2
  <2>3. CASE u # t
    <3>1. task[u].run \in Runs \ {task[t].run}
      BY <1>0, <2>1, <2>3 DEF PointsAtOwnRun, ActiveRuns
    <3> QED
      BY <1>0, <2>1, <2>3, <3>1 DEF PointsAtOwnRun
  <2> QED
    BY <2>2, <2>3
<1>4. ASSUME NEW t \in Tasks, NEW result \in Results, EndsWith(t, result)
      PROVE  PointsAtOwnRun(u)'
  <2>1. /\ task[t].run \in Runs
        /\ runs[task[t].run].status = "running"
        /\ runs[task[t].run].task = t
        /\ \A q \in Runs \ {task[t].run} : runs'[q] = runs[q]
        /\ runs'[task[t].run].status = result
        /\ runs'[task[t].run].task = t
    BY <1>0, <1>4, EndFields
  <2>2. CASE u = t
    BY <1>4, <2>1, <2>2 DEF EndsWith
  <2>3. CASE u # t
    <3>1. task'[u] = task[u]
      BY <1>4, <2>3 DEF EndsWith
    <3>2. task[u].run \in Runs \ {task[t].run}
      BY <1>0, <2>1, <2>3, <3>1 DEF PointsAtOwnRun
    <3> QED
      BY <1>0, <2>1, <3>1, <3>2 DEF PointsAtOwnRun
  <2> QED
    BY <2>2, <2>3
<1> QED
  BY <1>0, <1>1, <1>2, <1>3, <1>4, LeaseSteps

LEMMA LeaseInvInductive ==
    /\ Init => LeaseInv
    /\ LeaseInv /\ [Next]_vars => LeaseInv'
<1>1. ASSUME Init PROVE LeaseInv
  <2>1. /\ \A t \in Tasks : task[t] = NoTask
        /\ \A r \in Runs : runs[r] = NoRun
    BY <1>1 DEF Init
  <2>2. ClaimMatchesRun
    BY <2>1 DEF ClaimMatchesRun, ActiveRuns, NoTask, NoRun
  <2>3. WaitingHasNoRun /\ RunMatchesStatus
    BY <2>1 DEF WaitingHasNoRun, RunMatchesStatus, NoTask
  <2> QED
    BY <1>1, <2>2, <2>3, InitTypeOK DEF LeaseInv
<1>2. ASSUME LeaseInv, [Next]_vars PROVE LeaseInv'
  BY <1>2, NextTypeOK, ClaimMatchesRunStep, WaitingHasNoRunStep,
     RunMatchesStatusStep DEF LeaseInv
<1> QED
  BY <1>1, <1>2

\* A task is running exactly when one run is active for it, under the same
\* claim, whatever any number of callers do.
THEOREM ClaimsMatchRuns == Spec => []ClaimMatchesRun
<1>1. LeaseInv => ClaimMatchesRun
  BY DEF LeaseInv
<1> QED
  BY <1>1, LeaseInvInductive, PTL DEF Spec

\* A task that waits to be worked on points at no run.
THEOREM WaitingTasksHaveNoRun == Spec => []WaitingHasNoRun
<1>1. LeaseInv => WaitingHasNoRun
  BY DEF LeaseInv
<1> QED
  BY <1>1, LeaseInvInductive, PTL DEF Spec

\* A waiting task points at no run, and every other task at a run of its own
\* that ended as the task's status says.
THEOREM RunsMatchStatuses == Spec => [](WaitingHasNoRun /\ RunMatchesStatus)
<1>1. LeaseInv => WaitingHasNoRun /\ RunMatchesStatus
  BY DEF LeaseInv
<1> QED
  BY <1>1, LeaseInvInductive, PTL DEF Spec

\* No step touches the row of a run that is over.
THEOREM FinishedRunsStay == Spec => FinishedRunsStayFinished
<1> DEFINE Stays == \A r \in Runs :
                       runs[r].status \notin {"unused", "running"} => runs'[r] = runs[r]
<1>1. ASSUME TypeOK, [Next]_vars PROVE Stays
  <2> SUFFICES ASSUME NEW r \in Runs, runs[r].status \notin {"unused", "running"}
               PROVE  runs'[r] = runs[r]
    OBVIOUS
  <2>1. CASE Quiet
    BY <2>1 DEF Quiet
  <2>2. ASSUME NEW t \in Tasks, Starts(t) PROVE runs'[r] = runs[r]
    BY <1>1, <2>2, StartFields DEF StartWrites
  <2>3. ASSUME NEW t \in Tasks, Renews(t) PROVE runs'[r] = runs[r]
    BY <1>1, <2>3, RenewFields DEF RenewWrites, ActiveRuns
  <2>4. ASSUME NEW t \in Tasks, NEW result \in Results, EndsWith(t, result)
        PROVE  runs'[r] = runs[r]
    BY <1>1, <2>4, EndFields
  <2> QED
    BY <1>1, <2>1, <2>2, <2>3, <2>4, LeaseSteps
<1>2. Spec => [][Stays]_vars
  BY <1>1, TypeCorrect, PTL DEF Spec
<1> QED
  BY <1>2 DEF FinishedRunsStayFinished

\* Only ArchiveBoard writes the board's row.
LEMMA BoardSteps ==
    ASSUME [Next]_vars, ~ArchiveBoard
    PROVE  boardArchived' = boardArchived
<1>1. ASSUME NEW t \in Tasks, Describe(t) PROVE boardArchived' = boardArchived
  BY <1>1 DEF Describe, CreateTask, UpdateTask, SpecifyTask, PromoteTask
<1>2. ASSUME NEW t \in Tasks, WorkOn(t) PROVE boardArchived' = boardArchived
  BY <1>2 DEF WorkOn, ClaimTask, Heartbeat, ReleaseTask, SubmitReview,
              CompleteRunning, CompleteReviewed, BlockRunning, BlockIdle
<1>3. ASSUME NEW t \in Tasks, Intervene(t) PROVE boardArchived' = boardArchived
  BY <1>3 DEF Intervene, ReclaimTask, ReclaimExpired, UnblockTask, ReopenTask,
              ArchiveRunning, ArchiveIdle
<1>4. ASSUME NEW t \in Tasks, Plan(t) PROVE boardArchived' = boardArchived
  BY <1>4 DEF Plan, MarkPlanNotRequired, CreateStep, RemoveStep, UpdateStep,
              ResolveStep, ReopenStep
<1>5. CASE Link
  BY <1>5 DEF Link, AddDependency, InsertDependency, RemoveDependency
<1>6. CASE Tick \/ UNCHANGED vars
  BY <1>6 DEF Tick, vars
<1> QED
  BY <1>1, <1>2, <1>3, <1>4, <1>5, <1>6 DEF Next

\* Nothing runs on an archived board, and nothing starts there.
THEOREM ArchivedBoardStaysIdle == Spec => []ArchivedBoardIsIdle
<1>1. Init => ArchivedBoardIsIdle
  BY DEF Init, ArchivedBoardIsIdle
<1>2. ASSUME TypeOK, ArchivedBoardIsIdle, [Next]_vars
      PROVE  ArchivedBoardIsIdle'
  <2>1. CASE ArchiveBoard
    BY <2>1 DEF ArchiveBoard, ArchivedBoardIsIdle
  <2>2. CASE ~ArchiveBoard /\ ~boardArchived
    BY <1>2, <2>2, BoardSteps DEF ArchivedBoardIsIdle
  <2>3. CASE boardArchived
    <3>1. ASSUME NEW t \in Tasks, Starts(t) \/ Renews(t)
          PROVE  FALSE
      BY <1>2, <2>3, <3>1, StartFields, RenewFields DEF StartWrites, RenewWrites
    <3>2. ASSUME NEW t \in Tasks, NEW result \in Results, EndsWith(t, result)
          PROVE  FALSE
      BY <2>3, <3>2 DEF EndsWith
    <3>3. runs' = runs
      BY <1>2, <3>1, <3>2, LeaseSteps DEF Quiet
    <3> QED
      BY <1>2, <2>3, <3>3 DEF ArchivedBoardIsIdle
  <2> QED
    BY <2>1, <2>2, <2>3
<1> QED
  BY <1>1, <1>2, TypeCorrect, PTL DEF Spec

\* An open run is always of some task.
HasItsTask == \A r \in Runs : runs[r].status = "running" => runs[r].task \in Tasks

LEMMA RunsHaveTasks == Spec => []HasItsTask
<1>1. Init => HasItsTask
  BY DEF Init, HasItsTask, NoRun
<1>2. ASSUME TypeOK, HasItsTask, [Next]_vars
      PROVE  HasItsTask'
  <2>1. CASE Quiet
    BY <1>2, <2>1 DEF Quiet, HasItsTask
  <2>2. ASSUME NEW t \in Tasks, Starts(t)
        PROVE  HasItsTask'
    <3>1. PICK r \in Runs, c \in ClaimType : StartWrites(t, r, c)
      BY <1>2, <2>2, StartFields
    <3>2. runs'[r].task = t /\ \A q \in Runs \ {r} : runs'[q] = runs[q]
      BY <3>1 DEF StartWrites
    <3> QED
      BY <1>2, <3>2 DEF HasItsTask
  <2>3. ASSUME NEW t \in Tasks, Renews(t)
        PROVE  HasItsTask'
    BY <1>2, <2>3, RenewFields DEF RenewWrites, ActiveRuns, HasItsTask
  <2>4. ASSUME NEW t \in Tasks, NEW result \in Results, EndsWith(t, result)
        PROVE  HasItsTask'
    BY <1>2, <2>4, EndFields DEF HasItsTask
  <2> QED
    BY <1>2, <2>1, <2>2, <2>3, <2>4, LeaseSteps
<1> QED
  BY <1>1, <1>2, TypeCorrect, PTL DEF Spec

\* A run that is open can be ended: its task, the task's board and the run
\* itself pass the checks of a forced reclaim, of the sweep and of archiving.
THEOREM OpenRunsCanBeEnded == Spec => []NoRunIsStuck
<1>1. ASSUME LeaseInv, HasItsTask, ArchivedBoardIsIdle
      PROVE  NoRunIsStuck
  <2> SUFFICES ASSUME NEW r \in Runs, runs[r].status = "running"
               PROVE  \E t \in Tasks :
                         /\ Live(t)
                         /\ task[t].status = "running" /\ task[t].run = r
                         /\ ActiveRunMatches(t) /\ CurrentRunMatches(t)
    BY DEF NoRunIsStuck
  <2>1. runs[r].task \in Tasks
    BY <1>1 DEF HasItsTask
  <2> DEFINE t == runs[r].task
  <2>2. r \in ActiveRuns(t)
    BY DEF ActiveRuns
  <2>3. task[t].status = "running" /\ ActiveRuns(t) = {task[t].run}
    BY <1>1, <2>1, <2>2 DEF LeaseInv, ClaimMatchesRun
  <2>4. task[t].run = r /\ runs[r].claim = task[t].claim
    BY <1>1, <2>1, <2>2, <2>3 DEF LeaseInv, ClaimMatchesRun
  <2>5. Live(t)
    BY <1>1, <2>3 DEF ArchivedBoardIsIdle, Live, Exists
  <2>6. ActiveRunMatches(t) /\ CurrentRunMatches(t)
    BY <2>2, <2>3, <2>4 DEF ActiveRunMatches, CurrentRunMatches
  <2> QED
    BY <2>1, <2>3, <2>4, <2>5, <2>6
<1>2. Spec => []LeaseInv
  BY LeaseInvInductive, PTL DEF Spec
<1> QED
  BY <1>1, <1>2, RunsHaveTasks, ArchivedBoardStaysIdle, PTL

(***************************************************************************)
(* The claims implement the run lease.                                     *)
(***************************************************************************)
Holder == [t \in Tasks |->
             IF task[t].status = "running" THEN task[t].run ELSE NULL]
Outcome == [r \in Runs |-> runs[r].status]

LEMMA LeaseSimulation ==
    ASSUME LeaseInv, [Next]_vars
    PROVE  Lease!Next \/ (Holder' = Holder /\ Outcome' = Outcome)
<1>0. TypeOK /\ ClaimMatchesRun
  BY DEF LeaseInv
<1>1. CASE Quiet
  BY <1>1 DEF Quiet, KeepsLease, Holder, Outcome
<1>2. ASSUME NEW t \in Tasks, Starts(t)
      PROVE  Lease!Next
  <2>1. PICK r \in Runs, c \in ClaimType : StartWrites(t, r, c)
    BY <1>0, <1>2, StartFields
  <2>2. Holder[t] = NULL /\ Outcome[r] = "unused"
    BY <2>1 DEF StartWrites, Holder, Outcome
  <2>3. Holder' = [Holder EXCEPT ![t] = r]
    BY <2>1 DEF StartWrites, Holder
  <2>4. Outcome' = [Outcome EXCEPT ![r] = "running"]
    <3>1. runs'[r].status = "running" /\ \A q \in Runs \ {r} : runs'[q] = runs[q]
      BY <2>1 DEF StartWrites
    <3> QED
      BY <3>1 DEF Outcome
  <2>5. Lease!Acquire(t, r)
    BY <2>2, <2>3, <2>4 DEF Lease!Acquire, Holder, Outcome
  <2> QED
    BY <2>5 DEF Lease!Next
<1>3. ASSUME NEW t \in Tasks, Renews(t)
      PROVE  Holder' = Holder /\ Outcome' = Outcome
  <2>1. PICK expires \in Nat : RenewWrites(t, expires)
    BY <1>0, <1>3, RenewFields
  <2>2. Holder' = Holder
    BY <2>1 DEF RenewWrites, Holder
  <2>3. Outcome' = Outcome
    BY <2>1 DEF RenewWrites, Outcome, ActiveRuns
  <2> QED
    BY <2>2, <2>3
<1>4. ASSUME NEW t \in Tasks, NEW result \in Results, EndsWith(t, result)
      PROVE  Lease!Next
  <2>1. /\ task[t].status = "running" /\ task'[t].status # "running"
        /\ \A u \in Tasks \ {t} : task'[u] = task[u]
    BY <1>4 DEF EndsWith
  <2>2. /\ task[t].run \in Runs
        /\ \A q \in Runs \ {task[t].run} : runs'[q] = runs[q]
        /\ runs'[task[t].run].status = result
    BY <1>0, <1>4, EndFields
  <2>3. Holder[t] = task[t].run /\ Holder[t] # NULL
    BY <2>1, <2>2 DEF Holder
  <2>4. Holder' = [Holder EXCEPT ![t] = NULL]
    BY <2>1 DEF Holder
  <2>5. Outcome' = [Outcome EXCEPT ![Holder[t]] = result]
    BY <2>2, <2>3 DEF Outcome
  <2>6. Lease!End(t, result)
    BY <2>3, <2>4, <2>5 DEF Lease!End, Holder, Outcome
  <2> QED
    BY <2>6 DEF Lease!Next, Lease!Outcomes, Results
<1> QED
  BY <1>0, <1>1, <1>2, <1>3, <1>4, LeaseSteps

\* A lease is never handed over without ending, no run is leased twice, and
\* a run's row is closed in the step that ends its task's claim.
THEOREM LifecycleImplementsLease == Spec => ImplementsLease
<1>1. Init => Lease!Init
  BY DEF Init, Lease!Init, NoTask, NoRun
<1>2. LeaseInv /\ [Next]_vars => [Lease!Next]_(Lease!leaseVars)
  BY LeaseSimulation DEF Lease!leaseVars, Holder, Outcome
<1> QED
  BY <1>1, <1>2, LeaseInvInductive, PTL DEF Spec, Lease!Spec, ImplementsLease
=============================================================================
