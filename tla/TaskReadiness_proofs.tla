------------------------ MODULE TaskReadiness_proofs ------------------------
(***************************************************************************)
(* Theorems about what readiness rests on in TaskLifecycle (description,   *)
(* schedule, parents) and about the counting of retries, for every set of  *)
(* tasks and runs.                                                         *)
(***************************************************************************)
EXTENDS TaskGraph_proofs, FiniteSetTheorems

(***************************************************************************)
(* What a step can do to the facts.  Most steps leave description and      *)
(* schedule alone and unfinish nothing; the others are create and specify, *)
(* which work on a task that is not ready, update, and reopen.             *)
(***************************************************************************)
KeepsFacts(u) ==
    /\ task'[u].spec = task[u].spec
    /\ task'[u].scheduledAt = task[u].scheduledAt
    /\ task[u].status \in Satisfied => task'[u].status \in Satisfied

Founds(t) ==
    /\ task[t].status \in {"absent", "triage"}
    /\ \A u \in Tasks \ {t} : task'[u] = task[u]

Updates(t) ==
    \E spec \in BOOLEAN, at \in Nat \cup {NULL}, max \in Nat \cup {NULL} :
        UpdateTask(t, spec, at, max)

LEMMA OthersKeepFacts ==
    ASSUME NEW t \in Tasks, \A u \in Tasks \ {t} : task'[u] = task[u], KeepsFacts(t)
    PROVE  \A u \in Tasks : KeepsFacts(u)
BY DEF KeepsFacts

\* A write of the status, the claim and the run alone.
LEMMA UnclaimedKeepsFacts ==
    ASSUME TypeOK, NEW t \in Tasks, NEW status, NEW run,
           task[t].status \notin Satisfied \/ status \in Satisfied,
           task' = Unclaimed(t, status, run)
    PROVE  \A u \in Tasks : KeepsFacts(u)
<1>1. /\ task'[t].spec = task[t].spec
      /\ task'[t].scheduledAt = task[t].scheduledAt
  BY DEF Unclaimed, TypeOK, TaskType
<1> QED
  BY <1>1, UnclaimedFields, OthersKeepFacts DEF KeepsFacts

LEMMA ReclaimedKeepsFacts ==
    ASSUME TypeOK, NEW t \in Tasks, NEW status,
           task[t].status = "running",
           task' = [Unclaimed(t, status, NULL) EXCEPT ![t].retries = @ + 1]
    PROVE  \A u \in Tasks : KeepsFacts(u)
<1>1. /\ task'[t].spec = task[t].spec
      /\ task'[t].scheduledAt = task[t].scheduledAt
  BY DEF Unclaimed, TypeOK, TaskType
<1> QED
  BY <1>1, ReclaimedFields, OthersKeepFacts DEF KeepsFacts, Satisfied

\* A write of the status alone.
LEMMA StatusKeepsFacts ==
    ASSUME TypeOK, NEW t \in Tasks, NEW status,
           task[t].status \notin Satisfied \/ status = task[t].status,
           task' = [task EXCEPT ![t].status = status]
    PROVE  \A u \in Tasks : KeepsFacts(u)
<1>1. /\ task'[t].spec = task[t].spec
      /\ task'[t].scheduledAt = task[t].scheduledAt
      /\ task'[t].status = status
      /\ \A u \in Tasks \ {t} : task'[u] = task[u]
  BY DEF TypeOK, TaskType
<1> QED
  BY <1>1, OthersKeepFacts DEF KeepsFacts

LEMMA SameKeepsFacts ==
    task' = task => \A u \in Tasks : KeepsFacts(u)
BY DEF KeepsFacts

LEMMA DescribeFacts ==
    ASSUME TypeOK, NEW t \in Tasks, Describe(t)
    PROVE  Founds(t) \/ Updates(t) \/ \A u \in Tasks : KeepsFacts(u)
<1>1. ASSUME NEW explicit \in Recomputable \cup {NULL}, NEW spec \in BOOLEAN,
             NEW at \in ScheduleArgs, NEW max \in RetryArgs,
             NEW parents \in SUBSET Tasks, NEW readAt \in 0..now,
             CreateTask(t, explicit, spec, at, max, parents, readAt)
      PROVE  Founds(t)
  BY <1>1 DEF CreateTask, Exists, Founds, TypeOK
<1>2. ASSUME NEW spec \in BOOLEAN,
             NEW at \in ScheduleArgs \cup {task[t].scheduledAt},
             NEW max \in RetryArgs \cup {task[t].maxRetries},
             UpdateTask(t, spec, at, max)
      PROVE  Updates(t)
  <2>1. at \in Nat \cup {NULL} /\ max \in Nat \cup {NULL}
    BY InputAssumption DEF ScheduleArgs, RetryArgs, TypeOK, TaskType
  <2> QED
    BY <1>2, <2>1 DEF Updates
<1>3. ASSUME NEW spec \in BOOLEAN,
             NEW at \in ScheduleArgs \cup {task[t].scheduledAt},
             SpecifyTask(t, spec, at)
      PROVE  Founds(t)
  BY <1>3 DEF SpecifyTask, Founds, TypeOK
<1>4. ASSUME PromoteTask(t) PROVE \A u \in Tasks : KeepsFacts(u)
  BY <1>4, StatusKeepsFacts DEF PromoteTask, Satisfied
<1> QED
  BY <1>1, <1>2, <1>3, <1>4 DEF Describe

LEMMA WorkOnFacts ==
    ASSUME TypeOK, NEW t \in Tasks, WorkOn(t)
    PROVE  \A u \in Tasks : KeepsFacts(u)
<1>1. ASSUME NEW a \in Actors, NEW r \in Runs, NEW ttl \in Ttls, ClaimTask(t, a, r, ttl)
      PROVE  \A u \in Tasks : KeepsFacts(u)
  <2>1. /\ \A u \in Tasks \ {t} : task'[u] = task[u]
        /\ task'[t].spec = task[t].spec
        /\ task'[t].scheduledAt = task[t].scheduledAt
        /\ task[t].status = "ready"
    BY <1>1 DEF ClaimTask, Claimable, TypeOK, TaskType
  <2> QED
    BY <2>1, OthersKeepFacts DEF KeepsFacts, Satisfied
<1>2. ASSUME NEW a \in Actors, NEW k \in Runs, NEW ttl \in Ttls, Heartbeat(t, a, k, ttl)
      PROVE  \A u \in Tasks : KeepsFacts(u)
  <2>1. /\ \A u \in Tasks \ {t} : task'[u] = task[u]
        /\ task'[t].spec = task[t].spec
        /\ task'[t].scheduledAt = task[t].scheduledAt
        /\ task[t].status = "running"
    BY <1>2 DEF Heartbeat, TypeOK, TaskType
  <2> QED
    BY <2>1, OthersKeepFacts DEF KeepsFacts, Satisfied
<1>3. ASSUME NEW a \in Actors, NEW k \in Runs, NEW force \in BOOLEAN,
             \/ ReleaseTask(t, a, k)
             \/ SubmitReview(t, a, k, force)
             \/ CompleteRunning(t, a, k, force)
             \/ BlockRunning(t, a, k, force)
      PROVE  \A u \in Tasks : KeepsFacts(u)
  <2>1. task[t].status = "running"
    BY <1>3 DEF ReleaseTask, SubmitReview, CompleteRunning, BlockRunning
  <2>2. PICK status, run : task' = Unclaimed(t, status, run)
    BY <1>3, Zenon DEF ReleaseTask, SubmitReview, CompleteRunning, BlockRunning
  <2> QED
    BY <2>1, <2>2, UnclaimedKeepsFacts DEF Satisfied
<1>4. ASSUME CompleteReviewed(t) \/ BlockIdle(t) PROVE \A u \in Tasks : KeepsFacts(u)
  <2>1. task[t].status \notin Satisfied
    BY <1>4 DEF CompleteReviewed, BlockIdle, Recomputable, Satisfied
  <2>2. PICK status, run : task' = Unclaimed(t, status, run)
    BY <1>4, Zenon DEF CompleteReviewed, BlockIdle
  <2> QED
    BY <2>1, <2>2, UnclaimedKeepsFacts
<1>5. ASSUME NEW a \in Actors, NEW k \in Runs, ReleaseTask(t, a, k)
      PROVE  \A u \in Tasks : KeepsFacts(u)
  BY <1>3, <1>5
<1> QED
  BY <1>1, <1>2, <1>3, <1>4, <1>5 DEF WorkOn

LEMMA InterveneFacts ==
    ASSUME TypeOK, NEW t \in Tasks, Intervene(t)
    PROVE  ReopenTask(t) \/ \A u \in Tasks : KeepsFacts(u)
<1>1. ASSUME NEW force \in BOOLEAN, NEW target \in {NULL, "ready", "blocked"},
             ReclaimTask(t, force, target)
      PROVE  \A u \in Tasks : KeepsFacts(u)
  BY <1>1, ReclaimedKeepsFacts DEF ReclaimTask
<1>2. ASSUME ReclaimExpired(t) PROVE \A u \in Tasks : KeepsFacts(u)
  BY <1>2, ReclaimedKeepsFacts DEF ReclaimExpired
<1>3. ASSUME UnblockTask(t) PROVE \A u \in Tasks : KeepsFacts(u)
  <2>1. /\ \A u \in Tasks \ {t} : task'[u] = task[u]
        /\ task'[t].spec = task[t].spec
        /\ task'[t].scheduledAt = task[t].scheduledAt
        /\ task[t].status = "blocked"
    BY <1>3 DEF UnblockTask, TypeOK, TaskType
  <2> QED
    BY <2>1, OthersKeepFacts DEF KeepsFacts, Satisfied
<1>4. ASSUME NEW force \in BOOLEAN, ArchiveRunning(t) \/ ArchiveIdle(t, force)
      PROVE  \A u \in Tasks : KeepsFacts(u)
  BY <1>4, UnclaimedKeepsFacts DEF ArchiveRunning, ArchiveIdle, Satisfied
<1>5. ASSUME ArchiveRunning(t) PROVE \A u \in Tasks : KeepsFacts(u)
  BY <1>5, UnclaimedKeepsFacts DEF ArchiveRunning, Satisfied
<1> QED
  BY <1>1, <1>2, <1>3, <1>4, <1>5 DEF Intervene

\* A step of the plan or an edge moves the status of one waiting task only.
LEMMA WaitingKeepsFacts ==
    ASSUME TypeOK, NEW t \in Tasks, NEW computed, NEW cond \in BOOLEAN,
           task' = [task EXCEPT ![t].status =
                      IF cond /\ @ \in Recomputable THEN computed ELSE @]
    PROVE  \A u \in Tasks : KeepsFacts(u)
<1>1. CASE cond /\ task[t].status \in Recomputable
  <2>1. task[t].status \notin Satisfied
    BY <1>1 DEF Recomputable, Satisfied
  <2> QED
    BY <1>1, <2>1, StatusKeepsFacts
<1>2. CASE ~(cond /\ task[t].status \in Recomputable)
  BY <1>2, StatusKeepsFacts
<1> QED
  BY <1>1, <1>2

LEMMA PlanFacts ==
    ASSUME TypeOK, NEW t \in Tasks, Plan(t)
    PROVE  \A u \in Tasks : KeepsFacts(u)
<1>1. ASSUME NEW s \in Steps, NEW required \in BOOLEAN, CreateStep(t, s, required)
      PROVE  \A u \in Tasks : KeepsFacts(u)
  <2>1. task' = [task EXCEPT ![t].status =
                   IF TRUE /\ @ \in Recomputable THEN Canonical(t) ELSE @]
    BY <1>1 DEF CreateStep
  <2> QED
    BY <2>1, WaitingKeepsFacts
<1>2. ASSUME NEW s \in Steps, RemoveStep(t, s)
      PROVE  \A u \in Tasks : KeepsFacts(u)
  <2> DEFINE last == plan[t].steps = {s}
  <2>1. task' = [task EXCEPT ![t].status =
                   IF last /\ @ \in Recomputable THEN Canonical(t) ELSE @]
    BY <1>2 DEF RemoveStep
  <2>2. last \in BOOLEAN
    OBVIOUS
  <2> HIDE DEF last
  <2> QED
    BY <2>1, <2>2, WaitingKeepsFacts
<1> QED
  BY <1>1, <1>2, SameKeepsFacts
  DEF Plan, MarkPlanNotRequired, UpdateStep, ResolveStep, ReopenStep

LEMMA LinkFacts ==
    ASSUME TypeOK, NEW p \in Tasks, NEW c \in Tasks,
           AddDependency(p, c) \/ RemoveDependency(p, c)
    PROVE  \A u \in Tasks : KeepsFacts(u)
<1>1. CASE AddDependency(p, c)
  <2> DEFINE computed == RecomputeReadyStatus(task[c].spec, task[c].scheduledAt,
                           ParentsDone(c) /\ task[p].status \in Satisfied, now)
  <2>1. task' = [task EXCEPT ![c].status =
                   IF @ \in Recomputable /\ computed # "ready" THEN computed ELSE @]
    BY <1>1 DEF AddDependency, InsertDependency
  <2> HIDE DEF computed
  <2>2. task' = [task EXCEPT ![c].status =
                   IF (computed # "ready") /\ @ \in Recomputable THEN computed ELSE @]
    BY <2>1
  <2> QED
    BY <2>2, WaitingKeepsFacts
<1>2. CASE RemoveDependency(p, c)
  BY <1>2, SameKeepsFacts DEF RemoveDependency
<1> QED
  BY <1>1, <1>2

LEMMA FactSteps ==
    ASSUME TypeOK, [Next]_vars
    PROVE  \/ \A u \in Tasks : KeepsFacts(u)
           \/ \E t \in Tasks : Founds(t) \/ Updates(t) \/ ReopenTask(t)
<1>1. CASE ArchiveBoard \/ Tick \/ UNCHANGED vars
  BY <1>1, SameKeepsFacts DEF ArchiveBoard, Tick, vars
<1>2. ASSUME NEW t \in Tasks, Describe(t) \/ WorkOn(t) \/ Intervene(t) \/ Plan(t)
      PROVE  \/ \A u \in Tasks : KeepsFacts(u)
             \/ Founds(t) \/ Updates(t) \/ ReopenTask(t)
  BY <1>2, DescribeFacts, WorkOnFacts, InterveneFacts, PlanFacts
<1> QED
  BY <1>1, <1>2, LinkFacts DEF Next, Link

(***************************************************************************)
(* What a step can do to the parents of a task.                            *)
(***************************************************************************)
LEMMA ParentSteps ==
    ASSUME TypeOK, [Next]_vars, NEW t \in Tasks, Exists(t),
           NEW p \in Tasks, <<p, t>> \in deps', <<p, t>> \notin deps
    PROVE  AddDependency(p, t)
<1>1. ASSUME NEW u \in Tasks, Describe(u) PROVE FALSE
  <2>1. ASSUME NEW explicit \in Recomputable \cup {NULL}, NEW spec \in BOOLEAN,
               NEW at \in ScheduleArgs, NEW max \in RetryArgs,
               NEW parents \in SUBSET Tasks, NEW readAt \in 0..now,
               CreateTask(u, explicit, spec, at, max, parents, readAt)
        PROVE  FALSE
    <3>1. deps' = deps \cup (parents \X {u}) /\ u # t
      BY <2>1 DEF CreateTask
    <3> QED
      BY <3>1
  <2>2. CASE deps' = deps
    BY <2>2
  <2> QED
    BY <1>1, <2>1, <2>2 DEF Describe, UpdateTask, SpecifyTask, PromoteTask
<1>2. ASSUME NEW u \in Tasks, WorkOn(u) PROVE deps' = deps
  BY <1>2 DEF WorkOn, ClaimTask, Heartbeat, ReleaseTask, SubmitReview,
              CompleteRunning, CompleteReviewed, BlockRunning, BlockIdle
<1>3. ASSUME NEW u \in Tasks, Intervene(u) PROVE deps' = deps
  BY <1>3 DEF Intervene, ReclaimTask, ReclaimExpired, UnblockTask, ReopenTask,
              ArchiveRunning, ArchiveIdle
<1>4. ASSUME NEW u \in Tasks, Plan(u) PROVE deps' = deps
  BY <1>4 DEF Plan, MarkPlanNotRequired, CreateStep, RemoveStep, UpdateStep,
              ResolveStep, ReopenStep
<1>5. ASSUME NEW q \in Tasks, NEW c \in Tasks, AddDependency(q, c)
      PROVE  AddDependency(p, t)
  <2>1. deps' = deps \cup {<<q, c>>}
    BY <1>5 DEF AddDependency, InsertDependency
  <2>2. q = p /\ c = t
    BY <2>1
  <2> QED
    BY <1>5, <2>2
<1>6. ASSUME NEW q \in Tasks, NEW c \in Tasks, RemoveDependency(q, c) PROVE FALSE
  BY <1>6 DEF RemoveDependency
<1>7. CASE ArchiveBoard \/ Tick \/ UNCHANGED vars
  BY <1>7 DEF ArchiveBoard, Tick, vars
<1> QED
  BY <1>1, <1>2, <1>3, <1>4, <1>5, <1>6, <1>7 DEF Next, Link

\* The clock never goes back.
LEMMA TimeSteps ==
    ASSUME [Next]_vars
    PROVE  now' \in {now, now + 1}
<1>1. ASSUME NEW t \in Tasks, Describe(t) PROVE now' = now
  BY <1>1 DEF Describe, CreateTask, UpdateTask, SpecifyTask, PromoteTask
<1>2. ASSUME NEW t \in Tasks, WorkOn(t) PROVE now' = now
  BY <1>2 DEF WorkOn, ClaimTask, Heartbeat, ReleaseTask, SubmitReview,
              CompleteRunning, CompleteReviewed, BlockRunning, BlockIdle
<1>3. ASSUME NEW t \in Tasks, Intervene(t) PROVE now' = now
  BY <1>3 DEF Intervene, ReclaimTask, ReclaimExpired, UnblockTask, ReopenTask,
              ArchiveRunning, ArchiveIdle
<1>4. ASSUME NEW t \in Tasks, Plan(t) PROVE now' = now
  BY <1>4 DEF Plan, MarkPlanNotRequired, CreateStep, RemoveStep, UpdateStep,
              ResolveStep, ReopenStep
<1>5. ASSUME Link PROVE now' = now
  BY <1>5 DEF Link, AddDependency, InsertDependency, RemoveDependency
<1>6. CASE ArchiveBoard \/ Tick \/ UNCHANGED vars
  BY <1>6 DEF ArchiveBoard, Tick, vars
<1> QED
  BY <1>1, <1>2, <1>3, <1>4, <1>5, <1>6 DEF Next

\* Only reopening makes a finished task unfinished.
LEMMA OnlyReopenUnfinishes ==
    ASSUME TypeOK, [Next]_vars, NEW p \in Tasks,
           task[p].status \in Satisfied, task'[p].status \notin Satisfied
    PROVE  task[p].status = "done" /\ ReopenTask(p)
<1>1. CASE \A u \in Tasks : KeepsFacts(u)
  BY <1>1 DEF KeepsFacts
<1>2. ASSUME NEW t \in Tasks, Founds(t) PROVE FALSE
  BY <1>2 DEF Founds, Satisfied
<1>3. ASSUME NEW t \in Tasks, Updates(t) PROVE FALSE
  <2>1. PICK spec \in BOOLEAN, at \in Nat \cup {NULL}, max \in Nat \cup {NULL} :
            UpdateTask(t, spec, at, max)
    BY <1>3 DEF Updates
  <2>2. /\ \A u \in Tasks \ {t} : task'[u] = task[u]
        /\ task[t].status \notin Recomputable => task'[t].status = task[t].status
    BY <2>1 DEF UpdateTask, TypeOK, TaskType
  <2> QED
    BY <2>2 DEF Satisfied, Recomputable
<1>4. ASSUME NEW t \in Tasks, ReopenTask(t)
      PROVE  task[p].status = "done" /\ ReopenTask(p)
  <2>1. task[t].status = "done"
    BY <1>4 DEF ReopenTask
  <2>2. ASSUME p # t PROVE FALSE
    <3>1. task'[p] = IF p \in Children(t) /\ task[p].status \in Recomputable
                     THEN [task[p] EXCEPT !.status =
                             RecomputeReadyStatus(task[p].spec, task[p].scheduledAt,
                                                  FALSE, now)]
                     ELSE task[p]
      BY <1>4, <2>2 DEF ReopenTask
    <3> QED
      BY <3>1 DEF Satisfied, Recomputable
  <2> QED
    BY <1>4, <2>1, <2>2
<1> QED
  BY <1>1, <1>2, <1>3, <1>4, FactSteps

\* Only reopening a parent makes a running task wait for it.
THEOREM OnlyReopenOvertakes == Spec => OnlyReopenOvertakesRunning
<1>1. ASSUME TypeOK, [Next]_vars, NEW t \in Tasks,
             task[t].status = "running", ParentsDone(t),
             task'[t].status = "running", ~ParentsDone(t)'
      PROVE  \E p \in Parents(t) :
                task[p].status = "done" /\ task'[p].status \notin Satisfied
  <2>1. PICK p \in Tasks : <<p, t>> \in deps' /\ task'[p].status \notin Satisfied
    BY <1>1 DEF ParentsDone, Parents
  <2>2. CASE <<p, t>> \in deps
    <3>1. p \in Parents(t) /\ task[p].status \in Satisfied
      BY <1>1, <2>2 DEF ParentsDone, Parents
    <3> QED
      BY <1>1, <2>1, <3>1, OnlyReopenUnfinishes
  <2>3. CASE <<p, t>> \notin deps
    <3>1. AddDependency(p, t)
      BY <1>1, <2>1, <2>3, ParentSteps DEF Exists
    <3>2. task[p].status \in Satisfied /\ p # t
      BY <1>1, <3>1 DEF AddDependency, InsertDependency
    <3>3. task'[p] = task[p]
      BY <1>1, <3>1, <3>2 DEF AddDependency, InsertDependency, TypeOK
    <3> QED
      BY <2>1, <3>2, <3>3
  <2> QED
    BY <2>2, <2>3
<1>2. TypeOK /\ [Next]_vars =>
        [\A t \in Tasks :
           /\ task[t].status = "running" /\ ParentsDone(t)
           /\ task'[t].status = "running" /\ ~ParentsDone(t)'
           => \E p \in Parents(t) :
                 task[p].status = "done" /\ task'[p].status \notin Satisfied]_vars
  BY <1>1, Zenon
<1> QED
  BY <1>2, TypeCorrect, PTL DEF Spec, OnlyReopenOvertakesRunning

\* What made a ready task ready stays true as long as the task stays ready.
THEOREM ReadyIsBacked == Spec => ReadyIsNotStranded
<1>1. ASSUME TypeOK, [Next]_vars, NEW t \in Tasks,
             task[t].status = "ready", Canonical(t) = "ready",
             task'[t].status = "ready"
      PROVE  Canonical(t)' = "ready"
  <2>1. /\ task[t].spec
        /\ ~IsFuture(task[t].scheduledAt, now)
        /\ ParentsDone(t)
    BY <1>1 DEF Canonical, RecomputeReadyStatus, TypeOK, TaskType
  <2>2. ParentsDone(t)'
    <3> SUFFICES ASSUME NEW p \in Tasks, <<p, t>> \in deps',
                        task'[p].status \notin Satisfied
                 PROVE  FALSE
      BY DEF ParentsDone, Parents
    <3>1. CASE <<p, t>> \in deps
      <4>1. task[p].status \in Satisfied
        BY <2>1, <3>1 DEF ParentsDone, Parents
      <4>2. ReopenTask(p) /\ task[p].status = "done"
        BY <1>1, <4>1, OnlyReopenUnfinishes
      <4>3. t # p /\ t \in Children(p) /\ task[t].status \in Recomputable
        BY <1>1, <3>1, <4>2 DEF Children, Recomputable
      <4>4. task'[t] = [task[t] EXCEPT !.status =
                          RecomputeReadyStatus(task[t].spec, task[t].scheduledAt,
                                               FALSE, now)]
        BY <4>2, <4>3 DEF ReopenTask
      <4>5. task'[t].status = RecomputeReadyStatus(task[t].spec, task[t].scheduledAt,
                                                   FALSE, now)
        BY <1>1, <4>4 DEF TypeOK, TaskType
      <4> QED
        BY <1>1, <4>5 DEF RecomputeReadyStatus
    <3>2. CASE <<p, t>> \notin deps
      <4>1. AddDependency(p, t)
        BY <1>1, <3>2, ParentSteps DEF Exists
      <4> DEFINE computed == RecomputeReadyStatus(task[t].spec, task[t].scheduledAt,
                               ParentsDone(t) /\ task[p].status \in Satisfied, now)
      <4>2. task' = [task EXCEPT ![t].status =
                       IF @ \in Recomputable /\ computed # "ready" THEN computed ELSE @]
        BY <4>1 DEF AddDependency, InsertDependency
      <4>3. p # t /\ task[t].status \in Recomputable
        BY <1>1, <4>1 DEF AddDependency, InsertDependency, Recomputable
      <4>4. computed # "ready"
        <5>1. task'[p] = task[p]
          BY <4>2, <4>3 DEF TypeOK
        <5> QED
          BY <5>1 DEF RecomputeReadyStatus
      <4> HIDE DEF computed
      <4>5. task'[t].status = computed
        BY <1>1, <4>2, <4>3, <4>4 DEF TypeOK, TaskType
      <4> QED
        BY <1>1, <4>4, <4>5
    <3> QED
      BY <3>1, <3>2
  <2>3. task'[t].spec /\ ~IsFuture(task'[t].scheduledAt, now')
    <3>1. task'[t].scheduledAt \in Nat \cup {NULL} /\ now \in Nat
      BY <1>1, NextTypeOK DEF TypeOK, TaskType
    <3>2. task'[t].spec /\ ~IsFuture(task'[t].scheduledAt, now)
      <4>1. CASE task'[t].spec = task[t].spec /\ task'[t].scheduledAt = task[t].scheduledAt
        BY <2>1, <4>1
      <4>2. ASSUME NEW u \in Tasks, Founds(u) PROVE task'[t] = task[t]
        BY <1>1, <4>2 DEF Founds
      <4>3. ASSUME NEW u \in Tasks, ReopenTask(u)
            PROVE  task'[t].spec = task[t].spec /\ task'[t].scheduledAt = task[t].scheduledAt
        BY <1>1, <4>3 DEF ReopenTask, TypeOK, TaskType
      <4>4. ASSUME NEW u \in Tasks, Updates(u), u # t PROVE task'[t] = task[t]
        BY <1>1, <4>4 DEF Updates, UpdateTask, TypeOK
      <4>5. ASSUME Updates(t) PROVE task'[t].spec /\ ~IsFuture(task'[t].scheduledAt, now)
        <5>1. PICK spec \in BOOLEAN, at \in Nat \cup {NULL}, max \in Nat \cup {NULL} :
                  UpdateTask(t, spec, at, max)
          BY <4>5 DEF Updates
        <5> DEFINE recomputed == RecomputeReadyStatus(spec, at, ParentsDone(t), now)
        <5>2. task' = [task EXCEPT
                ![t].spec = spec, ![t].scheduledAt = at, ![t].maxRetries = max,
                ![t].status = IF @ \in Recomputable
                              THEN PlanGate(recomputed, PlanReady(t)) ELSE @]
          BY <5>1 DEF UpdateTask
        <5> HIDE DEF recomputed
        <5>3. /\ task'[t].spec = spec /\ task'[t].scheduledAt = at
              /\ task'[t].status = PlanGate(recomputed, PlanReady(t))
          BY <1>1, <5>2 DEF TypeOK, TaskType, Recomputable
        <5>4. recomputed = "ready"
          BY <1>1, <5>3 DEF PlanGate
        <5> QED
          BY <5>3, <5>4 DEF recomputed, RecomputeReadyStatus
      <4> QED
        BY <1>1, <4>1, <4>2, <4>3, <4>4, <4>5, FactSteps DEF KeepsFacts
    <3> QED
      BY <1>1, <3>1, <3>2, TimeSteps, NullAssumption DEF IsFuture
  <2> QED
    BY <2>2, <2>3 DEF Canonical, RecomputeReadyStatus
<1>2. TypeOK /\ [Next]_vars =>
        [\A t \in Tasks :
           /\ task[t].status = "ready" /\ Canonical(t) = "ready"
           /\ task'[t].status = "ready"
           => Canonical(t)' = "ready"]_vars
  BY <1>1, Zenon
<1> QED
  BY <1>2, TypeCorrect, PTL DEF Spec, ReadyIsNotStranded

(***************************************************************************)
(* Retries.  A run expires in the step that counts it, and in no other.    *)
(***************************************************************************)
KeepsCount(u) == Exists(u) => task'[u].retries = task[u].retries

NoneExpires == \A r \in Runs : runs'[r].status = "expired" => runs'[r] = runs[r]

Uncounted == NoneExpires /\ \A u \in Tasks : KeepsCount(u)

\* A reclaim of t: whatever its run ends with, the retry is counted.
Counts(t) ==
    /\ Exists(t)
    /\ task[t].run \in ActiveRuns(t)
    /\ \E status \in {"expired", "canceled"} : EndRun(t, status)
    /\ task'[t].retries = task[t].retries + 1
    /\ \A u \in Tasks \ {t} : task'[u] = task[u]

LEMMA NoRunEnds == runs' = runs => NoneExpires
BY DEF NoneExpires

LEMMA RunEndsUncounted ==
    ASSUME TypeOK, NEW t \in Tasks, NEW status, status # "expired", EndRun(t, status)
    PROVE  NoneExpires
BY DEF EndRun, NoneExpires, TypeOK, RunType

LEMMA UnclaimedKeepsCount ==
    ASSUME TypeOK, NEW t \in Tasks, NEW status, NEW run,
           task' = Unclaimed(t, status, run)
    PROVE  \A u \in Tasks : KeepsCount(u)
BY DEF Unclaimed, KeepsCount, TypeOK, TaskType

LEMMA StatusKeepsCount ==
    ASSUME TypeOK, NEW t \in Tasks, NEW status,
           task' = [task EXCEPT ![t].status = status]
    PROVE  \A u \in Tasks : KeepsCount(u)
BY DEF KeepsCount, TypeOK, TaskType

LEMMA DescribeUncounted ==
    ASSUME TypeOK, NEW t \in Tasks, Describe(t)
    PROVE  Uncounted
<1>1. ASSUME NEW explicit \in Recomputable \cup {NULL}, NEW spec \in BOOLEAN,
             NEW at \in ScheduleArgs, NEW max \in RetryArgs,
             NEW parents \in SUBSET Tasks, NEW readAt \in 0..now,
             CreateTask(t, explicit, spec, at, max, parents, readAt)
      PROVE  Uncounted
  <2>1. ~Exists(t) /\ runs' = runs /\ \A u \in Tasks \ {t} : task'[u] = task[u]
    BY <1>1 DEF CreateTask, TypeOK
  <2> QED
    BY <2>1 DEF Uncounted, NoneExpires, KeepsCount
<1>2. ASSUME NEW spec \in BOOLEAN,
             NEW at \in ScheduleArgs \cup {task[t].scheduledAt},
             NEW max \in RetryArgs \cup {task[t].maxRetries},
             UpdateTask(t, spec, at, max)
      PROVE  Uncounted
  BY <1>2 DEF UpdateTask, Uncounted, NoneExpires, KeepsCount, TypeOK, TaskType
<1>3. ASSUME NEW spec \in BOOLEAN,
             NEW at \in ScheduleArgs \cup {task[t].scheduledAt},
             SpecifyTask(t, spec, at)
      PROVE  Uncounted
  BY <1>3 DEF SpecifyTask, Uncounted, NoneExpires, KeepsCount, TypeOK, TaskType
<1>4. CASE PromoteTask(t)
  BY <1>4, StatusKeepsCount, NoRunEnds DEF PromoteTask, Uncounted
<1> QED
  BY <1>1, <1>2, <1>3, <1>4 DEF Describe

LEMMA WorkOnUncounted ==
    ASSUME TypeOK, NEW t \in Tasks, WorkOn(t)
    PROVE  Uncounted
<1>1. ASSUME NEW a \in Actors, NEW r \in Runs, NEW ttl \in Ttls, ClaimTask(t, a, r, ttl)
      PROVE  Uncounted
  <2>1. \A u \in Tasks : KeepsCount(u)
    BY <1>1 DEF ClaimTask, KeepsCount, TypeOK, TaskType
  <2>2. NoneExpires
    BY <1>1 DEF ClaimTask, NoneExpires, TypeOK
  <2> QED
    BY <2>1, <2>2 DEF Uncounted
<1>2. ASSUME NEW a \in Actors, NEW k \in Runs, NEW ttl \in Ttls, Heartbeat(t, a, k, ttl)
      PROVE  Uncounted
  <2>1. \A u \in Tasks : KeepsCount(u)
    BY <1>2 DEF Heartbeat, KeepsCount, TypeOK, TaskType
  <2>2. runs[task[t].run].status = "running"
    BY <1>2 DEF Heartbeat, ActiveRunMatches, ActiveRuns
  <2>3. NoneExpires
    BY <1>2, <2>2 DEF Heartbeat, NoneExpires, TypeOK, RunType
  <2> QED
    BY <2>1, <2>3 DEF Uncounted
<1>3. ASSUME NEW a \in Actors, NEW k \in Runs, NEW force \in BOOLEAN,
             \/ ReleaseTask(t, a, k)
             \/ SubmitReview(t, a, k, force)
             \/ CompleteRunning(t, a, k, force)
             \/ BlockRunning(t, a, k, force)
      PROVE  Uncounted
  <2>1. PICK status, run : task' = Unclaimed(t, status, run)
    BY <1>3, Zenon DEF ReleaseTask, SubmitReview, CompleteRunning, BlockRunning
  <2>2. NoneExpires
    BY <1>3, RunEndsUncounted
    DEF ReleaseTask, SubmitReview, CompleteRunning, BlockRunning
  <2> QED
    BY <2>1, <2>2, UnclaimedKeepsCount DEF Uncounted
<1>4. ASSUME CompleteReviewed(t) \/ BlockIdle(t) PROVE Uncounted
  <2>1. PICK status, run : task' = Unclaimed(t, status, run)
    BY <1>4, Zenon DEF CompleteReviewed, BlockIdle
  <2>2. NoneExpires
    BY <1>4, NoRunEnds DEF CompleteReviewed, BlockIdle
  <2> QED
    BY <2>1, <2>2, UnclaimedKeepsCount DEF Uncounted
<1>5. ASSUME NEW a \in Actors, NEW k \in Runs, ReleaseTask(t, a, k) PROVE Uncounted
  BY <1>3, <1>5
<1> QED
  BY <1>1, <1>2, <1>3, <1>4, <1>5 DEF WorkOn

LEMMA ReclaimsCount ==
    ASSUME TypeOK, NEW t \in Tasks, NEW status,
           task' = [Unclaimed(t, status, NULL) EXCEPT ![t].retries = @ + 1],
           Exists(t), CurrentRunMatches(t),
           NEW result \in {"expired", "canceled"}, EndRun(t, result)
    PROVE  Counts(t)
<1>1. task'[t].retries = task[t].retries + 1
  BY DEF Unclaimed, TypeOK, TaskType
<1> QED
  BY <1>1, ReclaimedFields DEF Counts, CurrentRunMatches

LEMMA InterveneCounts ==
    ASSUME TypeOK, NEW t \in Tasks, Intervene(t)
    PROVE  Uncounted \/ Counts(t)
<1>1. ASSUME NEW force \in BOOLEAN, NEW target \in {NULL, "ready", "blocked"},
             ReclaimTask(t, force, target)
      PROVE  Counts(t)
  <2>1. PICK result \in {"expired", "canceled"} : EndRun(t, result)
    BY <1>1 DEF ReclaimTask
  <2> QED
    BY <1>1, <2>1, ReclaimsCount DEF ReclaimTask, Live
<1>2. ASSUME ReclaimExpired(t) PROVE Counts(t)
  BY <1>2, ReclaimsCount DEF ReclaimExpired, Live
<1>3. ASSUME UnblockTask(t) PROVE Uncounted
  BY <1>3 DEF UnblockTask, Uncounted, NoneExpires, KeepsCount, TypeOK, TaskType
<1>4. ASSUME ReopenTask(t) PROVE Uncounted
  <2>1. \A u \in Tasks : KeepsCount(u)
    BY <1>4 DEF ReopenTask, KeepsCount, TypeOK, TaskType
  <2> QED
    BY <1>4, <2>1, NoRunEnds DEF ReopenTask, Uncounted
<1>5. ASSUME ArchiveRunning(t) PROVE Uncounted
  BY <1>5, UnclaimedKeepsCount, RunEndsUncounted DEF ArchiveRunning, Uncounted
<1>6. ASSUME NEW force \in BOOLEAN, ArchiveIdle(t, force) PROVE Uncounted
  BY <1>6, UnclaimedKeepsCount, NoRunEnds DEF ArchiveIdle, Uncounted
<1> QED
  BY <1>1, <1>2, <1>3, <1>4, <1>5, <1>6 DEF Intervene

LEMMA PlanUncounted ==
    ASSUME TypeOK, NEW t \in Tasks, Plan(t)
    PROVE  Uncounted
<1>1. \A u \in Tasks : KeepsCount(u)
  <2>1. CASE task' = task
    BY <2>1 DEF KeepsCount
  <2>2. ASSUME NEW s \in Steps, NEW required \in BOOLEAN, CreateStep(t, s, required)
        PROVE  \A u \in Tasks : KeepsCount(u)
    BY <2>2, StatusKeepsCount DEF CreateStep
  <2>3. ASSUME NEW s \in Steps, RemoveStep(t, s)
        PROVE  \A u \in Tasks : KeepsCount(u)
    BY <2>3, StatusKeepsCount DEF RemoveStep
  <2> QED
    BY <2>1, <2>2, <2>3 DEF Plan, MarkPlanNotRequired, UpdateStep, ResolveStep, ReopenStep
<1>2. runs' = runs
  BY DEF Plan, MarkPlanNotRequired, CreateStep, RemoveStep, UpdateStep,
         ResolveStep, ReopenStep
<1> QED
  BY <1>1, <1>2, NoRunEnds DEF Uncounted

LEMMA LinkUncounted ==
    ASSUME TypeOK, NEW p \in Tasks, NEW c \in Tasks,
           AddDependency(p, c) \/ RemoveDependency(p, c)
    PROVE  Uncounted
<1>1. CASE AddDependency(p, c)
  BY <1>1, StatusKeepsCount, NoRunEnds DEF AddDependency, InsertDependency, Uncounted
<1>2. CASE RemoveDependency(p, c)
  BY <1>2, NoRunEnds DEF RemoveDependency, Uncounted, KeepsCount
<1> QED
  BY <1>1, <1>2

LEMMA CountSteps ==
    ASSUME TypeOK, [Next]_vars
    PROVE  Uncounted \/ \E t \in Tasks : Counts(t)
<1>1. CASE ArchiveBoard \/ Tick \/ UNCHANGED vars
  BY <1>1, NoRunEnds DEF ArchiveBoard, Tick, vars, Uncounted, KeepsCount
<1>2. ASSUME NEW t \in Tasks, Describe(t) \/ WorkOn(t) \/ Intervene(t) \/ Plan(t)
      PROVE  Uncounted \/ Counts(t)
  BY <1>2, DescribeUncounted, WorkOnUncounted, InterveneCounts, PlanUncounted
<1> QED
  BY <1>1, <1>2, LinkUncounted DEF Next, Link

(***************************************************************************)
(* The strengthening of ExpiredRunsAreRetries: what is counted is finite,  *)
(* and a row that is yet to be created has no runs to count.               *)
(***************************************************************************)
ExpiredOf(t) == {r \in Runs : runs[r].task = t /\ runs[r].status = "expired"}

CountsRight(t) ==
    /\ IsFiniteSet(ExpiredOf(t))
    /\ Cardinality(ExpiredOf(t)) <= task[t].retries
    /\ ~Exists(t) => ExpiredOf(t) = {}

RetryInv == TypeOK /\ \A t \in Tasks : CountsRight(t)

LEMMA RetryInvInit == Init => RetryInv
<1> SUFFICES ASSUME Init PROVE RetryInv
  OBVIOUS
<1>1. \A t \in Tasks : ExpiredOf(t) = {} /\ task[t].retries = 0
  BY DEF Init, ExpiredOf, NoRun, NoTask
<1> QED
  BY <1>1, InitTypeOK, FS_EmptySet DEF RetryInv, CountsRight

LEMMA RetryInvStep ==
    ASSUME RetryInv, [Next]_vars
    PROVE  RetryInv'
<1>1. TypeOK /\ TypeOK'
  BY NextTypeOK DEF RetryInv
<1> SUFFICES ASSUME NEW u \in Tasks PROVE CountsRight(u)'
  BY <1>1 DEF RetryInv
<1>2. CountsRight(u)
  BY DEF RetryInv
<1>3. task[u].retries \in Nat /\ task'[u].retries \in Nat
  BY <1>1 DEF TypeOK, TaskType
<1>4. Cardinality(ExpiredOf(u)) \in Nat
  BY <1>2, FS_CardinalityType DEF CountsRight
<1>5. Exists(u) => Exists(u)'
  BY <1>1, RowsStay
<1>6. CASE ExpiredOf(u)' \subseteq ExpiredOf(u) /\ (Exists(u) => task'[u].retries >= task[u].retries)
  <2>1. IsFiniteSet(ExpiredOf(u)') /\ Cardinality(ExpiredOf(u)') <= Cardinality(ExpiredOf(u))
    BY <1>2, <1>6, FS_Subset DEF CountsRight
  <2>2. Cardinality(ExpiredOf(u)') \in Nat
    BY <2>1, FS_CardinalityType
  <2>3. CASE Exists(u)
    BY <1>2, <1>3, <1>4, <1>5, <1>6, <2>1, <2>2, <2>3 DEF CountsRight
  <2>4. CASE ~Exists(u)
    <3>1. ExpiredOf(u)' = {}
      BY <1>2, <1>6, <2>4 DEF CountsRight
    <3>2. Cardinality(ExpiredOf(u)') = 0
      BY <3>1, FS_EmptySet
    <3> QED
      BY <1>3, <2>1, <3>1, <3>2 DEF CountsRight
  <2> QED
    BY <2>3, <2>4
<1>7. CASE Uncounted
  BY <1>3, <1>6, <1>7 DEF Uncounted, NoneExpires, KeepsCount, ExpiredOf
<1>8. ASSUME NEW t \in Tasks, Counts(t) PROVE CountsRight(u)'
  <2> DEFINE r == task[t].run
  <2>1. r \in Runs /\ runs[r].task = t /\ runs[r].status = "running"
    BY <1>8 DEF Counts, ActiveRuns
  <2>2. /\ \A q \in Runs \ {r} : runs'[q] = runs[q]
        /\ runs'[r].task = t
    BY <1>1, <1>8, <2>1 DEF Counts, EndRun, TypeOK, RunType
  <2>3. CASE u # t
    <3>1. ExpiredOf(u)' \subseteq ExpiredOf(u)
      BY <2>1, <2>2, <2>3 DEF ExpiredOf
    <3>2. task'[u] = task[u]
      BY <1>8, <2>3 DEF Counts
    <3> QED
      BY <1>3, <1>6, <3>1, <3>2
  <2>4. CASE u = t
    <3>1. ExpiredOf(t)' \subseteq ExpiredOf(t) \cup {r}
      BY <2>1, <2>2 DEF ExpiredOf
    <3>2. r \notin ExpiredOf(t)
      BY <2>1 DEF ExpiredOf
    <3>3. /\ IsFiniteSet(ExpiredOf(t) \cup {r})
          /\ Cardinality(ExpiredOf(t) \cup {r}) = Cardinality(ExpiredOf(t)) + 1
      BY <1>2, <2>4, <3>2, FS_AddElement DEF CountsRight
    <3>4. /\ IsFiniteSet(ExpiredOf(t)')
          /\ Cardinality(ExpiredOf(t)') <= Cardinality(ExpiredOf(t)) + 1
      BY <3>1, <3>3, FS_Subset
    <3>5. Cardinality(ExpiredOf(t)') \in Nat
      BY <3>4, FS_CardinalityType
    <3>6. task'[t].retries = task[t].retries + 1
      BY <1>8 DEF Counts
    <3>7. Exists(t)
      BY <1>8 DEF Counts
    <3> QED
      BY <1>2, <1>3, <1>4, <1>5, <2>4, <3>4, <3>5, <3>6, <3>7 DEF CountsRight
  <2> QED
    BY <2>3, <2>4
<1> QED
  BY <1>1, <1>7, <1>8, CountSteps

\* Every expired run was counted as a retry.
THEOREM ExpiredRunsAreCounted == Spec => []ExpiredRunsAreRetries
<1>1. RetryInv => ExpiredRunsAreRetries
  BY DEF RetryInv, CountsRight, ExpiredOf, ExpiredRunsAreRetries
<1> QED
  BY <1>1, RetryInvInit, RetryInvStep, PTL DEF Spec
=============================================================================
