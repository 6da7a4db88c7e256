--------------------------- MODULE ReadinessRules ---------------------------
(***************************************************************************)
(* The pure task rules of crates/kanban-core/src/state_machine.rs and the  *)
(* execution-plan gate that kanban-service puts on top of them.  Nothing   *)
(* here has state: every operation of TaskLifecycle calls these operators  *)
(* with the facts its transaction has just read.                           *)
(***************************************************************************)
EXTENDS Naturals

CONSTANT
    NULL            \* an absent value: a NULL column, a None

ASSUME NullAssumption == NULL \notin Nat

(***************************************************************************)
(* The statuses a task is recomputed in.  They are also the statuses a     *)
(* task can be created with.                                               *)
(***************************************************************************)
Recomputable == {"triage", "todo", "scheduled", "ready"}

TaskStatuses ==
    Recomputable \cup {"running", "blocked", "review", "done", "archived"}

\* A parent in one of these statuses no longer holds its children back.
Satisfied == {"done", "archived"}

IsFuture(scheduledAt, now) == scheduledAt # NULL /\ scheduledAt > now

\* The status the facts call for; the first rule that applies wins.
RecomputeReadyStatus(spec, scheduledAt, parentsDone, now) ==
    IF ~spec THEN "triage"
    ELSE IF IsFuture(scheduledAt, now) THEN "scheduled"
    ELSE IF ~parentsDone THEN "todo"
    ELSE "ready"

\* Without an executable plan a task that would be ready waits in todo.
PlanGate(status, planReady) ==
    IF status = "ready" /\ ~planReady THEN "todo" ELSE status

\* The explicit statuses initial_status accepts for the given facts.
MayStartAs(status, spec, scheduledAt, now) ==
    /\ status \in Recomputable
    /\ status = "scheduled" => scheduledAt # NULL
    /\ status = "ready" => spec /\ ~IsFuture(scheduledAt, now)

\* Mutant: a caller that names no status gets no default.
InitialStatus_NoDefault(explicit, spec, scheduledAt, now) ==
    PlanGate(explicit, FALSE)

\* initial_status: the caller's status, or the one the facts call for
\* when the caller names none.  A new task has no plan yet.
InitialStatus(explicit, spec, scheduledAt, now) ==
    PlanGate(IF explicit # NULL THEN explicit
             ELSE RecomputeReadyStatus(spec, scheduledAt, TRUE, now), FALSE)

\* retry_decision: does the next retry reach the limit?
RetriesExhausted(retries, maxRetries) ==
    maxRetries # NULL /\ retries + 1 >= maxRetries
=============================================================================
