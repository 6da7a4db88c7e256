-------------------------- MODULE MCDependencyWalk --------------------------
(***************************************************************************)
(* TLC's instance of DependencyWalk, up to a renaming of tasks.  All the   *)
(* tasks but one are plain ones, which wait or are archived.               *)
(***************************************************************************)
EXTENDS DependencyWalk, TLC

TaskSymmetry == Permutations(Tasks)

Plain(t) == plan[t].row = "unplanned" /\ task[t].status \in {"absent", "todo"}

MostArePlain == Cardinality({t \in Tasks : ~Plain(t)}) <= 1
=============================================================================
