--------------------------- MODULE MCTaskLifecycle ---------------------------
(***************************************************************************)
(* TLC's instances of TaskLifecycle.  Ids are interchangeable, so the runs *)
(* are explored up to a renaming of tasks, runs, steps and actors.         *)
(***************************************************************************)
EXTENDS TaskLifecycle, TLC

Symmetry ==
    Permutations(Tasks) \cup Permutations(Runs)
        \cup Permutations(Steps) \cup Permutations(Actors)
=============================================================================
