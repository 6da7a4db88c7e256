---------------------------- MODULE MCDispatcher ----------------------------
(***************************************************************************)
(* TLC's instances of Dispatcher.  Without liveness, runs are explored up  *)
(* to a renaming of runs and tasks.                                        *)
(***************************************************************************)
EXTENDS Dispatcher, TLC

RunSymmetry == Permutations(Tasks) \cup Permutations(Runs)
=============================================================================
