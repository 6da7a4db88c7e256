--------------------------- MODULE MCVectorQueue ---------------------------
(***************************************************************************)
(* TLC's instance of VectorQueue.                                          *)
(***************************************************************************)
EXTENDS VectorQueue, TLC
=============================================================================
