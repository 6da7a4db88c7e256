----------------------------- MODULE MCWebSync -----------------------------
(***************************************************************************)
(* WebSync for TLC.                                                        *)
(***************************************************************************)
EXTENDS WebSync, TLC
=============================================================================
