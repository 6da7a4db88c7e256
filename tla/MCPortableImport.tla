-------------------------- MODULE MCPortableImport --------------------------
(***************************************************************************)
(* PortableImport for TLC.                                                 *)
(***************************************************************************)
EXTENDS PortableImport, TLC
=============================================================================
