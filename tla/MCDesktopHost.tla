--------------------------- MODULE MCDesktopHost ---------------------------
(***************************************************************************)
(* TLC's instance of DesktopHost.                                          *)
(***************************************************************************)
EXTENDS DesktopHost, TLC
=============================================================================
