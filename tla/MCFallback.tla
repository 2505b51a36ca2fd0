----------------------------- MODULE MCFallback -----------------------------
(***************************************************************************)
(* Instances of Fallback for TLC.                                          *)
(***************************************************************************)
EXTENDS Fallback
=============================================================================
