------------------------------ MODULE MCPrefetch ------------------------------
(***************************************************************************)
(* Instances of Prefetch for TLC.                                          *)
(***************************************************************************)
EXTENDS Prefetch
===============================================================================
