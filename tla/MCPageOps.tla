------------------------------ MODULE MCPageOps ------------------------------
(***************************************************************************)
(* Instances of PageOps for TLC.                                           *)
(***************************************************************************)
EXTENDS PageOps

MCFileLens == {0, 1, 3, 4}
==============================================================================
