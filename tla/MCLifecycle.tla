----------------------------- MODULE MCLifecycle -----------------------------
(***************************************************************************)
(* Instances of Lifecycle for TLC.                                         *)
(***************************************************************************)
EXTENDS Lifecycle, TLC

MCFileLens == {0, 3}
MCOffsets == {0, 1, 2}
MCLens == {0, 2}
MCPages == {1, 2, 3}

(* Values and files are only compared.                                     *)
MCSymmetry == Permutations(Values) \union Permutations(Files)
==============================================================================
