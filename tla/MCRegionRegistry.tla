-------------------------- MODULE MCRegionRegistry --------------------------
(***************************************************************************)
(* Instances of RegionRegistry for TLC.  One region and a fault address in *)
(* it: what these runs check does not depend on the contents.              *)
(***************************************************************************)
EXTENDS RegionRegistry, TLC

MCOneStart == {2}
MCLens == {2}
MCOneAddr == {3}

(* Boxes are only compared for equality, and so are threads.               *)
MCSymmetry == Permutations(Threads) \union Permutations(Ptrs)
==============================================================================
