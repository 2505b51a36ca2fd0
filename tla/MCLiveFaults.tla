---------------------------- MODULE MCLiveFaults ----------------------------
(***************************************************************************)
(* Instances of LiveFaults for TLC.  Two pages, of which a value takes     *)
(* both or, with an explicit length, one: ranges are reused in part, and a *)
(* start address comes back with another length.                           *)
(***************************************************************************)
EXTENDS LiveFaults, TLC

MCStarts == {2, 4}
MCLens == {1, 3}
MCAddrs == {4}
MCFileLens == {3}
MCOffsets == {0}
MCOptionLens == {1}
MCPages == {1, 2}

(* Boxes, threads and values are only compared for equality.               *)
MCSymmetry == Permutations(Threads) \union Permutations(Ptrs) \union Permutations(Values)
=============================================================================
