-------------------------- MODULE MCPoisonTracking --------------------------
(***************************************************************************)
(* Instances of PoisonTracking for TLC.                                    *)
(***************************************************************************)
EXTENDS PoisonTracking, TLC

MCLimits == {0, 2}
MCOneLimit == {2}

(* Threads are only compared for equality.                                 *)
MCSymmetry == Permutations(Threads)
==============================================================================
