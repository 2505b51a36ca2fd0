------------------------- MODULE MCSigbusProtection -------------------------
(***************************************************************************)
(* Instances of SigbusProtection for TLC.  Two mappings, so that the fault *)
(* of a nested or later call has an address of its own.                    *)
(***************************************************************************)
EXTENDS SigbusProtection, TLC

(* Threads and mappings are only compared for equality.                    *)
MCSymmetry == Permutations(Threads) \union Permutations(Maps)
==============================================================================
