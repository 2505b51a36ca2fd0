------------------------------- MODULE Regions -------------------------------
(***************************************************************************)
(* The data of the SIGBUS region registry (signal/registry.rs): half-open  *)
(* address ranges and the two pure functions the registry is built from.   *)
(* The Vec of a snapshot is a set here: neither the membership scan nor    *)
(* retain tells the order or the multiplicity of its elements apart.       *)
(***************************************************************************)
EXTENDS Naturals

(* struct RegisteredRegion, as register() fills it in.                     *)
RegisteredRegion(start, len) == [start |-> start, end |-> start + len]

(* contains(): the scan over the regions of one snapshot.                  *)
Covers(regions, addr) ==
  \E r \in regions : r.start <= addr /\ addr < r.end

(* unregister(): regions.retain(|r| r.start != start).                     *)
Retain(regions, start) == {r \in regions : r.start # start}
==============================================================================
