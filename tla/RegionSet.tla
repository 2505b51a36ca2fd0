------------------------------ MODULE RegionSet ------------------------------
(***************************************************************************)
(* What the region registry promises, with no snapshots, no mutex and no   *)
(* reclamation: one set of regions, changed by register and unregister in  *)
(* one step each, and a membership question that is answered in one step   *)
(* from the set as it is at that moment.  RegionRegistry implements it.    *)
(***************************************************************************)
EXTENDS Regions

CONSTANTS
  Threads,   \* threads that mutate the registry or take a SIGBUS
  Starts,    \* start addresses regions are registered at
  Lens,      \* region lengths
  Addrs,     \* fault addresses the handler asks about
  NoAnswer   \* a thread that has not asked yet

VARIABLES
  regions,   \* the registered regions
  answer     \* per thread: its last question and the reply it got

vars == <<regions, answer>>

Init ==
  /\ regions = {}
  /\ answer = [t \in Threads |-> NoAnswer]

Register(start, len) ==
  /\ regions' = regions \union {RegisteredRegion(start, len)}
  /\ UNCHANGED answer

Unregister(start) ==
  /\ regions' = Retain(regions, start)
  /\ UNCHANGED answer

Contains(t, addr) ==
  /\ answer' = [answer EXCEPT ![t] = [addr |-> addr, hit |-> Covers(regions, addr)]]
  /\ UNCHANGED regions

Next ==
  \/ \E start \in Starts, len \in Lens : Register(start, len)
  \/ \E start \in Starts : Unregister(start)
  \/ \E t \in Threads, addr \in Addrs : Contains(t, addr)

Spec == Init /\ [][Next]_vars
==============================================================================
