----------------------------- MODULE LiveFaults -----------------------------
(***************************************************************************)
(* SafeMmap values, the region registry and the SIGBUS handler together:   *)
(* threads open and drop values by way of register() and unregister(),     *)
(* step by step as in RegionRegistry, while other threads read live values *)
(* or foreign memory, fault, and ask contains().                           *)
(*                                                                         *)
(* The registry is RegionRegistry itself.  The rest of open and drop is    *)
(* taken from Lifecycle, for which registered is what the published        *)
(* snapshot holds.  There, register and unregister are one step, so the    *)
(* stage of a value changes with the swap; they have returned once the     *)
(* value is not Busy.                                                      *)
(***************************************************************************)
EXTENDS RegionRegistry

CONSTANTS Values, Files, FileLens, Offsets, OptionLens, PageSize, Pages

VARIABLES
  file_len, stage, options, flocked, map_len, base, pageOwner,
  local,   \* the value a thread is registering or unregistering
  about    \* the live value a thread's last fault was in, Null for other memory

Life == INSTANCE Lifecycle
          WITH Lens <- OptionLens, None <- Null, registered <- RegionsBar

ASSUME LiveFaultsAssumption ==
  /\ FileLens \subseteq Nat
  /\ Offsets \subseteq Nat
  /\ OptionLens \subseteq Nat
  /\ PageSize \in Nat \ {0}
  /\ Pages \subseteq Nat
  /\ Null \notin Nat \union Values
  /\ \A p \in Pages : p * PageSize \in Starts
  /\ OptionLens \ {0} \subseteq Lens
  /\ \A n \in FileLens, o \in Offsets : o < n => n - o \in Lens

lifeVars == <<file_len, stage, options, flocked, map_len, base, pageOwner>>
allVars == <<vars, lifeVars, local, about>>

(* Values whose register() or unregister() has not returned.               *)
Busy == {local[t] : t \in Threads} \ {Null}

RegisterCall(v) == [op |-> "register", start |-> Life!StartOf(v), len |-> map_len[v]]
UnregisterCall(v) == [op |-> "unregister", start |-> Life!StartOf(v)]

StartAll ==
  /\ Init
  /\ Life!Init
  /\ local = [t \in Threads |-> Null]
  /\ about = [t \in Threads |-> Null]

-----------------------------------------------------------------------------
(* The steps of open before register_region and those of a drop after      *)
(* unregister_region, and the other processes.                             *)
OpenOrClose(v) ==
  /\ UNCHANGED <<vars, local, about>>
  /\ v \notin Busy
  /\ \/ \E o \in Life!Options : Life!OpenFile(v, o)
     \/ Life!Flock(v)
     \/ Life!Measure(v)
     \/ Life!Map(v)
     \/ Life!Munmap(v, "unregistered", "unmapped")
     \/ stage[v] = "unmapped" /\ Life!CloseFile(v)

Resize(f, n) ==
  /\ UNCHANGED <<vars, local, about>>
  /\ Life!Resize(f, n)

(* open has mapped the file and takes REGION_MUTEX in register().          *)
BeginRegister(t, v) ==
  /\ stage[v] = "mapped" /\ v \notin Busy
  /\ Lock(t, RegisterCall(v))
  /\ local' = [local EXCEPT ![t] = v]
  /\ UNCHANGED <<lifeVars, about>>

(* The drop of a value nobody borrows takes it in unregister().            *)
BeginDrop(t, v) ==
  /\ stage[v] = "live" /\ v \notin Busy
  /\ \A u \in Threads : Scanning(u) => about[u] # v
  /\ Lock(t, UnregisterCall(v))
  /\ local' = [local EXCEPT ![t] = v]
  /\ UNCHANGED <<lifeVars, about>>

(* The stages once the thread's call has taken effect.                     *)
Settled(t) ==
  [stage EXCEPT ![local[t]] = IF call[t].op = "register" THEN "live" ELSE "unregistered"]

(* The mutation, up to its swap.                                           *)
Mutating(t) ==
  /\ \/ (RotateRetired(t) \/ BuildSnapshot(t)) /\ UNCHANGED stage
     \/ SwapSnapshot(t) /\ stage' = Settled(t)
  /\ UNCHANGED <<file_len, options, flocked, map_len, base, pageOwner, local, about>>

(* register() or unregister() returns.                                     *)
Finish(t) ==
  /\ RetirePrevious(t) \/ NothingToUnregister(t)
  /\ stage' = Settled(t)
  /\ local' = [local EXCEPT ![t] = Null]
  /\ UNCHANGED <<file_len, options, flocked, map_len, base, pageOwner, about>>

(* The handler's load of the snapshot pointer in contains().               *)
Ask(t, a) == LoadNull(t, a) \/ LoadSnapshot(t, a)

(* A read of a live value, which it borrows, faults at one of its bytes.   *)
FaultInValue(t, v, a) ==
  /\ stage[v] = "live" /\ v \notin Busy
  /\ a \in Life!StartOf(v)..(Life!StartOf(v) + map_len[v] - 1)
  /\ Ask(t, a)
  /\ about' = [about EXCEPT ![t] = v]
  /\ UNCHANGED <<lifeVars, local>>

(* An access to memory that is in no SafeMmap faults.                      *)
FaultElsewhere(t, a) ==
  /\ \A p \in Pages : a \in (p * PageSize)..(p * PageSize + PageSize - 1) =>
                        pageOwner[p] = Null
  /\ Ask(t, a)
  /\ about' = [about EXCEPT ![t] = Null]
  /\ UNCHANGED <<lifeVars, local>>

(* contains() scans what it has loaded and answers.                        *)
Answer(t) ==
  /\ ScanSnapshot(t)
  /\ UNCHANGED <<lifeVars, local, about>>

ThreadStep(t) ==
  \/ \E v \in Values : BeginRegister(t, v) \/ BeginDrop(t, v)
  \/ Mutating(t)
  \/ Finish(t)
  \/ \E v \in Values, a \in Addrs : FaultInValue(t, v, a)
  \/ \E a \in Addrs : FaultElsewhere(t, a)
  \/ Answer(t)

NextAll ==
  \/ \E v \in Values : OpenOrClose(v)
  \/ \E f \in Files, n \in FileLens : Resize(f, n)
  \/ \E t \in Threads : ThreadStep(t)

SpecAll == StartAll /\ [][NextAll]_allVars

-----------------------------------------------------------------------------
(* With the real registry in the place of the atomic set, open and drop    *)
(* are still what Lifecycle says: the update of a region is seen at once   *)
(* and whole, and no update is lost, however the threads interleave.       *)
ImplementsLifecycle == Life!Spec

(* The handler's verdict is right when it is given: contains() says yes to *)
(* every fault of a read in a live value and no to every other one, while  *)
(* other threads register and unregister regions at the same addresses and *)
(* snapshots are retired, freed and allocated again.                       *)
ClaimsExactlyLive ==
  \A t \in Threads : result[t] # Null /\ ~Scanning(t) =>
    (result[t].hit <=> about[t] # Null)
=============================================================================
