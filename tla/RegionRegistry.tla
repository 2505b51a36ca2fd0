--------------------------- MODULE RegionRegistry ---------------------------
(***************************************************************************)
(* The lock-free region registry of the SIGBUS handler                     *)
(* (signal/registry.rs).  Mutators publish immutable snapshots under a     *)
(* mutex and free retired ones two mutations later; the signal handler     *)
(* loads the snapshot pointer and then scans what it points to without     *)
(* taking the mutex.  One action per shared-memory step, so that a handler *)
(* on one thread can be overtaken anywhere by mutations on others.         *)
(*                                                                         *)
(* Pointers come from a set Ptrs and are handed out again once freed, as   *)
(* an allocator does.  A snapshot keeps its contents after it is freed     *)
(* until its pointer is reused.                                            *)
(***************************************************************************)
EXTENDS Regions

CONSTANTS
  Threads,    \* threads that mutate the registry or take a SIGBUS
  Ptrs,       \* addresses Box::new can return
  Null,       \* the null pointer; also: nobody, nothing
  Starts,     \* start addresses regions are registered at
  Lens,       \* region lengths
  Addrs,      \* fault addresses
  MaxOverlap  \* how many mutations may begin while one handler is scanning

ASSUME RegistryAssumption ==
  /\ Null \notin Threads \union Ptrs
  /\ Starts \subseteq Nat
  /\ Lens \subseteq Nat \ {0}
  /\ Addrs \subseteq Nat
  /\ MaxOverlap \in Nat

VARIABLES
  snapshot,     \* REGION_SNAPSHOT
  heap,         \* contents of each snapshot box
  allocated,    \* boxes not freed
  previous,     \* RetiredTracker.previous
  current,      \* RetiredTracker.current
  mutex,        \* REGION_MUTEX: the thread that holds it
  newSnapshot,  \* local new_snapshot of the thread that holds the mutex
  prev,         \* local prev of the thread that holds the mutex
  pc,           \* what each thread is about to do
  call,         \* the mutation a thread is carrying out
  held,         \* snapshot_ptr of a thread inside contains()
  asked,        \* addr of a thread inside contains()
  result,       \* what contains() last returned to a thread
  begun,        \* history: mutations begun since the thread's load
  dangling      \* history: scanning threads whose snapshot has been freed

mutatorVars == <<snapshot, heap, allocated, previous, current, mutex,
                 newSnapshot, prev, call>>
handlerVars == <<held, asked, result, begun, dangling>>
vars == <<mutatorVars, pc, handlerVars>>

Calls == [op : {"register"}, start : Starts, len : Lens]
           \union [op : {"unregister"}, start : Starts]

RegionSpace == {RegisteredRegion(start, len) : start \in Starts, len \in Lens}

(* Where a thread holds the mutex.                                         *)
Locked == {"rotate", "build", "swap", "retire"}

(* unsafe { &*ptr }.regions, and no regions for the null pointer.          *)
RegionsAt(ptr) == IF ptr = Null THEN {} ELSE heap[ptr]

(* The vector register and unregister put in the next snapshot.            *)
NextRegions(c, regions) ==
  IF c.op = "register"
  THEN regions \union {RegisteredRegion(c.start, c.len)}
  ELSE Retain(regions, c.start)

Init ==
  /\ snapshot = Null
  /\ heap = [p \in Ptrs |-> {}]
  /\ allocated = {}
  /\ previous = {}
  /\ current = {}
  /\ mutex = Null
  /\ newSnapshot = Null
  /\ prev = Null
  /\ pc = [t \in Threads |-> "idle"]
  /\ call = [t \in Threads |-> Null]
  /\ held = [t \in Threads |-> Null]
  /\ asked = [t \in Threads |-> Null]
  /\ result = [t \in Threads |-> Null]
  /\ begun = [t \in Threads |-> 0]
  /\ dangling = {}

Scanning(t) == pc[t] = "scan"

-----------------------------------------------------------------------------
(* Faulty variants of the actions below: each is a bug the properties of   *)
(* this module must notice.                                                *)

(* The mutation does not take REGION_MUTEX.                                *)
LockUnguarded(t, c) ==
  /\ pc[t] = "idle"
  /\ \A r \in Threads : Scanning(r) => begun[r] < MaxOverlap
  /\ mutex' = t
  /\ call' = [call EXCEPT ![t] = c]
  /\ pc' = [pc EXCEPT ![t] = "rotate"]
  /\ begun' = [r \in Threads |-> IF Scanning(r) THEN begun[r] + 1 ELSE begun[r]]
  /\ UNCHANGED <<snapshot, heap, allocated, previous, current, newSnapshot,
                 prev, held, asked, result, dangling>>

(* One generation instead of two: everything retired is freed at once.     *)
RotateFreesBoth(t) ==
  /\ pc[t] = "rotate"
  /\ allocated' = allocated \ (previous \union current)
  /\ dangling' = dangling \union
       {r \in Threads : Scanning(r) /\ held[r] \in previous \union current}
  /\ previous' = {}
  /\ current' = {}
  /\ pc' = [pc EXCEPT ![t] = "build"]
  /\ UNCHANGED <<snapshot, heap, mutex, newSnapshot, prev, call, held, asked,
                 result, begun>>

(* The younger generation is aged, the older one is never drained.         *)
RotateKeepsAll(t) ==
  /\ pc[t] = "rotate"
  /\ previous' = previous \union current
  /\ current' = {}
  /\ pc' = [pc EXCEPT ![t] = "build"]
  /\ UNCHANGED <<snapshot, heap, allocated, mutex, newSnapshot, prev, call,
                 handlerVars>>

(* The swapped-out snapshot is dropped on the floor.                       *)
RetireForgets(t) ==
  /\ pc[t] = "retire"
  /\ prev' = Null
  /\ mutex' = Null
  /\ call' = [call EXCEPT ![t] = Null]
  /\ pc' = [pc EXCEPT ![t] = "idle"]
  /\ UNCHANGED <<snapshot, heap, allocated, previous, current, newSnapshot,
                 handlerVars>>

(* The null check before tracker.current.push is missing.                  *)
RetireNull(t) ==
  /\ pc[t] = "retire"
  /\ current' = current \union {prev}
  /\ prev' = Null
  /\ mutex' = Null
  /\ call' = [call EXCEPT ![t] = Null]
  /\ pc' = [pc EXCEPT ![t] = "idle"]
  /\ UNCHANGED <<snapshot, heap, allocated, previous, newSnapshot, handlerVars>>

-----------------------------------------------------------------------------
(* register() and unregister().                                            *)

(* REGION_MUTEX.lock().  MaxOverlap bounds how long one handler invocation *)
(* may be overtaken.                                                       *)
Lock(t, c) ==
  /\ pc[t] = "idle"
  /\ mutex = Null
  /\ \A r \in Threads : Scanning(r) => begun[r] < MaxOverlap
  /\ mutex' = t
  /\ call' = [call EXCEPT ![t] = c]
  /\ pc' = [pc EXCEPT ![t] = "rotate"]
  /\ begun' = [r \in Threads |-> IF Scanning(r) THEN begun[r] + 1 ELSE begun[r]]
  /\ UNCHANGED <<snapshot, heap, allocated, previous, current, newSnapshot,
                 prev, held, asked, result, dangling>>

(* rotate_retired(): free the older generation, age the younger one.       *)
RotateRetired(t) ==
  /\ pc[t] = "rotate"
  /\ allocated' = allocated \ previous
  /\ dangling' = dangling \union {r \in Threads : Scanning(r) /\ held[r] \in previous}
  /\ previous' = current
  /\ current' = {}
  /\ pc' = [pc EXCEPT ![t] = "build"]
  /\ UNCHANGED <<snapshot, heap, mutex, newSnapshot, prev, call, held, asked,
                 result, begun>>

(* REGION_SNAPSHOT.load, clone, push or retain, Box::into_raw(Box::new()). *)
BuildSnapshot(t) ==
  /\ pc[t] = "build"
  /\ call[t].op = "register" \/ snapshot # Null
  /\ \E p \in Ptrs \ allocated :
       /\ allocated' = allocated \union {p}
       /\ heap' = [heap EXCEPT ![p] = NextRegions(call[t], RegionsAt(snapshot))]
       /\ newSnapshot' = p
  /\ pc' = [pc EXCEPT ![t] = "swap"]
  /\ UNCHANGED <<snapshot, previous, current, mutex, prev, call, handlerVars>>

(* unregister() on a registry that was never used: return, drop the guard. *)
NothingToUnregister(t) ==
  /\ pc[t] = "build"
  /\ call[t].op = "unregister" /\ snapshot = Null
  /\ mutex' = Null
  /\ call' = [call EXCEPT ![t] = Null]
  /\ pc' = [pc EXCEPT ![t] = "idle"]
  /\ UNCHANGED <<snapshot, heap, allocated, previous, current, newSnapshot,
                 prev, handlerVars>>

(* let prev = REGION_SNAPSHOT.swap(new_snapshot).                          *)
SwapSnapshot(t) ==
  /\ pc[t] = "swap"
  /\ prev' = snapshot
  /\ snapshot' = newSnapshot
  /\ newSnapshot' = Null
  /\ pc' = [pc EXCEPT ![t] = "retire"]
  /\ UNCHANGED <<heap, allocated, previous, current, mutex, call, handlerVars>>

(* tracker.current.push(prev) unless null, then the guard is dropped.      *)
RetirePrevious(t) ==
  /\ pc[t] = "retire"
  /\ current' = current \union ({prev} \ {Null})
  /\ prev' = Null
  /\ mutex' = Null
  /\ call' = [call EXCEPT ![t] = Null]
  /\ pc' = [pc EXCEPT ![t] = "idle"]
  /\ UNCHANGED <<snapshot, heap, allocated, previous, newSnapshot, handlerVars>>

-----------------------------------------------------------------------------
(* contains(), called by sigbus_handler on the faulting thread.            *)

(* The atomic load finds no snapshot: nothing is registered.               *)
LoadNull(t, a) ==
  /\ pc[t] = "idle"
  /\ snapshot = Null
  /\ result' = [result EXCEPT ![t] = [addr |-> a, hit |-> FALSE]]
  /\ UNCHANGED <<mutatorVars, pc, held, asked, begun, dangling>>

(* The atomic load of the snapshot pointer.                                *)
LoadSnapshot(t, a) ==
  /\ pc[t] = "idle"
  /\ snapshot # Null
  /\ held' = [held EXCEPT ![t] = snapshot]
  /\ asked' = [asked EXCEPT ![t] = a]
  /\ begun' = [begun EXCEPT ![t] = 0]
  /\ pc' = [pc EXCEPT ![t] = "scan"]
  /\ UNCHANGED <<mutatorVars, result, dangling>>

(* The scan and the return.  A scan of a freed box is undefined behaviour: *)
(* any reply.                                                              *)
ScanSnapshot(t) ==
  /\ pc[t] = "scan"
  /\ \E hit \in BOOLEAN :
       /\ t \notin dangling => hit = Covers(heap[held[t]], asked[t])
       /\ result' = [result EXCEPT ![t] = [addr |-> asked[t], hit |-> hit]]
  /\ held' = [held EXCEPT ![t] = Null]
  /\ asked' = [asked EXCEPT ![t] = Null]
  /\ begun' = [begun EXCEPT ![t] = 0]
  /\ dangling' = dangling \ {t}
  /\ pc' = [pc EXCEPT ![t] = "idle"]
  /\ UNCHANGED mutatorVars

-----------------------------------------------------------------------------
Mutate(t) ==
  \/ \E c \in Calls : Lock(t, c)
  \/ RotateRetired(t)
  \/ BuildSnapshot(t)
  \/ NothingToUnregister(t)
  \/ SwapSnapshot(t)
  \/ RetirePrevious(t)

Handle(t) ==
  \/ \E a \in Addrs : LoadNull(t, a)
  \/ \E a \in Addrs : LoadSnapshot(t, a)
  \/ ScanSnapshot(t)

Next == \E t \in Threads : Mutate(t) \/ Handle(t)

Spec == Init /\ [][Next]_vars

-----------------------------------------------------------------------------
TypeOK ==
  /\ snapshot \in Ptrs \union {Null}
  /\ heap \in [Ptrs -> SUBSET RegionSpace]
  /\ allocated \subseteq Ptrs
  /\ previous \subseteq Ptrs
  /\ current \subseteq Ptrs
  /\ mutex \in Threads \union {Null}
  /\ newSnapshot \in Ptrs \union {Null}
  /\ prev \in Ptrs \union {Null}
  /\ pc \in [Threads -> Locked \union {"idle", "scan"}]
  /\ call \in [Threads -> Calls \union {Null}]
  /\ held \in [Threads -> Ptrs \union {Null}]
  /\ asked \in [Threads -> Addrs \union {Null}]
  /\ result \in [Threads -> [addr : Addrs, hit : BOOLEAN] \union {Null}]
  /\ begun \in [Threads -> Nat]
  /\ dangling \subseteq Threads

(* Ownership: every box that is allocated is owned exactly once, as the    *)
(* published snapshot, as a mutator's local, or by one retired generation. *)
(* So register, unregister and rotate_retired never leak a snapshot, never *)
(* free one twice, and never free the published one.                       *)
OwnedOnce ==
  /\ allocated = ({snapshot, newSnapshot, prev} \ {Null}) \union previous \union current
  /\ previous \intersect current = {}
  /\ {snapshot, newSnapshot, prev} \intersect (previous \union current) = {}
  /\ snapshot # Null => snapshot # newSnapshot /\ snapshot # prev
  /\ newSnapshot # Null => newSnapshot # prev

(* Deferred reclamation keeps up: however mutations and handlers           *)
(* interleave, each generation of the RetiredTracker holds at most one     *)
(* snapshot, and the younger one is empty while a new snapshot is built.   *)
GarbageBounded ==
  /\ \A p, q \in previous : p = q
  /\ \A p, q \in current : p = q
  /\ prev # Null => current = {}

(* What two generations buy: a snapshot is freed under a handler's feet    *)
(* only if at least two mutations began after the handler loaded it.       *)
FreedAfterTwoBegun == \A t \in dangling : begun[t] >= 2

(* The handler never scans a freed snapshot (rotate_retired's comment:     *)
(* "ensuring no signal handler can still be reading it").  True while a    *)
(* handler is overtaken by at most one mutation, not beyond.               *)
NoDanglingScan == dangling = {}

(* The registry as an atomic set: a mutation takes effect at its swap, a   *)
(* question is answered at its load.                                       *)
RegionsBar == RegionsAt(snapshot)

AnswerBar ==
  [t \in Threads |->
     IF Scanning(t)
     THEN [addr |-> asked[t], hit |-> Covers(heap[held[t]], asked[t])]
     ELSE result[t]]

Abs == INSTANCE RegionSet
         WITH regions <- RegionsBar, answer <- AnswerBar, NoAnswer <- Null

(* Mutations and membership questions are linearizable: the registry       *)
(* implements the atomic set of RegionSet.                                 *)
ImplementsRegionSet == Abs!Spec
==============================================================================
