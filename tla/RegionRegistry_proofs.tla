------------------------ MODULE RegionRegistry_proofs ------------------------
(***************************************************************************)
(* What RegionRegistry's runs check on small instances, proved for any     *)
(* number of threads, boxes, regions and overlapping mutations.            *)
(*                                                                         *)
(* The argument: the mutex makes the tracker and the mutator's locals the  *)
(* business of one thread (MutexInv); hence boxes are owned once and each  *)
(* generation holds at most one (OwnedOnce, GarbageBounded); a box that a  *)
(* handler holds moves from snapshot over prev, current and previous to    *)
(* the free list, and passes a Lock before each of the last two moves      *)
(* (ReaderInv).                                                            *)
(***************************************************************************)
EXTENDS RegionRegistry, TLAPS

(* One thread at a time is between lock and unlock, and the locals and the *)
(* younger generation are what that thread's position says.                *)
MutexInv ==
  /\ \A t \in Threads : pc[t] \in Locked <=> mutex = t
  /\ \A t \in Threads : pc[t] \in Locked => call[t] \in Calls
  /\ newSnapshot # Null => \E t \in Threads : pc[t] = "swap"
  /\ \A t \in Threads : pc[t] = "swap" => newSnapshot # Null
  /\ prev # Null => \E t \in Threads : pc[t] = "retire"
  /\ \A t \in Threads : pc[t] \in {"build", "swap", "retire"} => current = {}

(* Some mutator holds the mutex and has not rotated yet.                   *)
Rotating == \E t \in Threads : pc[t] = "rotate"

(* Where the box of a scanning handler is, and how many mutations must     *)
(* have begun for it to get there.                                         *)
ReaderInv ==
  /\ \A r \in dangling : pc[r] = "scan" /\ begun[r] >= 2
  /\ \A r \in Threads : pc[r] = "scan" =>
       /\ held[r] \in Ptrs
       /\ asked[r] \in Addrs
       /\ r \notin dangling =>
            /\ held[r] \in {snapshot, prev} \union current \union previous
            /\ held[r] \in previous => begun[r] >= 1
            /\ Rotating /\ held[r] \in current => begun[r] >= 1
            /\ Rotating /\ held[r] \in previous => begun[r] >= 2

(* How far a handler may be overtaken.                                     *)
OverlapInv == \A r \in Threads : pc[r] = "scan" => begun[r] <= MaxOverlap

(* A snapshot that is about to be published holds what its call asks for.  *)
BuiltInv ==
  \A t \in Threads : pc[t] = "swap" =>
    heap[newSnapshot] = NextRegions(call[t], RegionsAt(snapshot))

IInv ==
  /\ TypeOK
  /\ MutexInv
  /\ OwnedOnce
  /\ GarbageBounded
  /\ ReaderInv
  /\ OverlapInv
  /\ BuiltInv

-----------------------------------------------------------------------------
(* The fields a register or unregister call carries.                       *)
LEMMA CallFields ==
  ASSUME NEW c \in Calls
  PROVE  /\ c.op \in {"register", "unregister"}
         /\ c.start \in Starts
         /\ c.op = "register" => c.len \in Lens
BY DEF Calls

(* push and retain keep a snapshot's vector within the possible regions.   *)
LEMMA NextRegionsType ==
  ASSUME NEW c \in Calls, NEW regions \in SUBSET RegionSpace
  PROVE  NextRegions(c, regions) \in SUBSET RegionSpace
<1>1. CASE c.op = "register"
  BY <1>1, CallFields DEF NextRegions, RegionSpace
<1>2. CASE c.op # "register"
  BY <1>2 DEF NextRegions, Retain
<1> QED BY <1>1, <1>2

(* The statics REGION_SNAPSHOT and REGION_MUTEX start out empty.           *)
LEMMA InitIInv == Init => IInv
<1> SUFFICES ASSUME Init PROVE IInv
  OBVIOUS
<1> USE RegistryAssumption DEF Init
<1>1. TypeOK BY DEF TypeOK
<1>2. MutexInv BY DEF MutexInv, Locked
<1>3. OwnedOnce /\ GarbageBounded BY DEF OwnedOnce, GarbageBounded
<1>4. ReaderInv /\ OverlapInv /\ BuiltInv BY DEF ReaderInv, OverlapInv, BuiltInv
<1> QED BY <1>1, <1>2, <1>3, <1>4 DEF IInv

(* Taking REGION_MUTEX counts one more mutation for every scanning         *)
(* handler.                                                                *)
LEMMA LockStep ==
  ASSUME IInv, NEW t \in Threads, NEW c \in Calls, Lock(t, c)
  PROVE  IInv'
<1> USE RegistryAssumption DEF IInv, Lock, mutatorVars, handlerVars
<1>1. TypeOK' BY DEF TypeOK, Locked
<1>2. MutexInv' BY DEF TypeOK, MutexInv, Locked
<1>3. OwnedOnce' BY DEF TypeOK, MutexInv, Locked, OwnedOnce
<1>4. GarbageBounded' BY DEF TypeOK, MutexInv, Locked, GarbageBounded
<1>5. ReaderInv'
  BY DEF TypeOK, MutexInv, Locked, OwnedOnce, ReaderInv, Rotating, Scanning
<1>6. OverlapInv' BY DEF TypeOK, OverlapInv, Scanning
<1>7. BuiltInv' BY DEF TypeOK, MutexInv, Locked, OwnedOnce, BuiltInv, RegionsAt
<1> QED BY <1>1, <1>2, <1>3, <1>4, <1>5, <1>6, <1>7

(* rotate_retired frees what nobody owns afterwards; a handler that still  *)
(* holds it has seen two mutations begin.                                  *)
LEMMA RotateRetiredStep ==
  ASSUME IInv, NEW t \in Threads, RotateRetired(t)
  PROVE  IInv'
<1> USE RegistryAssumption DEF IInv, RotateRetired, mutatorVars, handlerVars
<1>1. TypeOK' BY DEF TypeOK, Locked
<1>2. MutexInv' BY DEF TypeOK, MutexInv, Locked
<1>3. OwnedOnce' BY DEF TypeOK, MutexInv, Locked, OwnedOnce
<1>4. GarbageBounded' BY DEF TypeOK, MutexInv, Locked, GarbageBounded
<1>5. ReaderInv'
  BY DEF TypeOK, MutexInv, Locked, OwnedOnce, ReaderInv, Rotating, Scanning
<1>6. OverlapInv' BY DEF TypeOK, OverlapInv, Scanning
<1>7. BuiltInv' BY DEF TypeOK, MutexInv, Locked, OwnedOnce, BuiltInv, RegionsAt
<1> QED BY <1>1, <1>2, <1>3, <1>4, <1>5, <1>6, <1>7

(* Box::new returns a box that is in nobody's hands.                       *)
LEMMA BuildSnapshotStep ==
  ASSUME IInv, NEW t \in Threads, BuildSnapshot(t)
  PROVE  IInv'
<1> USE RegistryAssumption DEF IInv, BuildSnapshot, mutatorVars, handlerVars
<1>0. NextRegions(call[t], RegionsAt(snapshot)) \in SUBSET RegionSpace
  <2>1. call[t] \in Calls BY DEF MutexInv, Locked
  <2>2. RegionsAt(snapshot) \in SUBSET RegionSpace BY DEF TypeOK, RegionsAt
  <2> QED BY <2>1, <2>2, NextRegionsType
<1>1. TypeOK' BY <1>0 DEF TypeOK, Locked
<1>2. MutexInv' BY DEF TypeOK, MutexInv, Locked
<1>3. OwnedOnce' BY DEF TypeOK, MutexInv, Locked, OwnedOnce
<1>4. GarbageBounded' BY DEF TypeOK, MutexInv, Locked, GarbageBounded
<1>5. ReaderInv'
  BY DEF TypeOK, MutexInv, Locked, OwnedOnce, ReaderInv, Rotating, Scanning
<1>6. OverlapInv' BY DEF TypeOK, OverlapInv, Scanning
<1>7. BuiltInv' BY DEF TypeOK, MutexInv, Locked, OwnedOnce, BuiltInv, RegionsAt
<1> QED BY <1>1, <1>2, <1>3, <1>4, <1>5, <1>6, <1>7

(* unregister on an unused registry changes nothing but the mutex.         *)
LEMMA NothingToUnregisterStep ==
  ASSUME IInv, NEW t \in Threads, NothingToUnregister(t)
  PROVE  IInv'
<1> USE RegistryAssumption DEF IInv, NothingToUnregister, mutatorVars, handlerVars
<1>1. TypeOK' BY DEF TypeOK, Locked
<1>2. MutexInv' BY DEF TypeOK, MutexInv, Locked
<1>3. OwnedOnce' BY DEF TypeOK, MutexInv, Locked, OwnedOnce
<1>4. GarbageBounded' BY DEF TypeOK, MutexInv, Locked, GarbageBounded
<1>5. ReaderInv'
  BY DEF TypeOK, MutexInv, Locked, OwnedOnce, ReaderInv, Rotating, Scanning
<1>6. OverlapInv' BY DEF TypeOK, OverlapInv, Scanning
<1>7. BuiltInv' BY DEF TypeOK, MutexInv, Locked, OwnedOnce, BuiltInv, RegionsAt
<1> QED BY <1>1, <1>2, <1>3, <1>4, <1>5, <1>6, <1>7

(* The swap hands the published box to the mutator's local prev.           *)
LEMMA SwapSnapshotStep ==
  ASSUME IInv, NEW t \in Threads, SwapSnapshot(t)
  PROVE  IInv'
<1> USE RegistryAssumption DEF IInv, SwapSnapshot, mutatorVars, handlerVars
<1>1. TypeOK' BY DEF TypeOK, Locked
<1>2. MutexInv' BY DEF TypeOK, MutexInv, Locked
<1>3. OwnedOnce' BY DEF TypeOK, MutexInv, Locked, OwnedOnce
<1>4. GarbageBounded' BY DEF TypeOK, MutexInv, Locked, GarbageBounded
<1>5. ReaderInv'
  BY DEF TypeOK, MutexInv, Locked, OwnedOnce, ReaderInv, Rotating, Scanning
<1>6. OverlapInv' BY DEF TypeOK, OverlapInv, Scanning
<1>7. BuiltInv' BY DEF TypeOK, MutexInv, Locked, OwnedOnce, BuiltInv, RegionsAt
<1> QED BY <1>1, <1>2, <1>3, <1>4, <1>5, <1>6, <1>7

(* prev enters the younger generation, which is empty at that point.       *)
LEMMA RetirePreviousStep ==
  ASSUME IInv, NEW t \in Threads, RetirePrevious(t)
  PROVE  IInv'
<1> USE RegistryAssumption DEF IInv, RetirePrevious, mutatorVars, handlerVars
<1>1. TypeOK' BY DEF TypeOK, Locked
<1>2. MutexInv' BY DEF TypeOK, MutexInv, Locked
<1>3. OwnedOnce' BY DEF TypeOK, MutexInv, Locked, OwnedOnce
<1>4. GarbageBounded' BY DEF TypeOK, MutexInv, Locked, GarbageBounded
<1>5. ReaderInv'
  BY DEF TypeOK, MutexInv, Locked, OwnedOnce, ReaderInv, Rotating, Scanning
<1>6. OverlapInv' BY DEF TypeOK, OverlapInv, Scanning
<1>7. BuiltInv' BY DEF TypeOK, MutexInv, Locked, OwnedOnce, BuiltInv, RegionsAt
<1> QED BY <1>1, <1>2, <1>3, <1>4, <1>5, <1>6, <1>7

(* contains() on an unused registry.                                       *)
LEMMA LoadNullStep ==
  ASSUME IInv, NEW t \in Threads, NEW a \in Addrs, LoadNull(t, a)
  PROVE  IInv'
<1> USE RegistryAssumption DEF IInv, LoadNull, mutatorVars, handlerVars
<1>1. TypeOK' BY DEF TypeOK, Locked
<1>2. MutexInv' BY DEF TypeOK, MutexInv, Locked
<1>3. OwnedOnce' BY DEF TypeOK, MutexInv, Locked, OwnedOnce
<1>4. GarbageBounded' BY DEF TypeOK, MutexInv, Locked, GarbageBounded
<1>5. ReaderInv'
  BY DEF TypeOK, MutexInv, Locked, OwnedOnce, ReaderInv, Rotating, Scanning
<1>6. OverlapInv' BY DEF TypeOK, OverlapInv, Scanning
<1>7. BuiltInv' BY DEF TypeOK, MutexInv, Locked, OwnedOnce, BuiltInv, RegionsAt
<1> QED BY <1>1, <1>2, <1>3, <1>4, <1>5, <1>6, <1>7

(* contains() loads a box that has not been retired yet.                   *)
LEMMA LoadSnapshotStep ==
  ASSUME IInv, NEW t \in Threads, NEW a \in Addrs, LoadSnapshot(t, a)
  PROVE  IInv'
<1> USE RegistryAssumption DEF IInv, LoadSnapshot, mutatorVars, handlerVars
<1>1. TypeOK' BY DEF TypeOK, Locked
<1>2. MutexInv' BY DEF TypeOK, MutexInv, Locked
<1>3. OwnedOnce' BY DEF TypeOK, MutexInv, Locked, OwnedOnce
<1>4. GarbageBounded' BY DEF TypeOK, MutexInv, Locked, GarbageBounded
<1>5. ReaderInv'
  BY DEF TypeOK, MutexInv, Locked, OwnedOnce, ReaderInv, Rotating, Scanning
<1>6. OverlapInv' BY DEF TypeOK, OverlapInv, Scanning
<1>7. BuiltInv' BY DEF TypeOK, MutexInv, Locked, OwnedOnce, BuiltInv, RegionsAt
<1> QED BY <1>1, <1>2, <1>3, <1>4, <1>5, <1>6, <1>7

(* contains() returns and lets go of its box.                              *)
LEMMA ScanSnapshotStep ==
  ASSUME IInv, NEW t \in Threads, ScanSnapshot(t)
  PROVE  IInv'
<1> USE RegistryAssumption DEF IInv, ScanSnapshot, mutatorVars, handlerVars
<1>1. TypeOK' BY DEF TypeOK, Locked, ReaderInv
<1>2. MutexInv' BY DEF TypeOK, MutexInv, Locked
<1>3. OwnedOnce' BY DEF TypeOK, MutexInv, Locked, OwnedOnce
<1>4. GarbageBounded' BY DEF TypeOK, MutexInv, Locked, GarbageBounded
<1>5. ReaderInv'
  BY DEF TypeOK, MutexInv, Locked, OwnedOnce, ReaderInv, Rotating, Scanning
<1>6. OverlapInv' BY DEF TypeOK, OverlapInv, Scanning
<1>7. BuiltInv' BY DEF TypeOK, MutexInv, Locked, OwnedOnce, BuiltInv, RegionsAt
<1> QED BY <1>1, <1>2, <1>3, <1>4, <1>5, <1>6, <1>7

(* A step of the rest of the program.                                      *)
LEMMA StutterStep ==
  ASSUME IInv, UNCHANGED vars
  PROVE  IInv'
BY DEF IInv, vars, mutatorVars, handlerVars, TypeOK, MutexInv, OwnedOnce,
       GarbageBounded, ReaderInv, Rotating, OverlapInv, BuiltInv, RegionsAt

(* Every step of the registry preserves the invariant.                     *)
LEMMA NextStep ==
  ASSUME IInv, [Next]_vars
  PROVE  IInv'
<1>1. ASSUME NEW t \in Threads, Mutate(t) PROVE IInv'
  BY <1>1, LockStep, RotateRetiredStep, BuildSnapshotStep, NothingToUnregisterStep,
     SwapSnapshotStep, RetirePreviousStep DEF Mutate
<1>2. ASSUME NEW t \in Threads, Handle(t) PROVE IInv'
  BY <1>2, LoadNullStep, LoadSnapshotStep, ScanSnapshotStep DEF Handle
<1> QED BY <1>1, <1>2, StutterStep DEF Next

(* The inductive invariant holds in every reachable state of the registry. *)
THEOREM Inductive == Spec => []IInv
<1>1. IInv /\ [Next]_vars => IInv' BY NextStep
<1> QED BY InitIInv, <1>1, PTL DEF Spec

-----------------------------------------------------------------------------
(* The registry is type correct.                                           *)
THEOREM TypeCorrect == Spec => []TypeOK
<1>1. IInv => TypeOK BY DEF IInv
<1> QED BY Inductive, <1>1, PTL

(* register, unregister and rotate_retired never leak a snapshot, never    *)
(* free one twice and never free the published one.                        *)
THEOREM Ownership == Spec => []OwnedOnce
<1>1. IInv => OwnedOnce BY DEF IInv
<1> QED BY Inductive, <1>1, PTL

(* Each generation of the RetiredTracker holds at most one snapshot.       *)
THEOREM GarbageIsBounded == Spec => []GarbageBounded
<1>1. IInv => GarbageBounded BY DEF IInv
<1> QED BY Inductive, <1>1, PTL

(* rotate_retired frees a snapshot under a scanning handler only after two *)
(* mutations have begun since the handler's load, however many overtake.   *)
THEOREM TwoGenerations == Spec => []FreedAfterTwoBegun
<1>1. IInv => FreedAfterTwoBegun BY DEF IInv, ReaderInv, FreedAfterTwoBegun
<1> QED BY Inductive, <1>1, PTL

(* A handler that is overtaken by at most one mutation never scans a freed *)
(* snapshot: the assumption rotate_retired's safety argument needs.        *)
THEOREM PromptHandlerIsSafe ==
  ASSUME MaxOverlap <= 1
  PROVE  Spec => []NoDanglingScan
<1>1. ASSUME IInv PROVE NoDanglingScan
  <2>1. SUFFICES ASSUME NEW r \in dangling PROVE FALSE
    BY DEF NoDanglingScan
  <2>2. r \in Threads /\ begun[r] \in Nat BY <1>1 DEF IInv, TypeOK
  <2>3. begun[r] >= 2 /\ begun[r] <= MaxOverlap
    BY <1>1, <2>2 DEF IInv, ReaderInv, OverlapInv
  <2> QED BY <2>2, <2>3, RegistryAssumption
<1> QED BY Inductive, <1>1, PTL

-----------------------------------------------------------------------------
(* Refinement.  Only LoadNull, LoadSnapshot and SwapSnapshot change what   *)
(* RegionSet sees.                                                         *)

(* A step that changes neither image is a stutter of RegionSet.            *)
LEMMA AbsUnchanged ==
  ASSUME RegionsBar' = RegionsBar, AnswerBar' = AnswerBar
  PROVE  UNCHANGED Abs!vars
BY DEF Abs!vars

(* Before and after its swap a mutation does not show in the published     *)
(* snapshot, not even where it builds the next one in a freed box.         *)
LEMMA RegionsKept ==
  ASSUME IInv, NEW t \in Threads,
         \/ \E c \in Calls : Lock(t, c)
         \/ RotateRetired(t) \/ BuildSnapshot(t)
         \/ NothingToUnregister(t) \/ RetirePrevious(t)
  PROVE  RegionsBar' = RegionsBar
<1>1. CASE BuildSnapshot(t)
  <2>1. \A q \in allocated : heap'[q] = heap[q]
    BY <1>1 DEF BuildSnapshot, IInv, TypeOK
  <2>2. snapshot # Null => snapshot \in allocated BY DEF IInv, OwnedOnce
  <2> QED BY <1>1, <2>1, <2>2 DEF BuildSnapshot, RegionsBar, RegionsAt
<1>2. CASE ~BuildSnapshot(t)
  BY <1>2 DEF Lock, RotateRetired, NothingToUnregister, RetirePrevious,
              RegionsBar, RegionsAt
<1> QED BY <1>1, <1>2

(* The swap publishes what the call asks for.                              *)
LEMMA RegionsSwapped ==
  ASSUME IInv, NEW t \in Threads, SwapSnapshot(t)
  PROVE  RegionsBar' = NextRegions(call[t], RegionsBar)
BY DEF IInv, SwapSnapshot, MutexInv, BuiltInv, RegionsBar, RegionsAt

(* No step of a mutation changes the answer a prompt handler will give.    *)
LEMMA AnswersKept ==
  ASSUME IInv, NoDanglingScan, NEW t \in Threads, Mutate(t)
  PROVE  AnswerBar' = AnswerBar
<1> USE DEF IInv, mutatorVars, handlerVars
<1>1. \A r \in Threads : Scanning(r)' <=> Scanning(r)
  BY DEF Mutate, Lock, RotateRetired, BuildSnapshot, NothingToUnregister,
         SwapSnapshot, RetirePrevious, Scanning, TypeOK
<1>2. CASE BuildSnapshot(t)
  <2>1. \A q \in allocated : heap'[q] = heap[q] BY <1>2 DEF BuildSnapshot, TypeOK
  <2>2. \A r \in Threads : Scanning(r) => held[r] \in allocated
    BY RegistryAssumption DEF Scanning, ReaderInv, OwnedOnce, NoDanglingScan
  <2> QED BY <1>1, <1>2, <2>1, <2>2 DEF BuildSnapshot, AnswerBar
<1>3. CASE ~BuildSnapshot(t)
  BY <1>1, <1>3 DEF Mutate, Lock, RotateRetired, NothingToUnregister, SwapSnapshot,
                    RetirePrevious, AnswerBar
<1> QED BY <1>2, <1>3

(* The load of contains() settles its answer, from what is published then. *)
LEMMA LoadAnswers ==
  ASSUME IInv, NEW t \in Threads, NEW a \in Addrs, LoadNull(t, a) \/ LoadSnapshot(t, a)
  PROVE  /\ RegionsBar' = RegionsBar
         /\ AnswerBar' = [AnswerBar EXCEPT ![t] =
                             [addr |-> a, hit |-> Covers(RegionsBar, a)]]
<1> USE RegistryAssumption DEF IInv, mutatorVars
<1>1. CASE LoadNull(t, a)
  <2>1. RegionsBar' = RegionsBar BY <1>1 DEF LoadNull, RegionsBar, RegionsAt
  <2>2. Covers(RegionsBar, a) = FALSE
    BY <1>1 DEF LoadNull, RegionsBar, RegionsAt, Covers
  <2>3. AnswerBar' = [AnswerBar EXCEPT ![t] = [addr |-> a, hit |-> FALSE]]
    BY <1>1 DEF LoadNull, AnswerBar, Scanning, TypeOK
  <2> QED BY <2>1, <2>2, <2>3
<1>2. CASE LoadSnapshot(t, a)
  <2>1. RegionsBar' = RegionsBar BY <1>2 DEF LoadSnapshot, RegionsBar, RegionsAt
  <2>2. RegionsBar = heap[snapshot] BY <1>2 DEF LoadSnapshot, RegionsBar, RegionsAt
  <2>3. AnswerBar' = [AnswerBar EXCEPT ![t] =
                        [addr |-> a, hit |-> Covers(heap[snapshot], a)]]
    BY <1>2 DEF LoadSnapshot, AnswerBar, Scanning, TypeOK
  <2> QED BY <2>1, <2>2, <2>3
<1> QED BY <1>1, <1>2

(* The scan only hands the answer out.                                     *)
LEMMA ScanAnswers ==
  ASSUME IInv, NEW t \in Threads, ScanSnapshot(t)
  PROVE  /\ RegionsBar' = RegionsBar
         /\ NoDanglingScan => AnswerBar' = AnswerBar
<1> USE DEF IInv, mutatorVars
<1>1. RegionsBar' = RegionsBar BY DEF ScanSnapshot, RegionsBar, RegionsAt
<1>2. ASSUME NoDanglingScan PROVE AnswerBar' = AnswerBar
  <2>1. result' = [result EXCEPT ![t] =
                     [addr |-> asked[t], hit |-> Covers(heap[held[t]], asked[t])]]
    BY <1>2 DEF ScanSnapshot, NoDanglingScan
  <2> QED BY <2>1 DEF ScanSnapshot, AnswerBar, Scanning, TypeOK
<1> QED BY <1>1, <1>2

(* A mutator's swap is a step of RegionSet, its other steps are stutters.  *)
LEMMA MutateRefines ==
  ASSUME IInv, NoDanglingScan, NEW t \in Threads, Mutate(t)
  PROVE  [Abs!Next]_(Abs!vars)
<1>1. CASE SwapSnapshot(t)
  <2>1. AnswerBar' = AnswerBar BY AnswersKept
  <2>2. call[t] \in Calls BY <1>1 DEF SwapSnapshot, IInv, MutexInv, Locked
  <2>3. RegionsBar' = NextRegions(call[t], RegionsBar) BY <1>1, RegionsSwapped
  <2>4. CASE call[t].op = "register"
    <3>1. Abs!Register(call[t].start, call[t].len)
      BY <2>1, <2>3, <2>4
         DEF Abs!Register, NextRegions, Abs!RegisteredRegion, RegisteredRegion
    <3> QED BY <2>2, <2>4, <3>1, CallFields DEF Abs!Next
  <2>5. CASE call[t].op # "register"
    <3>1. Abs!Unregister(call[t].start)
      BY <2>1, <2>3, <2>5 DEF Abs!Unregister, NextRegions, Abs!Retain, Retain
    <3> QED BY <2>2, <3>1, CallFields DEF Abs!Next
  <2> QED BY <2>4, <2>5
<1>2. CASE ~SwapSnapshot(t)
  <2>1. RegionsBar' = RegionsBar BY <1>2, RegionsKept DEF Mutate
  <2> QED BY <2>1, AnswersKept, AbsUnchanged
<1> QED BY <1>1, <1>2

(* A handler's load is a step of RegionSet, its scan is a stutter.         *)
LEMMA HandleRefines ==
  ASSUME IInv, NoDanglingScan, NEW t \in Threads, Handle(t)
  PROVE  [Abs!Next]_(Abs!vars)
<1>1. ASSUME NEW a \in Addrs, LoadNull(t, a) \/ LoadSnapshot(t, a) PROVE Abs!Next
  <2>1. Abs!Contains(t, a) BY <1>1, LoadAnswers DEF Abs!Contains, Abs!Covers, Covers
  <2> QED BY <2>1 DEF Abs!Next
<1>2. CASE ScanSnapshot(t) BY <1>2, ScanAnswers, AbsUnchanged
<1> QED BY <1>1, <1>2 DEF Handle

(* Every step of the registry is a step of RegionSet or a stutter.         *)
LEMMA NextRefines ==
  ASSUME IInv, NoDanglingScan, [Next]_vars
  PROVE  [Abs!Next]_(Abs!vars)
<1>1. ASSUME UNCHANGED vars PROVE UNCHANGED Abs!vars
  <2>1. RegionsBar' = RegionsBar
    BY <1>1 DEF vars, mutatorVars, RegionsBar, RegionsAt
  <2>2. AnswerBar' = AnswerBar
    BY <1>1 DEF vars, mutatorVars, handlerVars, AnswerBar, Scanning
  <2> QED BY <2>1, <2>2, AbsUnchanged
<1> QED BY <1>1, MutateRefines, HandleRefines DEF Next

(* Under the same assumption the registry implements the atomic set: every *)
(* mutation and every membership question takes effect in one step.        *)
THEOREM Refinement ==
  ASSUME MaxOverlap <= 1
  PROVE  Spec => ImplementsRegionSet
<1>1. Init => Abs!Init
  BY RegistryAssumption
     DEF Init, Abs!Init, RegionsBar, RegionsAt, AnswerBar, Scanning
<1>2. IInv /\ NoDanglingScan /\ [Next]_vars => [Abs!Next]_(Abs!vars)
  BY NextRefines
<1> QED
  BY Inductive, PromptHandlerIsSafe, <1>1, <1>2, PTL
     DEF Spec, ImplementsRegionSet, Abs!Spec
==============================================================================
