-------------------------- MODULE LiveFaults_proofs --------------------------
(***************************************************************************)
(* The composition of registry and life cycle, from the proofs of its      *)
(* parts.                                                                  *)
(*                                                                         *)
(* The argument: the mutex lets one value at a time be registered or       *)
(* unregistered, with the call its stage asks for (DriveInv).  So every    *)
(* step is a step or a stutter of RegionRegistry, whose swap publishes     *)
(* exactly what Lifecycle's one-step update says, and every step is a step *)
(* or a stutter of Lifecycle as well.  Each part then brings its own       *)
(* inductive invariant, and the two together are all the verdict needs:    *)
(* the answer is settled at the load, from the regions of the live values. *)
(***************************************************************************)
EXTENDS LiveFaults, RegionRegistry_proofs

(* Lifecycle with its theorems, under the substitution of Life.            *)
LifeP == INSTANCE Lifecycle_proofs
           WITH Lens <- OptionLens, None <- Null, registered <- RegionsBar

(* The call of thread t is what v needs at its stage.                      *)
Serves(t, v) ==
  \/ /\ call[t] = RegisterCall(v)
     /\ stage[v] = IF pc[t] = "retire" THEN "live" ELSE "mapped"
  \/ /\ call[t] = UnregisterCall(v)
     /\ stage[v] = IF pc[t] = "retire" THEN "unregistered" ELSE "live"

(* A thread between lock and unlock works for a value, and only then.      *)
DriveInv ==
  /\ local \in [Threads -> Values \union {Null}]
  /\ about \in [Threads -> Values \union {Null}]
  /\ \A t \in Threads : pc[t] \in Locked <=> local[t] # Null
  /\ \A t \in Threads : local[t] # Null => Serves(t, local[t])

(* The lengths open computes are lengths the registry may be given.        *)
LensInv == \A v \in Values : map_len[v] \in Lens \union {Null}

JInv ==
  /\ IInv
  /\ LifeP!IInv
  /\ DriveInv
  /\ LensInv

-----------------------------------------------------------------------------
(* Life and LifeP are the same specification: they begin alike ...         *)
LEMMA SameInit == Life!Init => LifeP!Init
BY DEF Life!Init, LifeP!Init

(* ... and step alike.                                                     *)
LEMMA SameStep == [Life!Next]_(Life!vars) => [LifeP!Next]_(LifeP!vars)
<1> USE DEF Life!Goto, LifeP!Goto, Life!CloseFile, LifeP!CloseFile, Life!Fail, LifeP!Fail,
            Life!StartOf, LifeP!StartOf
<1>1. ASSUME NEW v \in Values, Life!Open(v) PROVE LifeP!Open(v)
  <2>1. ASSUME NEW o \in Life!Options, Life!OpenFile(v, o)
        PROVE  \E x \in LifeP!Options : LifeP!OpenFile(v, x)
    BY <2>1 DEF Life!OpenFile, LifeP!OpenFile, Life!Options, LifeP!Options
  <2>2. Life!Flock(v) => LifeP!Flock(v)
    BY DEF Life!Flock, LifeP!Flock, Life!LockConflict, LifeP!LockConflict
  <2>3. Life!Measure(v) => LifeP!Measure(v)
    BY DEF Life!Measure, LifeP!Measure, Life!Usable, LifeP!Usable
  <2>4. Life!Map(v) => LifeP!Map(v)
    BY DEF Life!Map, LifeP!Map, Life!RawOptions, LifeP!RawOptions,
           Life!PageSpan, LifeP!PageSpan
  <2>5. Life!RegisterRegion(v) => LifeP!RegisterRegion(v)
    BY DEF Life!RegisterRegion, LifeP!RegisterRegion,
           Life!RegisteredRegion, LifeP!RegisteredRegion
  <2> QED BY <1>1, <2>1, <2>2, <2>3, <2>4, <2>5 DEF Life!Open, LifeP!Open
<1>2. ASSUME NEW v \in Values, Life!Drop(v) PROVE LifeP!Drop(v)
  BY <1>2 DEF Life!Drop, LifeP!Drop, Life!UnregisterRegion, LifeP!UnregisterRegion,
              Life!Munmap, LifeP!Munmap, Life!Retain, LifeP!Retain
<1>3. ASSUME NEW f \in Files, NEW n \in FileLens, Life!Resize(f, n)
      PROVE  LifeP!Resize(f, n)
  BY <1>3 DEF Life!Resize, LifeP!Resize
<1>4. UNCHANGED Life!vars => UNCHANGED LifeP!vars BY DEF Life!vars, LifeP!vars
<1> QED BY <1>1, <1>2, <1>3, <1>4 DEF Life!Next, LifeP!Next

-----------------------------------------------------------------------------
(* Nothing is claimed, opened or registered at the beginning.              *)
LEMMA StartJInv == StartAll => JInv
<1> SUFFICES ASSUME StartAll PROVE JInv
  OBVIOUS
<1>1. IInv BY InitIInv DEF StartAll
<1>2. LifeP!IInv BY LiveFaultsAssumption, SameInit, LifeP!InitIInv DEF StartAll
<1>3. DriveInv BY DEF StartAll, Init, DriveInv, Locked
<1>4. LensInv BY DEF StartAll, Life!Init, LensInv
<1> QED BY <1>1, <1>2, <1>3, <1>4 DEF JInv

(* What open and drop pass to the registry is a call it knows.             *)
LEMMA CallsKnown ==
  ASSUME JInv, NEW v \in Values, stage[v] \in {"mapped", "live"}
  PROVE  RegisterCall(v) \in Calls /\ UnregisterCall(v) \in Calls
<1>1. base[v] \in Pages /\ map_len[v] \in Nat
  BY DEF JInv, LifeP!IInv, LifeP!StageInv, LifeP!Mapped
<1>2. Life!StartOf(v) \in Starts BY <1>1, LiveFaultsAssumption DEF Life!StartOf
<1>3. map_len[v] \in Lens BY <1>1, LiveFaultsAssumption DEF JInv, LensInv
<1> QED BY <1>2, <1>3 DEF RegisterCall, UnregisterCall, Calls

(* Every step is a step of the registry or leaves it alone.                *)
LEMMA RegistryStep ==
  ASSUME JInv, [NextAll]_allVars
  PROVE  [Next]_vars
<1>1. ASSUME NEW t \in Threads, ThreadStep(t) PROVE Next
  <2>1. ASSUME NEW v \in Values, BeginRegister(t, v) PROVE Mutate(t)
    BY <2>1, CallsKnown DEF BeginRegister, Mutate
  <2>2. ASSUME NEW v \in Values, BeginDrop(t, v) PROVE Mutate(t)
    BY <2>2, CallsKnown DEF BeginDrop, Mutate
  <2>3. Mutating(t) \/ Finish(t) => Mutate(t) BY DEF Mutating, Finish, Mutate
  <2>4. ASSUME NEW a \in Addrs, Ask(t, a) PROVE Handle(t)
    BY <2>4 DEF Ask, Handle
  <2>5. Answer(t) => Handle(t) BY DEF Answer, Handle
  <2>6. Mutate(t) \/ Handle(t)
    BY <1>1, <2>1, <2>2, <2>3, <2>4, <2>5 DEF ThreadStep, FaultInValue, FaultElsewhere
  <2> QED BY <2>6 DEF Next
<1>2. ASSUME NEW v \in Values, OpenOrClose(v) PROVE UNCHANGED vars
  BY <1>2 DEF OpenOrClose, vars
<1>3. ASSUME NEW f \in Files, NEW n \in FileLens, Resize(f, n) PROVE UNCHANGED vars
  BY <1>3 DEF Resize, vars
<1>4. UNCHANGED allVars => UNCHANGED vars BY DEF allVars, vars
<1> QED BY <1>1, <1>2, <1>3, <1>4 DEF NextAll

(* The work of the mutator, as Lifecycle sees it: one step at the swap.    *)
LEMMA MutatorLife ==
  ASSUME JInv, NEW t \in Threads, Mutating(t) \/ Finish(t)
  PROVE  [Life!Next]_(Life!vars)
<1> DEFINE v == local[t]
<1>1. /\ pc[t] \in Locked /\ v \in Values /\ Serves(t, v)
      /\ stage \in [Values -> Life!Stages]
  <2>1. pc[t] \in Locked
    BY DEF Mutating, Finish, RotateRetired, BuildSnapshot, SwapSnapshot, RetirePrevious,
           NothingToUnregister, Locked
  <2>2. local[t] # Null /\ local[t] \in Values BY <2>1 DEF JInv, DriveInv
  <2>3. stage \in [Values -> Life!Stages]
    BY DEF JInv, LifeP!IInv, LifeP!TypeOK, Life!Stages, LifeP!Stages
  <2> QED BY <2>1, <2>2, <2>3 DEF JInv, DriveInv
<1>2. RegisterCall(v).op = "register" /\ UnregisterCall(v).op = "unregister"
  BY DEF RegisterCall, UnregisterCall
<1>3. CASE /\ RotateRetired(t) \/ BuildSnapshot(t)
           /\ UNCHANGED <<lifeVars>>
  BY <1>3, RegionsKept DEF JInv, Life!vars, lifeVars
<1>4. CASE SwapSnapshot(t) /\ Mutating(t)
  <2>1. RegionsBar' = NextRegions(call[t], RegionsBar)
    BY <1>4, RegionsSwapped DEF JInv
  <2>2. stage' = Settled(t) /\ UNCHANGED <<file_len, options, flocked, map_len, base, pageOwner>>
    BY <1>4 DEF Mutating, SwapSnapshot, RotateRetired, BuildSnapshot
  <2>3. pc[t] # "retire" BY <1>4 DEF SwapSnapshot
  <2>4. CASE call[t] = RegisterCall(v) /\ stage[v] = "mapped"
    <3>1. Life!RegisterRegion(v)
      BY <1>2, <2>1, <2>2, <2>4
         DEF Life!RegisterRegion, Life!Goto, Settled, NextRegions, RegisterCall,
             Life!RegisteredRegion, RegisteredRegion
    <3> QED BY <1>1, <3>1 DEF Life!Next, Life!Open
  <2>5. CASE call[t] = UnregisterCall(v) /\ stage[v] = "live"
    <3>1. Life!UnregisterRegion(v, "live", "unregistered")
      BY <1>2, <2>1, <2>2, <2>5
         DEF Life!UnregisterRegion, Life!Goto, Settled, NextRegions, UnregisterCall,
             Life!Retain, Retain
    <3> QED BY <1>1, <3>1 DEF Life!Next, Life!Drop
  <2> QED BY <1>1, <2>3, <2>4, <2>5 DEF Serves
<1>5. CASE RetirePrevious(t) /\ Finish(t)
  <2>1. RegionsBar' = RegionsBar BY <1>5, RegionsKept DEF JInv
  <2>2. pc[t] = "retire" BY <1>5 DEF RetirePrevious
  <2>3. stage' = stage BY <1>1, <1>2, <1>5, <2>2 DEF Finish, Settled, Serves
  <2> QED BY <1>5, <2>1, <2>3 DEF Finish, Life!vars
<1>6. CASE NothingToUnregister(t) /\ Finish(t)
  <2>1. RegionsBar' = RegionsBar BY <1>6, RegionsKept DEF JInv
  <2>2. call[t] = UnregisterCall(v) /\ stage[v] = "live"
    BY <1>1, <1>2, <1>6 DEF NothingToUnregister, Serves
  <2>3. RegionsBar = {} BY <1>6 DEF NothingToUnregister, RegionsBar, RegionsAt
  <2>4. Life!UnregisterRegion(v, "live", "unregistered")
    BY <1>2, <1>6, <2>1, <2>2, <2>3
       DEF Finish, Settled, Life!UnregisterRegion, Life!Goto, Life!Retain
  <2> QED BY <1>1, <2>4 DEF Life!Next, Life!Drop
<1> QED BY <1>3, <1>4, <1>5, <1>6 DEF Mutating, Finish, lifeVars

(* Every step is a step of Lifecycle or leaves it alone.                   *)
LEMMA LifeStep ==
  ASSUME JInv, [NextAll]_allVars
  PROVE  [Life!Next]_(Life!vars)
<1>1. ASSUME NEW v \in Values, OpenOrClose(v) PROVE Life!Next
  BY <1>1 DEF OpenOrClose, Life!Next, Life!Open, Life!Drop
<1>2. ASSUME NEW f \in Files, NEW n \in FileLens, Resize(f, n) PROVE Life!Next
  BY <1>2 DEF Resize, Life!Next
<1>3. ASSUME NEW t \in Threads, ThreadStep(t) PROVE [Life!Next]_(Life!vars)
  <2>1. ASSUME NEW v \in Values, BeginRegister(t, v) PROVE UNCHANGED Life!vars
    <3>1. \E c \in Calls : Lock(t, c) BY <2>1, CallsKnown DEF BeginRegister
    <3> QED BY <2>1, <3>1, RegionsKept DEF JInv, BeginRegister, lifeVars, Life!vars
  <2>2. ASSUME NEW v \in Values, BeginDrop(t, v) PROVE UNCHANGED Life!vars
    <3>1. \E c \in Calls : Lock(t, c) BY <2>2, CallsKnown DEF BeginDrop
    <3> QED BY <2>2, <3>1, RegionsKept DEF JInv, BeginDrop, lifeVars, Life!vars
  <2>3. ASSUME NEW a \in Addrs, Ask(t, a), UNCHANGED lifeVars PROVE UNCHANGED Life!vars
    BY <2>3, LoadAnswers DEF JInv, Ask, lifeVars, Life!vars
  <2>4. Answer(t) => UNCHANGED Life!vars
    BY ScanAnswers DEF JInv, Answer, lifeVars, Life!vars
  <2> QED BY <1>3, <2>1, <2>2, <2>3, <2>4, MutatorLife
          DEF ThreadStep, FaultInValue, FaultElsewhere
<1>4. UNCHANGED allVars => UNCHANGED Life!vars
  BY DEF allVars, lifeVars, vars, mutatorVars, Life!vars, RegionsBar, RegionsAt
<1> QED BY <1>1, <1>2, <1>3, <1>4 DEF NextAll

(* What a step of open or drop of one value leaves to the others.          *)
LEMMA OthersKept ==
  ASSUME NEW v \in Values, OpenOrClose(v), NEW u \in Values, u # v,
         LifeP!TypeOK
  PROVE  stage'[u] = stage[u] /\ base'[u] = base[u] /\ map_len'[u] = map_len[u]
BY DEF OpenOrClose, Life!OpenFile, Life!Flock, Life!Measure, Life!Map, Life!Munmap,
       Life!CloseFile, Life!Fail, Life!Goto, LifeP!TypeOK

(* Nobody else works for a value while a thread holds the mutex, and       *)
(* nobody at all while it is free.                                         *)
LEMMA OneWorker ==
  ASSUME JInv
  PROVE  /\ \A t, u \in Threads : pc[t] \in Locked /\ u # t => local[u] = Null
         /\ mutex = Null => \A t \in Threads : local[t] = Null
BY RegistryAssumption DEF JInv, IInv, MutexInv, DriveInv

(* Every thread that holds the mutex goes on to serve its value.           *)
LEMMA DriveStep ==
  ASSUME JInv, [NextAll]_allVars
  PROVE  DriveInv'
<1> USE DEF DriveInv
<1>0. /\ DriveInv /\ pc \in [Threads -> Locked \union {"idle", "scan"}]
      /\ call \in [Threads -> Calls \union {Null}]
      /\ LifeP!TypeOK
      /\ stage \in [Values -> Life!Stages]
  BY DEF JInv, IInv, TypeOK, LifeP!IInv, LifeP!TypeOK, Life!Stages, LifeP!Stages
<1>1. ASSUME NEW v \in Values, OpenOrClose(v) PROVE DriveInv'
  <2>1. UNCHANGED <<pc, call, local, about>>
    BY <1>1 DEF OpenOrClose, vars, mutatorVars
  <2>2. ASSUME NEW t \in Threads, local[t] # Null PROVE Serves(t, local[t])'
    <3>1. local[t] \in Values /\ local[t] # v
      BY <1>0, <1>1, <2>2 DEF OpenOrClose, Busy
    <3>2. UNCHANGED <<stage[local[t]], base[local[t]], map_len[local[t]]>>
      BY <1>0, <1>1, <2>1, <3>1, OthersKept
    <3> QED BY <1>0, <2>1, <2>2, <3>2
            DEF Serves, RegisterCall, UnregisterCall, Life!StartOf
  <2> QED BY <1>0, <2>1, <2>2
<1>2. ASSUME NEW f \in Files, NEW n \in FileLens, Resize(f, n) PROVE DriveInv'
  BY <1>0, <1>2 DEF Resize, Life!Resize, vars, mutatorVars, Serves, RegisterCall,
                    UnregisterCall, Life!StartOf
<1>3. ASSUME NEW t \in Threads, NEW v \in Values, BeginRegister(t, v) \/ BeginDrop(t, v)
      PROVE  DriveInv'
  <2>1. /\ pc[t] = "idle" /\ mutex = Null
        /\ pc' = [pc EXCEPT ![t] = "rotate"]
        /\ local' = [local EXCEPT ![t] = v]
        /\ UNCHANGED <<lifeVars, about>>
    BY <1>3 DEF BeginRegister, BeginDrop, Lock
  <2>2. \A u \in Threads : local[u] = Null BY <2>1, OneWorker
  <2>3. Serves(t, v)'
    BY <1>0, <1>3, <2>1
       DEF BeginRegister, BeginDrop, Lock, lifeVars, Serves, RegisterCall,
           UnregisterCall, Life!StartOf
  <2>4. v # Null BY LiveFaultsAssumption
  <2> QED BY <1>0, <2>1, <2>2, <2>3, <2>4 DEF Locked
<1>4. ASSUME NEW t \in Threads, Mutating(t) PROVE DriveInv'
  <2> DEFINE v == local[t]
  <2>1. /\ pc[t] \in Locked
        /\ \E to \in Locked : pc' = [pc EXCEPT ![t] = to]
        /\ UNCHANGED <<local, about, call, base, map_len>>
    BY <1>4 DEF Mutating, RotateRetired, BuildSnapshot, SwapSnapshot, Locked
  <2>2. v \in Values /\ v # Null /\ Serves(t, v) BY <1>0, <2>1
  <2>3. \A u \in Threads : u # t => local[u] = Null BY <2>1, OneWorker
  <2>4. RegisterCall(v)' = RegisterCall(v) /\ UnregisterCall(v)' = UnregisterCall(v)
    BY <2>1 DEF RegisterCall, UnregisterCall, Life!StartOf
  <2>5. RegisterCall(v).op = "register" /\ UnregisterCall(v).op = "unregister"
    BY DEF RegisterCall, UnregisterCall
  <2>6. Serves(t, v)'
    <3>1. CASE RotateRetired(t) \/ BuildSnapshot(t)
      <4>1. UNCHANGED stage /\ pc[t] # "retire" /\ pc'[t] # "retire"
        BY <1>0, <1>4, <3>1
           DEF Mutating, RotateRetired, BuildSnapshot, SwapSnapshot
      <4> QED BY <2>1, <2>2, <2>4, <4>1 DEF Serves
    <3>2. CASE SwapSnapshot(t)
      <4>1. stage' = Settled(t) /\ pc[t] # "retire" /\ pc'[t] = "retire"
        BY <1>0, <1>4, <3>2
           DEF Mutating, RotateRetired, BuildSnapshot, SwapSnapshot
      <4> QED BY <1>0, <2>1, <2>2, <2>4, <2>5, <4>1 DEF Serves, Settled
    <3> QED BY <1>4, <3>1, <3>2 DEF Mutating
  <2> QED BY <1>0, <2>1, <2>2, <2>3, <2>6
<1>5. ASSUME NEW t \in Threads, Finish(t) PROVE DriveInv'
  <2>1. /\ pc[t] \in Locked
        /\ pc' = [pc EXCEPT ![t] = "idle"]
        /\ local' = [local EXCEPT ![t] = Null]
        /\ UNCHANGED about
    BY <1>5 DEF Finish, RetirePrevious, NothingToUnregister, Locked
  <2>2. \A u \in Threads : local'[u] = Null BY <1>0, <2>1, OneWorker
  <2>3. \A u \in Threads : pc'[u] \notin Locked
    BY <1>0, <2>1, OneWorker DEF Locked
  <2> QED BY <1>0, <2>1, <2>2, <2>3
<1>6. ASSUME NEW t \in Threads, NEW to \in Values \union {Null}, NEW a \in Addrs,
             Ask(t, a), about' = [about EXCEPT ![t] = to], UNCHANGED <<lifeVars, local>>
      PROVE  DriveInv'
  BY <1>0, <1>6 DEF Ask, LoadNull, LoadSnapshot, mutatorVars, lifeVars, Serves, Locked,
                    RegisterCall, UnregisterCall, Life!StartOf
<1>7. ASSUME NEW t \in Threads, Answer(t) PROVE DriveInv'
  BY <1>0, <1>7 DEF Answer, ScanSnapshot, mutatorVars, lifeVars, Serves, Locked,
                    RegisterCall, UnregisterCall, Life!StartOf
<1>8. ASSUME UNCHANGED allVars PROVE DriveInv'
  BY <1>0, <1>8 DEF allVars, vars, mutatorVars, lifeVars, Serves, RegisterCall,
                    UnregisterCall, Life!StartOf
<1>9. ASSUME NEW t \in Threads, ThreadStep(t) PROVE DriveInv'
  BY <1>3, <1>4, <1>5, <1>6, <1>7, <1>9 DEF ThreadStep, FaultInValue, FaultElsewhere
<1> QED BY <1>1, <1>2, <1>8, <1>9 DEF NextAll

(* Lengths stay in range: only Measure computes one.                       *)
LEMMA LensStep ==
  ASSUME JInv, [NextAll]_allVars
  PROVE  LensInv'
<1> USE DEF LensInv
<1>0. LensInv /\ LifeP!TypeOK BY DEF JInv, LifeP!IInv
<1>1. ASSUME NEW v \in Values, Life!Measure(v) PROVE LensInv'
  <2> DEFINE o == options[v]
             n == IF o.len # Null THEN o.len ELSE file_len[o.file] - o.offset
  <2>1. CASE /\ stage[v] = "locked" /\ Life!Usable(v)
             /\ map_len' = [map_len EXCEPT ![v] = n]
    <3>1. /\ o.len \in OptionLens \union {Null} /\ o.offset \in Offsets
          /\ file_len[o.file] \in FileLens
      BY <1>0, <2>1 DEF JInv, LifeP!IInv, LifeP!StageInv, LifeP!TypeOK, LifeP!Options
    <3>2. n \in Lens
      BY <2>1, <3>1, LiveFaultsAssumption DEF Life!Usable
    <3> QED BY <1>0, <2>1, <3>2 DEF LifeP!TypeOK
  <2>2. CASE Life!Fail(v) BY <1>0, <2>2 DEF Life!Fail, Life!CloseFile, LifeP!TypeOK
  <2> QED BY <1>1, <2>1, <2>2 DEF Life!Measure
<1>2. ASSUME NEW v \in Values, Life!CloseFile(v) PROVE LensInv'
  BY <1>0, <1>2 DEF Life!CloseFile, LifeP!TypeOK
<1>3. ASSUME NEW v \in Values, OpenOrClose(v) PROVE LensInv'
  BY <1>0, <1>1, <1>2, <1>3
     DEF OpenOrClose, Life!OpenFile, Life!Flock, Life!Map, Life!Munmap, Life!Fail
<1>4. ASSUME UNCHANGED map_len PROVE LensInv' BY <1>0, <1>4
<1> QED BY <1>3, <1>4
        DEF NextAll, ThreadStep, Resize, Life!Resize, BeginRegister, BeginDrop, Mutating,
            Finish, FaultInValue, FaultElsewhere, Answer, lifeVars, allVars

(* Both parts' invariants and what ties them together are inductive.       *)
LEMMA NextJInv ==
  ASSUME JInv, [NextAll]_allVars
  PROVE  JInv'
<1>1. IInv' BY RegistryStep, NextStep DEF JInv
<1>2. LifeP!IInv'
  <2>1. [LifeP!Next]_(LifeP!vars) BY LifeStep, SameStep
  <2> QED BY <2>1, LiveFaultsAssumption, LifeP!NextStep DEF JInv
<1> QED BY <1>1, <1>2, DriveStep, LensStep DEF JInv

(* The invariant of the composed system.                                   *)
THEOREM ComposedInductive == SpecAll => []JInv
<1>1. JInv /\ [NextAll]_allVars => JInv' BY NextJInv
<1> QED BY StartJInv, <1>1, PTL DEF SpecAll

(* The registry as it is used is RegionRegistry.                           *)
THEOREM UsesRegistry == SpecAll => Spec
<1>1. StartAll => Init BY DEF StartAll
<1>2. JInv /\ [NextAll]_allVars => [Next]_vars BY RegistryStep
<1> QED BY <1>1, <1>2, ComposedInductive, PTL DEF SpecAll, Spec

(* open and drop with the real registry, snapshots, mutex and reclamation  *)
(* included, implement Lifecycle with its atomic set of regions.           *)
THEOREM ComposedLifecycle == SpecAll => ImplementsLifecycle
<1>1. StartAll => Life!Init BY DEF StartAll
<1>2. JInv /\ [NextAll]_allVars => [Life!Next]_(Life!vars) BY LifeStep
<1> QED BY <1>1, <1>2, ComposedInductive, PTL DEF SpecAll, ImplementsLifecycle, Life!Spec

-----------------------------------------------------------------------------
(* The verdict.                                                            *)

(* What a handler has answered, or will answer from what it has loaded.    *)
VerdictInv ==
  \A t \in Threads : AnswerBar[t] # Null => (AnswerBar[t].hit <=> about[t] # Null)

(* A byte of a live value is in a published region.                        *)
LEMMA LiveCovers ==
  ASSUME JInv, NEW v \in Values, stage[v] = "live",
         NEW a \in Life!StartOf(v)..(Life!StartOf(v) + map_len[v] - 1)
  PROVE  Covers(RegionsBar, a)
<1>1. LifeP!RegionOf(v) \in RegionsBar BY DEF JInv, LifeP!IInv, LifeP!RegionInv
<1>2. base[v] \in Nat /\ map_len[v] \in Nat
  BY LiveFaultsAssumption DEF JInv, LifeP!IInv, LifeP!StageInv, LifeP!Mapped
<1>3. Life!StartOf(v) \in Nat BY <1>2, LiveFaultsAssumption DEF Life!StartOf
<1>4. LifeP!RegionOf(v) = [start |-> Life!StartOf(v), end |-> Life!StartOf(v) + map_len[v]]
  BY DEF LifeP!RegionOf, LifeP!RegisteredRegion, LifeP!StartOf, Life!StartOf
<1>5. LifeP!RegionOf(v).start <= a /\ a < LifeP!RegionOf(v).end
  BY <1>2, <1>3, <1>4
<1> QED BY <1>1, <1>5 DEF Covers

(* A byte on pages no value has mapped is in no published region.          *)
LEMMA ElsewhereUncovered ==
  ASSUME JInv, NEW a \in Addrs,
         \A p \in Pages : a \in (p * PageSize)..(p * PageSize + PageSize - 1) =>
                            pageOwner[p] = Null
  PROVE  ~Covers(RegionsBar, a)
<1> USE LiveFaultsAssumption
<1> SUFFICES ASSUME Covers(RegionsBar, a) PROVE FALSE
  OBVIOUS
<1>1. PICK v \in Values : /\ stage[v] = "live"
                          /\ LifeP!RegionOf(v).start <= a /\ a < LifeP!RegionOf(v).end
  BY DEF Covers, JInv, LifeP!IInv, LifeP!RegionInv
<1>2. map_len[v] \in Nat \ {0} /\ base[v] \in Nat
  BY <1>1 DEF JInv, LifeP!IInv, LifeP!StageInv, LifeP!Mapped
<1>3. base[v] * PageSize <= a /\ a < base[v] * PageSize + map_len[v]
  BY <1>1 DEF LifeP!RegionOf, LifeP!RegisteredRegion, LifeP!StartOf
<1>4. PICK p \in Nat : p * PageSize <= a /\ a < p * PageSize + PageSize
  <2>1. a \in Nat BY RegistryAssumption
  <2>2. a \div PageSize \in Nat /\ (a \div PageSize) * PageSize <= a
        /\ a < (a \div PageSize) * PageSize + PageSize
    BY <2>1
  <2> QED BY <2>2
<1>5. a \in Nat BY RegistryAssumption
<1>6. p \in LifeP!PageSpan(base[v], map_len[v])
  BY <1>2, <1>3, <1>4, <1>5, LifeP!RegionInSpan
<1>7. p \in Pages /\ pageOwner[p] = v
  BY <1>1, <1>6 DEF JInv, LifeP!IInv, LifeP!MappedInv, LifeP!Mapped
<1>8. a \in (p * PageSize)..(p * PageSize + PageSize - 1) BY <1>4, <1>5
<1> QED BY <1>7, <1>8

(* The verdict is fixed at the load and nothing changes it afterwards.     *)
LEMMA VerdictStep ==
  ASSUME JInv, NoDanglingScan, VerdictInv, [NextAll]_allVars
  PROVE  VerdictInv'
<1>0. /\ AnswerBar = [t \in Threads |-> AnswerBar[t]]
      /\ about \in [Threads -> Values \union {Null}]
  BY DEF AnswerBar, JInv, DriveInv
<1>1. ASSUME UNCHANGED about, AnswerBar' = AnswerBar PROVE VerdictInv'
  BY <1>1 DEF VerdictInv
<1>2. ASSUME UNCHANGED vars PROVE AnswerBar' = AnswerBar
  BY <1>2 DEF vars, mutatorVars, handlerVars, AnswerBar, Scanning
<1>3. ASSUME NEW t \in Threads, NEW a \in Addrs, NEW to \in Values \union {Null},
             Ask(t, a), about' = [about EXCEPT ![t] = to],
             Covers(RegionsBar, a) <=> to # Null
      PROVE  VerdictInv'
  <2>1. AnswerBar' = [AnswerBar EXCEPT ![t] = [addr |-> a, hit |-> Covers(RegionsBar, a)]]
    BY <1>3, LoadAnswers DEF JInv, Ask
  <2>2. ASSUME NEW u \in Threads, AnswerBar'[u] # Null
        PROVE  AnswerBar'[u].hit <=> about'[u] # Null
    <3>1. CASE u = t
      <4>1. AnswerBar'[u] = [addr |-> a, hit |-> Covers(RegionsBar, a)] /\ about'[u] = to
        BY <1>0, <1>3, <2>1, <3>1
      <4> QED BY <1>3, <4>1
    <3>2. CASE u # t
      <4>1. AnswerBar'[u] = AnswerBar[u] /\ about'[u] = about[u]
        BY <1>0, <1>3, <2>1, <3>2
      <4> QED BY <2>2, <4>1 DEF VerdictInv
    <3> QED BY <3>1, <3>2
  <2> QED BY <2>2 DEF VerdictInv
<1>4. ASSUME NEW t \in Threads, NEW v \in Values, NEW a \in Addrs, FaultInValue(t, v, a)
      PROVE  VerdictInv'
  <2>1. v # Null BY LiveFaultsAssumption
  <2>2. Covers(RegionsBar, a) BY <1>4, LiveCovers DEF FaultInValue
  <2> QED BY <1>3, <1>4, <2>1, <2>2 DEF FaultInValue
<1>5. ASSUME NEW t \in Threads, NEW a \in Addrs, FaultElsewhere(t, a) PROVE VerdictInv'
  <2>1. ~Covers(RegionsBar, a) BY <1>5, ElsewhereUncovered DEF FaultElsewhere
  <2> QED BY <1>3, <1>5, <2>1 DEF FaultElsewhere
<1>6. ASSUME NEW t \in Threads, Answer(t) PROVE VerdictInv'
  BY <1>1, <1>6, ScanAnswers DEF Answer, JInv
<1>7. ASSUME NEW t \in Threads, NEW v \in Values, BeginRegister(t, v) \/ BeginDrop(t, v)
      PROVE  VerdictInv'
  <2>1. Mutate(t) BY <1>7, CallsKnown DEF BeginRegister, BeginDrop, Mutate
  <2> QED BY <1>1, <1>7, <2>1, AnswersKept DEF JInv, BeginRegister, BeginDrop
<1>8. ASSUME NEW t \in Threads, Mutating(t) \/ Finish(t) PROVE VerdictInv'
  <2>1. Mutate(t) BY <1>8 DEF Mutating, Finish, Mutate
  <2> QED BY <1>1, <1>8, <2>1, AnswersKept DEF JInv, Mutating, Finish
<1>9. ASSUME UNCHANGED <<vars, about>> PROVE VerdictInv' BY <1>1, <1>2, <1>9
<1> QED BY <1>4, <1>5, <1>6, <1>7, <1>8, <1>9
        DEF NextAll, ThreadStep, OpenOrClose, Resize, allVars

(* For any number of threads, values, pages and boxes: while a handler is  *)
(* overtaken by at most one mutation, it claims the faults in live values  *)
(* and no others.                                                          *)
THEOREM HandlerClaimsExactlyLive ==
  ASSUME MaxOverlap <= 1
  PROVE  SpecAll => []ClaimsExactlyLive
<1>1. StartAll => VerdictInv
  BY DEF StartAll, Init, VerdictInv, AnswerBar, Scanning
<1>2. JInv /\ NoDanglingScan /\ VerdictInv /\ [NextAll]_allVars => VerdictInv'
  BY VerdictStep
<1>3. VerdictInv => ClaimsExactlyLive BY DEF VerdictInv, ClaimsExactlyLive, AnswerBar
<1> QED BY <1>1, <1>2, <1>3, ComposedInductive, UsesRegistry, PromptHandlerIsSafe, PTL
        DEF SpecAll
==============================================================================
