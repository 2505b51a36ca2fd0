--------------------------- MODULE Lifecycle_proofs ---------------------------
(***************************************************************************)
(* The properties of Lifecycle for any number of values and files, any     *)
(* page size, address space and lengths.                                   *)
(*                                                                         *)
(* The argument: a value owns exactly the pages of its span from mmap to   *)
(* munmap (MappedInv), so live values have different start addresses, and  *)
(* unregister, which goes by start address, removes the region of the      *)
(* value that is dropped and no other (RegionInv).  A value that asked for *)
(* the lock holds it at every stage after flock (LockInv).                 *)
(***************************************************************************)
EXTENDS Lifecycle, TLAPS

(* The stages in which a value has a mapping, and those in which it has    *)
(* passed flock.                                                           *)
Mapped == {"mapped", "live", "unregistered"}
Locked == {"locked", "sized", "mapped", "live", "unregistered", "unmapped"}

(* What open has computed by each stage.                                   *)
StageInv ==
  \A v \in Values :
    /\ stage[v] # "absent" => options[v] \in Options
    /\ stage[v] \in Mapped \union {"sized"} => map_len[v] \in Nat \ {0}
    /\ stage[v] \in Mapped => base[v] \in Pages

(* Who has mapped a page.                                                  *)
MappedInv ==
  /\ \A v \in Values : stage[v] \in Mapped => PageSpan(base[v], map_len[v]) \subseteq Pages
  /\ \A p \in Pages : \A v \in Values :
       pageOwner[p] = v <=> stage[v] \in Mapped /\ p \in PageSpan(base[v], map_len[v])

RegionOf(v) == RegisteredRegion(StartOf(v), map_len[v])

(* The handler knows the regions of the live values and nothing else.      *)
RegionInv ==
  /\ \A v \in Values : stage[v] = "live" => RegionOf(v) \in registered
  /\ \A r \in registered : \E v \in Values : stage[v] = "live" /\ r = RegionOf(v)

KindOf(v) == IF options[v].writable THEN "LOCK_EX" ELSE "LOCK_SH"

(* Who holds a lock, and that exclusive locks exclude.                     *)
LockInv ==
  /\ \A v \in Values : stage[v] \in Locked /\ options[v].flock => flocked[v] = KindOf(v)
  /\ \A v \in Values : flocked[v] # "none" => stage[v] \in Locked
  /\ \A u, v \in Values :
       /\ u # v /\ flocked[u] # "none" /\ flocked[v] # "none"
       /\ options[u].file = options[v].file
       => flocked[u] = "LOCK_SH" /\ flocked[v] = "LOCK_SH"

IInv ==
  /\ TypeOK
  /\ StageInv
  /\ MappedInv
  /\ RegionInv
  /\ LockInv
-----------------------------------------------------------------------------
(* A mapping has its first page.                                           *)
LEMMA FirstPage ==
  ASSUME NEW b \in Nat, NEW n \in Nat \ {0}
  PROVE  b \in PageSpan(b, n)
<1>1. (n - 1) \div PageSize \in Nat BY LifecycleAssumption
<1> QED BY <1>1 DEF PageSpan

(* The address and the length of a mapped value.                           *)
LEMMA MappedNumbers ==
  ASSUME StageInv, NEW v \in Values, stage[v] \in Mapped
  PROVE  map_len[v] \in Nat \ {0} /\ base[v] \in Nat /\ StartOf(v) \in Nat
<1>1. map_len[v] \in Nat \ {0} /\ base[v] \in Nat
  BY LifecycleAssumption DEF StageInv
<1>2. PageSize \in Nat BY LifecycleAssumption
<1> QED BY <1>1, <1>2 DEF StartOf

(* Mapped values at the same address are the same value.                   *)
LEMMA SameStart ==
  ASSUME TypeOK, StageInv, MappedInv, NEW u \in Values, NEW v \in Values,
         stage[u] \in Mapped, stage[v] \in Mapped, StartOf(u) = StartOf(v)
  PROVE  u = v
<1> USE LifecycleAssumption
<1>1. /\ base[u] \in Nat /\ base[u] \in Pages /\ map_len[u] \in Nat \ {0}
      /\ base[v] \in Nat /\ base[v] \in Pages /\ map_len[v] \in Nat \ {0}
  BY DEF StageInv
<1>2. base[u] = base[v] BY <1>1 DEF StartOf
<1>3. pageOwner[base[u]] = u BY <1>1, FirstPage DEF MappedInv
<1>4. pageOwner[base[v]] = v BY <1>1, FirstPage DEF MappedInv
<1> QED BY <1>2, <1>3, <1>4

(* Steps that map and unmap nothing.                                       *)
LEMMA MappedKept ==
  ASSUME MappedInv, UNCHANGED pageOwner,
         \A v \in Values : stage'[v] \in Mapped <=> stage[v] \in Mapped,
         \A v \in Values : stage[v] \in Mapped =>
                             base'[v] = base[v] /\ map_len'[v] = map_len[v]
  PROVE  MappedInv'
BY DEF MappedInv

(* Steps that make no value live and end no value's life.                  *)
LEMMA RegionKept ==
  ASSUME RegionInv, UNCHANGED registered,
         \A v \in Values : stage'[v] = "live" <=> stage[v] = "live",
         \A v \in Values : stage[v] = "live" =>
                             base'[v] = base[v] /\ map_len'[v] = map_len[v]
  PROVE  RegionInv'
<1>1. \A v \in Values : stage[v] = "live" => RegionOf(v)' = RegionOf(v)
  BY DEF RegionOf, RegisteredRegion, StartOf
<1> QED BY <1>1 DEF RegionInv

(* Steps that leave the locks alone.                                       *)
LEMMA LockKept ==
  ASSUME LockInv, UNCHANGED flocked,
         \A v \in Values : stage'[v] \in Locked <=> stage[v] \in Locked,
         \A v \in Values : stage[v] \in Locked => options'[v] = options[v]
  PROVE  LockInv'
BY DEF LockInv, KindOf

(* No value exists.                                                        *)
LEMMA InitIInv == Init => IInv
<1> SUFFICES ASSUME Init PROVE IInv
  OBVIOUS
<1> USE LifecycleAssumption DEF Init
<1>1. TypeOK BY DEF TypeOK, Stages
<1>2. StageInv BY DEF StageInv, Mapped
<1>3. MappedInv BY DEF MappedInv, Mapped
<1>4. RegionInv BY DEF RegionInv
<1>5. LockInv BY DEF LockInv, Locked
<1> QED BY <1>1, <1>2, <1>3, <1>4, <1>5 DEF IInv

(* Closing the file of a value without a mapping releases its lock.        *)
LEMMA CloseFileStep ==
  ASSUME IInv, NEW v \in Values, stage[v] \notin Mapped, CloseFile(v)
  PROVE  IInv'
<1> USE LifecycleAssumption DEF IInv, CloseFile, Goto
<1>1. TypeOK' BY DEF TypeOK, Stages
<1>2. /\ \A u \in Values : u # v =>
           /\ stage'[u] = stage[u] /\ options'[u] = options[u]
           /\ flocked'[u] = flocked[u] /\ map_len'[u] = map_len[u]
           /\ base'[u] = base[u]
      /\ stage'[v] = "absent" /\ flocked'[v] = "none"
  BY DEF TypeOK
<1>3. StageInv' BY <1>2 DEF StageInv, Mapped
<1>4. MappedInv' BY <1>2, MappedKept DEF Mapped
<1>5. RegionInv' BY <1>2, RegionKept DEF Mapped
<1>6. LockInv' BY <1>2 DEF LockInv, KindOf, Locked
<1> QED BY <1>1, <1>3, <1>4, <1>5, <1>6

(* open has opened the file and nothing else.                              *)
LEMMA OpenFileStep ==
  ASSUME IInv, NEW v \in Values, NEW o \in Options, OpenFile(v, o)
  PROVE  IInv'
<1> USE LifecycleAssumption DEF IInv, OpenFile, Goto
<1>1. TypeOK' BY DEF TypeOK, Stages
<1>2. /\ \A u \in Values : u # v =>
           stage'[u] = stage[u] /\ options'[u] = options[u]
      /\ stage'[v] = "opened" /\ options'[v] = o
  BY DEF TypeOK
<1>3. StageInv' BY <1>2 DEF StageInv, Mapped
<1>4. MappedInv' BY <1>2, MappedKept DEF Mapped
<1>5. RegionInv' BY <1>2, RegionKept
<1>6. LockInv' BY <1>2, LockKept DEF Locked
<1> QED BY <1>1, <1>3, <1>4, <1>5, <1>6

(* A lock is granted only if it conflicts with none that is held.          *)
LEMMA FlockStep ==
  ASSUME IInv, NEW v \in Values, Flock(v)
  PROVE  IInv'
<1> USE LifecycleAssumption DEF IInv
<1>1. CASE options[v].flock /\ Fail(v) /\ stage[v] = "opened"
  BY <1>1, CloseFileStep DEF Fail, Mapped
<1>2. ASSUME stage[v] = "opened", Goto(v, "locked"),
             UNCHANGED <<file_len, options, map_len, base, pageOwner, registered>>,
             \/ ~options[v].flock /\ UNCHANGED flocked
             \/ /\ options[v].flock /\ ~LockConflict(v, KindOf(v))
                /\ flocked' = [flocked EXCEPT ![v] = KindOf(v)]
      PROVE  IInv'
  <2> USE <1>2 DEF Goto
  <2>1. TypeOK' BY DEF TypeOK, Stages, KindOf
  <2>2. /\ \A u \in Values : u # v =>
             stage'[u] = stage[u] /\ flocked'[u] = flocked[u]
        /\ stage'[v] = "locked"
    BY DEF TypeOK
  <2>3. StageInv' BY <2>2 DEF StageInv, Mapped
  <2>4. MappedInv' BY <2>2, MappedKept DEF Mapped
  <2>5. RegionInv' BY <2>2, RegionKept
  <2>6. LockInv'
    <3>1. flocked[v] = "none" BY DEF LockInv, Locked, TypeOK
    <3>2. CASE ~options[v].flock /\ UNCHANGED flocked
      BY <2>2, <3>1, <3>2 DEF LockInv, KindOf, Locked
    <3>3. CASE /\ options[v].flock /\ ~LockConflict(v, KindOf(v))
               /\ flocked' = [flocked EXCEPT ![v] = KindOf(v)]
      <4>1. flocked'[v] = KindOf(v) BY <3>3 DEF TypeOK
      <4>2. ASSUME NEW u \in Values, u # v, flocked[u] # "none",
                   options[u].file = options[v].file
            PROVE  flocked[u] = "LOCK_SH" /\ KindOf(v) = "LOCK_SH"
        BY <3>3, <4>2 DEF LockConflict, KindOf, TypeOK
      <4> QED BY <2>2, <4>1, <4>2 DEF LockInv, KindOf, Locked
    <3> QED BY <3>2, <3>3
  <2> QED BY <2>1, <2>3, <2>4, <2>5, <2>6
<1>3. \/ options[v].flock /\ Fail(v) /\ stage[v] = "opened"
      \/ /\ stage[v] = "opened" /\ Goto(v, "locked")
         /\ UNCHANGED <<file_len, options, map_len, base, pageOwner, registered>>
         /\ \/ ~options[v].flock /\ UNCHANGED flocked
            \/ /\ options[v].flock /\ ~LockConflict(v, KindOf(v))
               /\ flocked' = [flocked EXCEPT ![v] = KindOf(v)]
  BY DEF Flock, KindOf
<1> QED BY <1>1, <1>2, <1>3

(* A length that passes the checks is positive.                            *)
LEMMA MeasureStep ==
  ASSUME IInv, NEW v \in Values, Measure(v)
  PROVE  IInv'
<1> USE LifecycleAssumption DEF IInv
<1> DEFINE o == options[v]
           n == IF o.len # None THEN o.len ELSE file_len[o.file] - o.offset
<1>1. CASE Fail(v) /\ stage[v] = "locked"
  BY <1>1, CloseFileStep DEF Fail, Mapped
<1>2. ASSUME Usable(v), stage[v] = "locked", Goto(v, "sized"),
             map_len' = [map_len EXCEPT ![v] = n],
             UNCHANGED <<file_len, options, flocked, base, pageOwner, registered>>
      PROVE  IInv'
  <2> USE <1>2 DEF Goto
  <2>1. n \in Nat \ {0}
    <3>1. o \in Options BY DEF StageInv
    <3>2. /\ o.file \in Files /\ o.offset \in Nat /\ o.len \in Lens \union {None}
          /\ file_len[o.file] \in Nat
      BY <3>1 DEF Options, TypeOK
    <3>3. CASE o.len # None BY <3>2, <3>3 DEF Usable
    <3>4. CASE o.len = None BY <3>2, <3>4 DEF Usable
    <3> QED BY <3>3, <3>4
  <2> HIDE DEF n
  <2>2. TypeOK' BY <2>1 DEF TypeOK, Stages
  <2>3. /\ \A u \in Values : u # v =>
             stage'[u] = stage[u] /\ map_len'[u] = map_len[u]
        /\ stage'[v] = "sized" /\ map_len'[v] = n
    BY DEF TypeOK
  <2>4. StageInv' BY <2>1, <2>3 DEF StageInv, Mapped
  <2>5. MappedInv' BY <2>3, MappedKept DEF Mapped
  <2>6. RegionInv' BY <2>3, RegionKept
  <2>7. LockInv' BY <2>3, LockKept DEF Locked
  <2> QED BY <2>2, <2>4, <2>5, <2>6, <2>7
<1>3. \/ Fail(v) /\ stage[v] = "locked"
      \/ /\ Usable(v) /\ stage[v] = "locked" /\ Goto(v, "sized")
         /\ map_len' = [map_len EXCEPT ![v] = n]
         /\ UNCHANGED <<file_len, options, flocked, base, pageOwner, registered>>
  BY DEF Measure
<1> QED BY <1>1, <1>2, <1>3

(* mmap gives a value pages that nobody had.                               *)
LEMMA MapStep ==
  ASSUME IInv, NEW v \in Values, Map(v)
  PROVE  IInv'
<1> USE LifecycleAssumption DEF IInv
<1>1. CASE Fail(v) /\ stage[v] = "sized"
  BY <1>1, CloseFileStep DEF Fail, Mapped
<1>2. ASSUME stage[v] = "sized", Goto(v, "mapped"), NEW b \in Pages,
             PageSpan(b, map_len[v]) \subseteq {p \in Pages : pageOwner[p] = None},
             pageOwner' = [p \in Pages |-> IF p \in PageSpan(b, map_len[v])
                                           THEN v ELSE pageOwner[p]],
             base' = [base EXCEPT ![v] = b],
             UNCHANGED <<file_len, options, flocked, map_len, registered>>
      PROVE  IInv'
  <2> USE <1>2 DEF Goto
  <2>1. TypeOK' BY DEF TypeOK, Stages
  <2>2. /\ \A u \in Values : u # v => stage'[u] = stage[u] /\ base'[u] = base[u]
        /\ stage'[v] = "mapped" /\ base'[v] = b
    BY DEF TypeOK
  <2>3. StageInv' BY <2>2 DEF StageInv, Mapped
  <2>4. MappedInv'
    <3>1. ASSUME NEW u \in Values, stage'[u] \in Mapped
          PROVE  PageSpan(base'[u], map_len'[u]) \subseteq Pages
      BY <2>2, <3>1 DEF MappedInv
    <3>2. ASSUME NEW p \in Pages, NEW u \in Values
          PROVE  pageOwner'[p] = u <=>
                   stage'[u] \in Mapped /\ p \in PageSpan(base'[u], map_len'[u])
      <4>1. CASE u = v
        <5>1. pageOwner[p] # v BY DEF MappedInv, Mapped
        <5> QED BY <2>2, <4>1, <5>1 DEF Mapped
      <4>2. CASE u # v
        <5>1. p \in PageSpan(b, map_len[v]) => pageOwner[p] = None OBVIOUS
        <5>2. pageOwner'[p] = u <=> pageOwner[p] = u BY <4>2, <5>1
        <5> QED BY <2>2, <4>2, <5>2 DEF MappedInv
      <4> QED BY <4>1, <4>2
    <3> QED BY <3>1, <3>2 DEF MappedInv
  <2>5. RegionInv' BY <2>2, RegionKept
  <2>6. LockInv' BY <2>2, LockKept DEF Locked
  <2> QED BY <2>1, <2>3, <2>4, <2>5, <2>6
<1>3. RawOptions(v).len = map_len[v] BY DEF RawOptions
<1> QED BY <1>1, <1>2, <1>3 DEF Map

(* register_region adds the region of the value that becomes live.         *)
LEMMA RegisterRegionStep ==
  ASSUME IInv, NEW v \in Values, RegisterRegion(v)
  PROVE  IInv'
<1> USE LifecycleAssumption DEF IInv, RegisterRegion, Goto
<1>1. map_len[v] \in Nat /\ base[v] \in Nat /\ StartOf(v) \in Nat
  BY MappedNumbers DEF Mapped
<1>2. registered' = registered \union {RegionOf(v)} BY DEF RegionOf
<1>3. TypeOK'
  <2>1. RegionOf(v).start \in Nat /\ RegionOf(v).end \in Nat
    BY <1>1 DEF RegionOf, RegisteredRegion
  <2>2. \A r \in registered' : r.start \in Nat /\ r.end \in Nat
    BY <1>2, <2>1 DEF TypeOK
  <2> QED BY <2>2 DEF TypeOK, Stages
<1>4. /\ \A u \in Values : u # v => stage'[u] = stage[u]
      /\ stage'[v] = "live"
  BY DEF TypeOK
<1>5. StageInv' BY <1>4 DEF StageInv, Mapped
<1>6. MappedInv' BY <1>4, MappedKept DEF Mapped
<1>7. RegionInv'
  <2>1. \A u \in Values : RegionOf(u)' = RegionOf(u)
    BY DEF RegionOf, RegisteredRegion, StartOf
  <2> QED BY <1>2, <1>4, <2>1 DEF RegionInv
<1>8. LockInv' BY <1>4, LockKept DEF Locked
<1> QED BY <1>3, <1>5, <1>6, <1>7, <1>8

(* unregister goes by start address and hits the value that is dropped.    *)
LEMMA UnregisterRegionStep ==
  ASSUME IInv, NEW v \in Values, UnregisterRegion(v, "live", "unregistered")
  PROVE  IInv'
<1> USE LifecycleAssumption DEF IInv, UnregisterRegion, Goto
<1>1. TypeOK' BY DEF TypeOK, Stages, Retain
<1>2. /\ \A u \in Values : u # v => stage'[u] = stage[u]
      /\ stage'[v] = "unregistered"
  BY DEF TypeOK
<1>3. StageInv' BY <1>2 DEF StageInv, Mapped
<1>4. MappedInv' BY <1>2, MappedKept DEF Mapped
<1>5. RegionInv'
  <2>1. \A u \in Values : RegionOf(u)' = RegionOf(u) /\ RegionOf(u).start = StartOf(u)
    BY DEF RegionOf, RegisteredRegion, StartOf
  <2>2. ASSUME NEW u \in Values, stage'[u] = "live"
        PROVE  RegionOf(u)' \in registered'
    <3>1. u # v /\ stage[u] = "live" BY <1>2, <2>2
    <3>2. StartOf(u) # StartOf(v) BY <3>1, SameStart DEF Mapped
    <3>3. RegionOf(u) \in registered BY <3>1 DEF RegionInv
    <3> QED BY <2>1, <3>2, <3>3 DEF Retain
  <2>3. ASSUME NEW r \in registered'
        PROVE  \E u \in Values : stage'[u] = "live" /\ r = RegionOf(u)'
    <3>1. r \in registered /\ r.start # StartOf(v) BY DEF Retain
    <3>2. PICK u \in Values : stage[u] = "live" /\ r = RegionOf(u)
      BY <3>1 DEF RegionInv
    <3>3. u # v BY <2>1, <3>1, <3>2
    <3> QED BY <1>2, <2>1, <3>2, <3>3
  <2> QED BY <2>2, <2>3 DEF RegionInv
<1>6. LockInv' BY <1>2, LockKept DEF Locked
<1> QED BY <1>1, <1>3, <1>4, <1>5, <1>6

(* munmap gives back the pages of the value and no others.                 *)
LEMMA MunmapStep ==
  ASSUME IInv, NEW v \in Values, Munmap(v, "unregistered", "unmapped")
  PROVE  IInv'
<1> USE LifecycleAssumption DEF IInv, Munmap, Goto
<1>1. TypeOK' BY DEF TypeOK, Stages
<1>2. /\ \A u \in Values : u # v => stage'[u] = stage[u]
      /\ stage'[v] = "unmapped"
  BY DEF TypeOK
<1>3. StageInv' BY <1>2 DEF StageInv, Mapped
<1>4. MappedInv'
  <2>1. ASSUME NEW p \in Pages, NEW u \in Values
        PROVE  pageOwner'[p] = u <=>
                 stage'[u] \in Mapped /\ p \in PageSpan(base'[u], map_len'[u])
    <3>1. CASE u = v
      <4>1. pageOwner'[p] # v OBVIOUS
      <4> QED BY <1>2, <3>1, <4>1 DEF Mapped
    <3>2. CASE u # v
      <4>1. pageOwner'[p] = u <=> pageOwner[p] = u BY <3>2
      <4> QED BY <1>2, <3>2, <4>1 DEF MappedInv
    <3> QED BY <3>1, <3>2
  <2> QED BY <1>2, <2>1 DEF MappedInv, Mapped
<1>5. RegionInv' BY <1>2, RegionKept
<1>6. LockInv' BY <1>2, LockKept DEF Locked
<1> QED BY <1>1, <1>3, <1>4, <1>5, <1>6

(* Other processes change lengths only.                                    *)
LEMMA ResizeStep ==
  ASSUME IInv,
         (\E f \in Files, n \in FileLens : Resize(f, n)) \/ UNCHANGED vars
  PROVE  IInv'
<1> USE DEF IInv, Resize, vars
<1>1. TypeOK' BY DEF TypeOK
<1>2. StageInv' BY DEF StageInv
<1>3. MappedInv' BY MappedKept
<1>4. RegionInv' BY RegionKept
<1>5. LockInv' BY LockKept
<1> QED BY <1>1, <1>2, <1>3, <1>4, <1>5

(* Every step of every value and of other processes keeps the invariant.   *)
LEMMA NextStep == IInv /\ [Next]_vars => IInv'
<1> SUFFICES ASSUME IInv, [Next]_vars PROVE IInv'
  OBVIOUS
<1>1. ASSUME NEW v \in Values, Open(v) PROVE IInv'
  BY <1>1, OpenFileStep, FlockStep, MeasureStep, MapStep, RegisterRegionStep DEF Open
<1>2. ASSUME NEW v \in Values, Drop(v) PROVE IInv'
  BY <1>2, UnregisterRegionStep, MunmapStep, CloseFileStep DEF Drop, Mapped
<1> QED BY <1>1, <1>2, ResizeStep DEF Next

(* The invariant of every history of opens and drops.                      *)
THEOREM Inductive == Spec => []IInv
BY InitIInv, NextStep, PTL DEF Spec

(* Every variable keeps its type.                                          *)
THEOREM TypeCorrect == Spec => []TypeOK
<1>1. IInv => TypeOK BY DEF IInv
<1> QED BY Inductive, <1>1, PTL

(* The handler knows every byte of every value the program can read.       *)
THEOREM LiveCovered == Spec => []LiveIsCovered
<1>1. IInv => LiveIsCovered
  <2> SUFFICES ASSUME IInv, NEW v \in Values, stage[v] = "live",
                      NEW a \in StartOf(v)..(StartOf(v) + map_len[v] - 1)
               PROVE  Covers(registered, a)
    BY DEF LiveIsCovered
  <2>1. map_len[v] \in Nat /\ StartOf(v) \in Nat
    BY MappedNumbers DEF IInv, Mapped
  <2>2. RegionOf(v).start <= a /\ a < RegionOf(v).end
    BY <2>1 DEF RegionOf, RegisteredRegion
  <2>3. RegionOf(v) \in registered BY DEF IInv, RegionInv
  <2> QED BY <2>2, <2>3 DEF Covers
<1> QED BY Inductive, <1>1, PTL

(* A byte of a region is on a page of its mapping.                         *)
LEMMA RegionInSpan ==
  ASSUME NEW b \in Nat, NEW n \in Nat \ {0}, NEW p \in Nat, NEW a \in Nat,
         b * PageSize <= a, a < b * PageSize + n,
         p * PageSize <= a, a < p * PageSize + PageSize
  PROVE  p \in PageSpan(b, n)
<1> USE LifecycleAssumption
<1> DEFINE q == (n - 1) \div PageSize
<1>1. q \in Nat /\ n - 1 < q * PageSize + PageSize OBVIOUS
<1> HIDE DEF q
<1>2. b <= p
  <2>1. b * PageSize < (p + 1) * PageSize OBVIOUS
  <2> QED BY <2>1
<1>3. p <= b + q
  <2>1. p * PageSize < (b + q + 1) * PageSize BY <1>1
  <2> QED BY <1>1, <2>1
<1> QED BY <1>1, <1>2, <1>3 DEF PageSpan, q

(* The handler claims no fault outside the mappings of live values.        *)
THEOREM CoveredLive == Spec => []CoveredIsLive
<1>1. IInv => CoveredIsLive
  <2> USE LifecycleAssumption
  <2> SUFFICES ASSUME IInv, NEW p \in Pages,
                      NEW a \in (p * PageSize)..(p * PageSize + PageSize - 1),
                      Covers(registered, a)
               PROVE  pageOwner[p] # None /\ stage[pageOwner[p]] = "live"
    BY DEF CoveredIsLive
  <2>1. PICK v \in Values : /\ stage[v] = "live"
                            /\ RegionOf(v).start <= a /\ a < RegionOf(v).end
    BY DEF Covers, IInv, RegionInv
  <2>2. map_len[v] \in Nat \ {0} /\ base[v] \in Nat
    BY <2>1, MappedNumbers DEF IInv, Mapped
  <2>3. p \in Nat /\ a \in Nat OBVIOUS
  <2>4. base[v] * PageSize <= a /\ a < base[v] * PageSize + map_len[v]
    BY <2>1 DEF RegionOf, RegisteredRegion, StartOf
  <2>5. p * PageSize <= a /\ a < p * PageSize + PageSize BY <2>3
  <2>6. p \in PageSpan(base[v], map_len[v]) BY <2>2, <2>3, <2>4, <2>5, RegionInSpan
  <2>7. pageOwner[p] = v BY <2>1, <2>6 DEF IInv, MappedInv, Mapped
  <2> QED BY <2>1, <2>7
<1> QED BY Inductive, <1>1, PTL

(* A lock asked for covers the mapping from mmap to munmap.                *)
THEOREM LocksGuardMappings == Spec => []LockGuardsMapping
<1>1. IInv => LockGuardsMapping
  <2> SUFFICES ASSUME IInv, NEW u \in Values, NEW v \in Values, u # v,
                      HasMapping(u), HasMapping(v),
                      options[u].file = options[v].file,
                      options[u].flock, options[v].flock
               PROVE  ~options[u].writable /\ ~options[v].writable
    BY DEF LockGuardsMapping
  <2>1. stage[u] \in Mapped /\ stage[v] \in Mapped
    BY DEF IInv, MappedInv, HasMapping
  <2>2. flocked[u] = KindOf(u) /\ flocked[v] = KindOf(v)
    BY <2>1 DEF IInv, LockInv, Mapped, Locked
  <2> QED BY <2>2 DEF IInv, LockInv, KindOf
<1> QED BY Inductive, <1>1, PTL
===============================================================================
