------------------------ MODULE PoisonTracking_proofs ------------------------
(***************************************************************************)
(* Proofs about fault counting and poisoning for every number of threads,  *)
(* depth of callbacks, max_sigbus and number of resets and panics.         *)
(*                                                                         *)
(* The proofs look at a thread as a row of levels, one for each callback   *)
(* depth: level d holds the recording that the access at depth d is in.    *)
(* Every action changes at most one level (OnlyAt), so pushing and popping *)
(* frames is dealt with once, in the lemmas EnterLevel and ReturnLevel.    *)
(***************************************************************************)
EXTENDS PoisonTracking, SequenceTheorems, FiniteSetTheorems, TLAPS

Counts == 0..(CountMod - 1)
Depths == 0..MaxDepth
Resetting == {"reset", "reset_count", "reset_flag"}

(* What a thread does at its deepest level, a reset_poison apart.          *)
Doing(t) == IF pc[t] \in Resetting THEN resume[t] ELSE pc[t]

Depth(t) == Len(outer[t])

PlaceAt(t, d) ==
  IF d < Depth(t) THEN outer[t][Depth(t) - d].place
  ELSE IF d = Depth(t) THEN Doing(t) ELSE "idle"

CountAt(t, d) == IF d < Depth(t) THEN outer[t][Depth(t) - d].count ELSE count[t]

(* The places at which a fault has been counted and is being recorded, and *)
(* those before the flag is stored.                                        *)
Live == {"counted", "compare", "poisoning", "announce"}
Pending == Live \ {"announce"}

LiveAt(t, d, c) == PlaceAt(t, d) \in Live /\ CountAt(t, d) = c

(* The stack of suspended recordings.                                      *)
StackInv ==
  \A t \in Threads : /\ Depth(t) <= MaxDepth
                     /\ Doing(t) = "idle" => outer[t] = <<>>

(* Who is resetting, and what the history says of it.                      *)
ResetInv ==
  /\ resets = 0 => ~reordered /\ \A t \in Threads : pc[t] \notin Resetting
  /\ ~reordered => \A t \in Threads : pc[t] # "reset_flag"

(* A counter at the threshold is about to be acted on, by the recording    *)
(* that brought it where it is, or has been, unless that recording was cut *)
(* short or a reset is about to clear the counter.                         *)
ExhaustedInv ==
  ~reordered /\ sigbus_count >= Threshold =>
    \/ poisoned
    \/ sigbus_count \in unjudged
    \/ \E t \in Threads : pc[t] = "reset_count"
    \/ \E t \in Threads, d \in Depths :
         PlaceAt(t, d) \in Pending /\ CountAt(t, d) = sigbus_count

(* Before the first reset a thread in an access that will be counted has   *)
(* not seen the flag, and one that has set the flag sees it ever after.    *)
SightInv ==
  resets = 0 =>
    \A t \in Threads :
      /\ pc[t] = "faulted" \/ (pc[t] = "access" /\ op[t] \in Counted) => FALSE \in mayRead[t]
      /\ \A d \in Depths : PlaceAt(t, d) = "announce" => FALSE \notin mayRead[t]

(* The levels that have counted a fault from the threshold on, and all     *)
(* those of threads that see the flag: none of them will count another.    *)
Spent ==
  {x \in Threads \X Depths :
     \/ FALSE \notin mayRead[x[1]]
     \/ PlaceAt(x[1], x[2]) \in Live /\ CountAt(x[1], x[2]) >= Threshold}

SpentInv ==
  resets = 0 => sigbus_count + 1 <= Threshold + Cardinality(Spent) + panics

(* There is room in the counter for the faults that threads may count      *)
(* beyond any threshold.                                                   *)
Room ==
  \A m \in Limits :
    (IF m = 0 THEN 1 ELSE m) + Cardinality(Threads) * (MaxDepth + 1) + MaxPanics <= CountMod

(* Before the first reset: what the counts of the recordings are, that no  *)
(* two have the same, that each is announced when it ends or was cut       *)
(* short, and that the flag is set by those that are to be announced.      *)
CountsInv ==
  /\ unjudged \subseteq 1..sigbus_count
  /\ \A t \in Threads, d \in Depths :
       PlaceAt(t, d) \in Live =>
         /\ CountAt(t, d) \in (1..sigbus_count) \ unjudged
         /\ PlaceAt(t, d) \in {"poisoning", "announce"} => CountAt(t, d) >= Threshold

UniqueInv ==
  \A t, u \in Threads, d, e \in Depths, c \in Counts :
    LiveAt(t, d, c) /\ LiveAt(u, e, c) => t = u /\ d = e

AnnounceInv ==
  \A c \in Counts :
    /\ announced[c] \in {0, 1}
    /\ announced[c] = 1 => /\ c \in (Threshold..sigbus_count) \ unjudged
                           /\ \A t \in Threads, d \in Depths : ~LiveAt(t, d, c)
    /\ c \in (Threshold..sigbus_count) \ unjudged /\ announced[c] = 0 =>
         \E t \in Threads, d \in Depths : LiveAt(t, d, c)

FlagInv ==
  poisoned <=> \/ \E c \in Counts : announced[c] = 1
               \/ \E t \in Threads, d \in Depths : PlaceAt(t, d) = "announce"

LedgerInv == Room /\ resets = 0 => CountsInv /\ UniqueInv /\ AnnounceInv /\ FlagInv

IInv ==
  /\ TypeOK
  /\ StackInv
  /\ ResetInv
  /\ ExhaustedInv
  /\ SightInv
  /\ SpentInv
  /\ LedgerInv
-----------------------------------------------------------------------------
(* A step changes the place of one level, to p, and the counts of no live  *)
(* level but this one.                                                     *)
OnlyAt(t, d, p) ==
  \A u \in Threads, e \in Depths :
    /\ PlaceAt(u, e)' = IF u = t /\ e = d THEN p ELSE PlaceAt(u, e)
    /\ (u # t \/ e # d) /\ PlaceAt(u, e) \in Live => CountAt(u, e)' = CountAt(u, e)

(* A step leaves the recordings as they are.                               *)
SameLive ==
  \A u \in Threads, e \in Depths :
    PlaceAt(u, e) \in Live \/ PlaceAt(u, e)' \in Live =>
      PlaceAt(u, e)' = PlaceAt(u, e) /\ CountAt(u, e)' = CountAt(u, e)

(* How the comparison count >= max_sigbus relates to the threshold.        *)
LEMMA ThresholdFacts ==
  ASSUME TypeOK
  PROVE  /\ Threshold \in Nat /\ Threshold >= 1 /\ max_sigbus \in Nat
         /\ \A c \in Nat : c < max_sigbus => c < Threshold
         /\ \A c \in Nat : c >= max_sigbus /\ c >= 1 => c >= Threshold
         /\ \A c \in Nat : c >= Threshold => c >= max_sigbus
         /\ Room => Threshold + Cardinality(Threads) * (MaxDepth + 1) + MaxPanics <= CountMod
BY PoisonAssumption DEF Threshold, TypeOK, Room

(* What a frame pushed on a stack does to it.                              *)
LEMMA PushFacts ==
  ASSUME NEW s \in Seq(Frames), NEW f \in Frames
  PROVE  /\ <<f>> \o s \in Seq(Frames) /\ Len(s) \in Nat
         /\ Len(<<f>> \o s) = Len(s) + 1
         /\ (<<f>> \o s)[Len(<<f>> \o s) - Len(s)] = f
         /\ \A d \in Nat : d < Len(s) =>
              (<<f>> \o s)[Len(<<f>> \o s) - d] = s[Len(s) - d]
<1>1. <<f>> \in Seq(Frames) /\ Len(<<f>>) = 1 /\ <<f>>[1] = f
  OBVIOUS
<1>2. Len(s) \in Nat
  BY LenProperties
<1> QED BY <1>1, <1>2, ConcatProperties

(* What popping the top frame of a stack does to it.                       *)
LEMMA PopFacts ==
  ASSUME NEW s \in Seq(Frames), s # <<>>
  PROVE  /\ Head(s) \in Frames /\ Head(s) = s[1] /\ Tail(s) \in Seq(Frames)
         /\ Len(s) \in Nat \ {0} /\ Len(Tail(s)) = Len(s) - 1
         /\ \A d \in Nat : d < Len(s) - 1 => Tail(s)[Len(Tail(s)) - d] = s[Len(s) - d]
<1>1. Len(s) \in Nat \ {0}
  BY EmptySeq
<1>2. Head(s) = s[1]
  BY <1>1
<1> QED BY <1>1, <1>2, HeadTailProperties

(* The types of one thread's stack and of its levels.                      *)
LEMMA StackFacts ==
  ASSUME TypeOK, StackInv, NEW t \in Threads
  PROVE  /\ outer[t] \in Seq(Frames) /\ Depth(t) \in Depths /\ Depth(t) \in Nat
         /\ outer[t] = <<>> <=> Depth(t) = 0
         /\ MaxDepth \in Nat
         /\ \A d \in Nat : d < Depth(t) => /\ outer[t][Depth(t) - d] \in Frames
                                           /\ PlaceAt(t, d) \in {"counted", "announce"}
<1>1. outer[t] \in Seq(Frames) /\ MaxDepth \in Nat /\ Depth(t) <= MaxDepth
  BY PoisonAssumption DEF TypeOK, StackInv
<1>2. Depth(t) \in Nat /\ Depth(t) \in Depths /\ (outer[t] = <<>> <=> Depth(t) = 0)
  BY <1>1, LenProperties, EmptySeq DEF Depth, Depths
<1>3. \A d \in Nat : d < Depth(t) => outer[t][Depth(t) - d] \in Frames
  BY <1>1, <1>2, LenProperties DEF Depth
<1>4. \A d \in Nat : d < Depth(t) => PlaceAt(t, d) \in {"counted", "announce"}
  BY <1>3 DEF PlaceAt, Frames
<1> QED BY <1>1, <1>2, <1>3, <1>4

(* A thread that moves on within its access changes its deepest level.     *)
LEMMA GotoLevel ==
  ASSUME TypeOK, StackInv, NEW t \in Threads, NEW p \in Places \ Resetting,
         pc[t] \notin Resetting, Goto(t, p), p # "idle",
         NEW c \in Counts, count' = [count EXCEPT ![t] = c], UNCHANGED <<outer, resume>>
  PROVE  /\ StackInv' /\ pc' \in [Threads -> Places]
         /\ \E d \in Depths :
              /\ OnlyAt(t, d, p) /\ PlaceAt(t, d) = pc[t]
              /\ CountAt(t, d) = count[t] /\ CountAt(t, d)' = c
<1>1. /\ pc \in [Threads -> Places] /\ count \in [Threads -> Counts]
      /\ Depth(t) \in Depths /\ Depth(t) \in Nat
  BY StackFacts DEF TypeOK, Counts
<1> PICK d \in Depths : d = Depth(t)
  BY <1>1
<1>2. /\ pc' \in [Threads -> Places] /\ pc'[t] = p /\ \A u \in Threads \ {t} : pc'[u] = pc[u]
  BY <1>1 DEF Goto
<1>3. count'[t] = c /\ \A u \in Threads \ {t} : count'[u] = count[u]
  BY <1>1
<1>4. \A u \in Threads : Depth(u)' = Depth(u)
  BY DEF Depth
<1>5. Doing(t)' = p /\ Doing(t) = pc[t] /\ \A u \in Threads \ {t} : Doing(u)' = Doing(u)
  BY <1>2 DEF Doing
<1>6. StackInv'
  BY <1>4, <1>5 DEF StackInv
<1>7. OnlyAt(t, d, p)
  <2> SUFFICES ASSUME NEW u \in Threads, NEW e \in Depths
               PROVE  /\ PlaceAt(u, e)' = IF u = t /\ e = d THEN p ELSE PlaceAt(u, e)
                      /\ (u # t \/ e # d) /\ PlaceAt(u, e) \in Live
                           => CountAt(u, e)' = CountAt(u, e)
    BY DEF OnlyAt
  <2>1. CASE u # t
    BY <1>2, <1>3, <1>4, <1>5, <2>1 DEF PlaceAt, CountAt
  <2>2. CASE u = t
    <3>1. PlaceAt(t, e)' = IF e = d THEN p ELSE PlaceAt(t, e)
      BY <1>1, <1>4, <1>5 DEF PlaceAt
    <3>2. e # d /\ PlaceAt(t, e) \in Live => CountAt(t, e)' = CountAt(t, e)
      BY <1>1, <1>4 DEF PlaceAt, CountAt, Live, Depths
    <3> QED BY <2>2, <3>1, <3>2
  <2> QED BY <2>1, <2>2
<1>8. PlaceAt(t, d) = pc[t]
  BY <1>1, <1>5 DEF PlaceAt
<1>9. CountAt(t, d) = count[t] /\ CountAt(t, d)' = c
  BY <1>1, <1>3, <1>4 DEF CountAt
<1> QED BY <1>1, <1>2, <1>6, <1>7, <1>8, <1>9

(* An access opens a level that was idle: the first, or the one above the  *)
(* recording whose callback it is made from.                               *)
LEMMA EnterLevel ==
  ASSUME TypeOK, StackInv, NEW t \in Threads, NEW o \in Ops, EnterAccess(t, o)
  PROVE  /\ StackInv' /\ outer' \in [Threads -> Seq(Frames)] /\ pc' \in [Threads -> Places]
         /\ op' \in [Threads -> Ops \union {None}]
         /\ pc'[t] = "access" /\ op'[t] = o
         /\ \A u \in Threads \ {t} : pc'[u] = pc[u] /\ op'[u] = op[u]
         /\ \E d \in Depths : PlaceAt(t, d) = "idle" /\ OnlyAt(t, d, "access")
<1>1. /\ pc \in [Threads -> Places] /\ op \in [Threads -> Ops \union {None}]
      /\ outer \in [Threads -> Seq(Frames)] /\ count \in [Threads -> Counts]
      /\ outer[t] \in Seq(Frames) /\ Depth(t) \in Nat /\ MaxDepth \in Nat
      /\ Depth(t) <= MaxDepth
  BY StackFacts DEF TypeOK, StackInv, Counts
<1>2. /\ pc' \in [Threads -> Places] /\ op' \in [Threads -> Ops \union {None}]
      /\ pc'[t] = "access" /\ op'[t] = o
      /\ \A u \in Threads \ {t} : pc'[u] = pc[u] /\ op'[u] = op[u]
  BY <1>1 DEF EnterAccess, Goto, Places
<1>3. count' = count /\ resume' = resume
  BY DEF EnterAccess
<1>4. /\ Doing(t)' = "access" /\ Doing(t) = pc[t]
      /\ \A u \in Threads \ {t} : Doing(u)' = Doing(u)
  BY <1>2, <1>3 DEF Doing, EnterAccess, InUserCode, Resetting
<1>5. CASE pc[t] = "idle"
  <2>1. outer' = outer /\ \A u \in Threads : Depth(u)' = Depth(u)
    BY <1>5 DEF EnterAccess, Depth
  <2>2. outer[t] = <<>> /\ Depth(t) = 0 /\ 0 \in Depths
    BY <1>1, <1>4, <1>5, StackFacts DEF StackInv, Depths
  <2>3. StackInv'
    BY <1>4, <2>1 DEF StackInv
  <2>4. PlaceAt(t, 0) = "idle"
    BY <1>4, <1>5, <2>2 DEF PlaceAt
  <2>5. OnlyAt(t, 0, "access")
    BY <1>2, <1>3, <1>4, <2>1, <2>2 DEF OnlyAt, PlaceAt, CountAt, Depths, Live
  <2> QED BY <1>1, <1>2, <2>1, <2>2, <2>3, <2>4, <2>5
<1>6. CASE pc[t] # "idle"
  <2> DEFINE f == [place |-> pc[t], count |-> count[t]]
             d == Depth(t) + 1
  <2>1. f \in Frames /\ f.place = pc[t] /\ f.count = count[t] /\ pc[t] \in {"counted", "announce"}
    BY <1>1, <1>6 DEF EnterAccess, InUserCode, Frames, Counts
  <2>2. outer' = [outer EXCEPT ![t] = <<f>> \o @] /\ Len(outer[t]) < MaxDepth
    BY <1>6 DEF EnterAccess
  <2>3. outer'[t] = <<f>> \o outer[t] /\ \A u \in Threads \ {t} : outer'[u] = outer[u]
    BY <1>1, <2>2
  <2> HIDE DEF f
  <2>4. /\ outer'[t] \in Seq(Frames)
        /\ Len(outer'[t]) = Len(outer[t]) + 1
        /\ outer'[t][Len(outer'[t]) - Len(outer[t])] = f
        /\ \A e \in Nat : e < Len(outer[t]) =>
              outer'[t][Len(outer'[t]) - e] = outer[t][Len(outer[t]) - e]
    BY <1>1, <2>1, <2>3, PushFacts
  <2>5. outer' \in [Threads -> Seq(Frames)]
    BY <1>1, <2>2, <2>4
  <2>6. Depth(t)' = d /\ d \in Depths /\ \A u \in Threads \ {t} : Depth(u)' = Depth(u)
    BY <1>1, <2>2, <2>3, <2>4 DEF Depth, Depths
  <2>7. StackInv'
    BY <1>1, <1>4, <2>3, <2>6 DEF StackInv, Depths
  <2>8. PlaceAt(t, d) = "idle"
    BY <1>1 DEF PlaceAt
  <2>9. OnlyAt(t, d, "access")
    <3> SUFFICES ASSUME NEW u \in Threads, NEW e \in Depths
                 PROVE  /\ PlaceAt(u, e)' = IF u = t /\ e = d THEN "access" ELSE PlaceAt(u, e)
                        /\ (u # t \/ e # d) /\ PlaceAt(u, e) \in Live
                             => CountAt(u, e)' = CountAt(u, e)
      BY DEF OnlyAt
    <3>1. CASE u # t
      BY <1>3, <1>4, <2>3, <2>6, <3>1 DEF PlaceAt, CountAt
    <3>2. CASE u = t /\ e < Depth(t)
      <4>1. outer'[t][Depth(t)' - e] = outer[t][Depth(t) - e] /\ e < Depth(t)'
        BY <1>1, <2>4, <2>6, <3>2 DEF Depth, Depths
      <4>2. PlaceAt(t, e)' = PlaceAt(t, e) /\ CountAt(t, e)' = CountAt(t, e)
        BY <3>2, <4>1 DEF PlaceAt, CountAt
      <4> QED BY <1>1, <3>2, <4>2 DEF Depths
    <3>3. CASE u = t /\ e = Depth(t)
      <4>1. outer'[t][Depth(t)' - e] = f /\ e < Depth(t)'
        BY <1>1, <2>4, <2>6, <3>3 DEF Depth
      <4>2. PlaceAt(t, e)' = f.place /\ CountAt(t, e)' = f.count
        BY <4>1 DEF PlaceAt, CountAt
      <4>3. PlaceAt(t, e) = pc[t] /\ CountAt(t, e) = count[t]
        BY <1>1, <1>4, <3>3 DEF PlaceAt, CountAt
      <4> QED BY <1>1, <2>1, <3>3, <4>2, <4>3
    <3>4. CASE u = t /\ e > Depth(t)
      <4>1. PlaceAt(t, e) = "idle" /\ "idle" \notin Live
        BY <1>1, <3>4 DEF PlaceAt, Live, Depths
      <4>2. PlaceAt(t, e)' = IF e = d THEN "access" ELSE "idle"
        BY <1>1, <1>4, <2>6, <3>4 DEF PlaceAt, Depths
      <4> QED BY <3>4, <4>1, <4>2
    <3> QED BY <1>1, <3>1, <3>2, <3>3, <3>4 DEF Depths
  <2> QED BY <1>2, <2>5, <2>6, <2>7, <2>8, <2>9
<1> QED BY <1>5, <1>6

(* An access that returns makes its level idle and goes on with the one    *)
(* below, if there is one.                                                 *)
LEMMA ReturnLevel ==
  ASSUME TypeOK, StackInv, NEW t \in Threads, Return(t), UNCHANGED resume,
         pc[t] \in {"access", "counted", "compare", "announce"}
  PROVE  /\ StackInv' /\ outer' \in [Threads -> Seq(Frames)] /\ pc' \in [Threads -> Places]
         /\ op' \in [Threads -> Ops \union {None}] /\ count' \in [Threads -> Counts]
         /\ pc'[t] \in {"idle", "counted", "announce"}
         /\ \A u \in Threads \ {t} : pc'[u] = pc[u] /\ op'[u] = op[u]
         /\ \E d \in Depths :
              OnlyAt(t, d, "idle") /\ PlaceAt(t, d) = pc[t] /\ CountAt(t, d) = count[t]
<1> DEFINE caller == IF outer[t] = <<>> THEN [place |-> "idle", count |-> 0] ELSE Head(outer[t])
<1>1. /\ pc \in [Threads -> Places] /\ op \in [Threads -> Ops \union {None}]
      /\ outer \in [Threads -> Seq(Frames)] /\ count \in [Threads -> Counts]
      /\ outer[t] \in Seq(Frames) /\ Depth(t) \in Nat /\ MaxDepth \in Nat
      /\ Depth(t) <= MaxDepth /\ Depth(t) \in Depths
  BY StackFacts DEF TypeOK, StackInv, Counts
<1>2. /\ op' = [op EXCEPT ![t] = None]
      /\ count' = [count EXCEPT ![t] = caller.count]
      /\ outer' = [outer EXCEPT ![t] = IF @ = <<>> THEN @ ELSE Tail(@)]
      /\ pc' = [pc EXCEPT ![t] = caller.place]
  BY DEF Return, Goto
<1>3. /\ caller.count \in Counts /\ caller.place \in {"idle", "counted", "announce"}
      /\ outer[t] = <<>> => caller.place = "idle"
      /\ outer[t] # <<>> => /\ caller.place = outer[t][1].place /\ caller.place # "idle"
                            /\ caller.count = outer[t][1].count
  <2>1. CASE outer[t] = <<>>
    BY <2>1, PoisonAssumption DEF Counts
  <2>2. CASE outer[t] # <<>>
    <3>1. Head(outer[t]) \in Frames /\ Head(outer[t]) = outer[t][1]
      BY <1>1, <2>2, PopFacts
    <3> QED BY <2>2, <3>1 DEF Frames, Counts
  <2> QED BY <2>1, <2>2
<1> HIDE DEF caller
<1>4. /\ pc' \in [Threads -> Places] /\ op' \in [Threads -> Ops \union {None}]
      /\ count' \in [Threads -> Counts]
      /\ pc'[t] = caller.place /\ count'[t] = caller.count
      /\ \A u \in Threads \ {t} : pc'[u] = pc[u] /\ op'[u] = op[u] /\ count'[u] = count[u]
  BY <1>1, <1>2, <1>3 DEF Places
<1>5. /\ Doing(t)' = caller.place /\ Doing(t) = pc[t]
      /\ \A u \in Threads \ {t} : Doing(u)' = Doing(u)
  BY <1>3, <1>4 DEF Doing, Resetting
<1>6. PlaceAt(t, Depth(t)) = pc[t] /\ CountAt(t, Depth(t)) = count[t]
  BY <1>1, <1>5 DEF PlaceAt, CountAt
<1>7. CASE outer[t] = <<>>
  <2>1. outer' = outer /\ (\A u \in Threads : Depth(u)' = Depth(u)) /\ Depth(t) = 0
    BY <1>1, <1>2, <1>7, StackFacts DEF Depth
  <2>2. StackInv'
    BY <1>5, <1>7, <2>1 DEF StackInv
  <2>3. OnlyAt(t, Depth(t), "idle")
    BY <1>3, <1>4, <1>5, <1>7, <2>1 DEF OnlyAt, PlaceAt, CountAt, Depths, Live
  <2> QED BY <1>1, <1>3, <1>4, <1>6, <2>1, <2>2, <2>3
<1>8. CASE outer[t] # <<>>
  <2>1. outer'[t] = Tail(outer[t]) /\ \A u \in Threads \ {t} : outer'[u] = outer[u]
    BY <1>1, <1>2, <1>8
  <2>2. /\ outer'[t] \in Seq(Frames) /\ Len(outer[t]) \in Nat \ {0}
        /\ Len(outer'[t]) = Len(outer[t]) - 1
        /\ \A e \in Nat : e < Len(outer[t]) - 1 =>
              outer'[t][Len(outer'[t]) - e] = outer[t][Len(outer[t]) - e]
    BY <1>1, <1>8, <2>1, PopFacts
  <2>3. outer' \in [Threads -> Seq(Frames)]
    BY <1>1, <1>2, <2>1, <2>2
  <2>4. /\ Depth(t)' = Depth(t) - 1 /\ Depth(t) > 0
        /\ \A u \in Threads \ {t} : Depth(u)' = Depth(u)
    BY <2>1, <2>2 DEF Depth
  <2>5. StackInv'
    BY <1>1, <1>3, <1>5, <1>8, <2>1, <2>4 DEF StackInv
  <2>6. OnlyAt(t, Depth(t), "idle")
    <3> SUFFICES ASSUME NEW u \in Threads, NEW e \in Depths
                 PROVE  /\ PlaceAt(u, e)' = IF u = t /\ e = Depth(t) THEN "idle" ELSE PlaceAt(u, e)
                        /\ (u # t \/ e # Depth(t)) /\ PlaceAt(u, e) \in Live
                             => CountAt(u, e)' = CountAt(u, e)
      BY DEF OnlyAt
    <3>1. CASE u # t
      BY <1>4, <1>5, <2>1, <2>4, <3>1 DEF PlaceAt, CountAt
    <3>2. CASE u = t /\ e < Depth(t) - 1
      <4>1. outer'[t][Depth(t)' - e] = outer[t][Depth(t) - e] /\ e < Depth(t)' /\ e < Depth(t)
        BY <1>1, <2>2, <2>4, <3>2 DEF Depth, Depths
      <4>2. PlaceAt(t, e)' = PlaceAt(t, e) /\ CountAt(t, e)' = CountAt(t, e)
        BY <4>1 DEF PlaceAt, CountAt
      <4> QED BY <1>1, <3>2, <4>2 DEF Depths
    <3>3. CASE u = t /\ e = Depth(t) - 1
      <4>1. Depth(t) - e = 1 /\ e < Depth(t) /\ e = Depth(t)' /\ ~(e < Depth(t)')
        BY <1>1, <2>4, <3>3
      <4>2. PlaceAt(t, e) = outer[t][1].place /\ CountAt(t, e) = outer[t][1].count
        BY <4>1 DEF PlaceAt, CountAt
      <4>3. PlaceAt(t, e)' = Doing(t)' /\ CountAt(t, e)' = count'[t]
        BY <4>1 DEF PlaceAt, CountAt
      <4> QED BY <1>1, <1>3, <1>4, <1>5, <1>8, <3>3, <4>1, <4>2, <4>3
    <3>4. CASE u = t /\ e >= Depth(t)
      <4>1. PlaceAt(t, e)' = "idle" /\ "idle" \notin Live
        BY <1>1, <2>4, <3>4 DEF PlaceAt, Live, Depths
      <4>2. e # Depth(t) => PlaceAt(t, e) = "idle"
        BY <1>1, <3>4 DEF PlaceAt, Depths
      <4> QED BY <3>4, <4>1, <4>2
    <3> QED BY <1>1, <3>1, <3>2, <3>3, <3>4 DEF Depths
  <2> QED BY <1>1, <1>3, <1>4, <1>6, <2>3, <2>5, <2>6
<1> QED BY <1>7, <1>8

(* A thread that calls reset_poison, goes on in it or comes back from it   *)
(* changes no level.                                                       *)
LEMMA ResetLevel ==
  ASSUME TypeOK, StackInv, NEW t \in Threads, UNCHANGED <<count, outer>>,
         NEW p \in Places, Goto(t, p), Doing(t)' = Doing(t),
         \A u \in Threads \ {t} : resume'[u] = resume[u]
  PROVE  /\ StackInv' /\ pc' \in [Threads -> Places]
         /\ SameLive
         /\ \A u \in Threads, d \in Depths : PlaceAt(u, d)' = PlaceAt(u, d)
         /\ pc'[t] = p /\ \A u \in Threads \ {t} : pc'[u] = pc[u]
<1>1. /\ pc' \in [Threads -> Places] /\ pc'[t] = p
      /\ \A u \in Threads \ {t} : pc'[u] = pc[u]
  BY DEF TypeOK, Goto
<1>2. \A u \in Threads : Doing(u)' = Doing(u) /\ Depth(u)' = Depth(u)
  BY <1>1 DEF Doing, Depth
<1>3. StackInv'
  BY <1>2 DEF StackInv
<1>4. \A u \in Threads, d \in Depths : PlaceAt(u, d)' = PlaceAt(u, d) /\ CountAt(u, d)' = CountAt(u, d)
  BY <1>2 DEF PlaceAt, CountAt
<1> QED BY <1>1, <1>3, <1>4 DEF SameLive
-----------------------------------------------------------------------------
(* There are as many levels as threads and depths, and Spent is some of    *)
(* them.                                                                   *)
LEMMA LevelsFinite ==
  ASSUME NEW S \in SUBSET (Threads \X Depths)
  PROVE  /\ IsFiniteSet(S) /\ Cardinality(S) \in Nat
         /\ Cardinality(S) <= Cardinality(Threads) * (MaxDepth + 1)
         /\ \A R \in SUBSET S : Cardinality(R) \in Nat /\ Cardinality(R) <= Cardinality(S)
<1>1. IsFiniteSet(Depths) /\ Cardinality(Depths) = MaxDepth + 1
  BY FS_Interval, PoisonAssumption DEF Depths
<1>2. /\ IsFiniteSet(Threads \X Depths)
      /\ Cardinality(Threads \X Depths) = Cardinality(Threads) * (MaxDepth + 1)
  BY <1>1, FS_Product, PoisonAssumption
<1>3. IsFiniteSet(S) /\ Cardinality(S) <= Cardinality(Threads \X Depths)
  BY <1>2, FS_Subset
<1>4. ASSUME NEW R \in SUBSET S
      PROVE  Cardinality(R) \in Nat /\ Cardinality(R) <= Cardinality(S)
  BY <1>3, FS_Subset, FS_CardinalityType
<1> QED BY <1>2, <1>3, <1>4, FS_CardinalityType

(* If no level is taken back and no fault counted, the bound stays.        *)
LEMMA SpentGrows ==
  ASSUME TypeOK, SpentInv, Spent \subseteq Spent', resets = 0,
         UNCHANGED <<sigbus_count, max_sigbus, panics>>
  PROVE  SpentInv'
<1>1. Cardinality(Spent) <= Cardinality(Spent') /\ Cardinality(Spent) \in Nat /\ Cardinality(Spent') \in Nat
  <2>1. Spent' \in SUBSET (Threads \X Depths)
    BY DEF Spent
  <2> QED BY <2>1, LevelsFinite
<1>2. /\ Threshold' = Threshold /\ Threshold \in Nat
      /\ sigbus_count \in Nat /\ panics \in Nat
  BY ThresholdFacts DEF Threshold, TypeOK
<1> QED BY <1>1, <1>2 DEF SpentInv

(* What is said of the time before the first reset holds trivially after.  *)
LEMMA AfterReset ==
  ASSUME resets' # 0 PROVE SightInv' /\ SpentInv' /\ LedgerInv'
BY DEF SightInv, SpentInv, LedgerInv

(* A step that records nothing.                                            *)
LEMMA QuietKeeps ==
  ASSUME IInv, TypeOK', StackInv', SameLive,
         UNCHANGED <<poisoned, sigbus_count, announced, resets>>,
         UNCHANGED <<max_sigbus, reordered, panics, unjudged>>,
         \A u \in Threads : mayRead'[u] \subseteq mayRead[u],
         \A u \in Threads : pc'[u] = pc[u] \/ (pc[u] \notin Resetting /\ pc'[u] \notin Resetting),
         resets = 0 => \A u \in Threads :
           pc'[u] = "faulted" \/ (pc'[u] = "access" /\ op'[u] \in Counted) => FALSE \in mayRead'[u]
  PROVE  IInv'
<1>1. ResetInv'
  BY DEF IInv, ResetInv, Resetting
<1>2. ExhaustedInv'
  <2> SUFFICES ASSUME ~reordered', sigbus_count' >= Threshold, ~poisoned', sigbus_count \notin unjudged
               PROVE  \/ \E t \in Threads : pc'[t] = "reset_count"
                      \/ \E t \in Threads, d \in Depths :
                           PlaceAt(t, d)' \in Pending /\ CountAt(t, d)' = sigbus_count
    BY DEF ExhaustedInv, Threshold
  <2>1. CASE \E t \in Threads : pc[t] = "reset_count"
    BY <2>1 DEF Resetting
  <2>2. CASE \E t \in Threads, d \in Depths :
               PlaceAt(t, d) \in Pending /\ CountAt(t, d) = sigbus_count
    BY <2>2 DEF SameLive, Pending
  <2> QED BY <2>1, <2>2 DEF IInv, ExhaustedInv
<1>3. SightInv'
  BY DEF IInv, SightInv, SameLive, Live
<1>4. SpentInv'
  <2>1. CASE resets = 0
    <3>1. Spent \subseteq Spent'
      BY DEF Spent, SameLive, Threshold
    <3> QED BY <2>1, <3>1, SpentGrows DEF IInv
  <2> QED BY <2>1 DEF SpentInv
<1>5. LedgerInv'
  <2> SUFFICES ASSUME Room, resets = 0 PROVE CountsInv' /\ UniqueInv' /\ AnnounceInv' /\ FlagInv'
    BY DEF LedgerInv
  <2>1. CountsInv /\ UniqueInv /\ AnnounceInv /\ FlagInv
    BY DEF IInv, LedgerInv
  <2>2. \A u \in Threads, e \in Depths, c \in Counts : LiveAt(u, e, c)' <=> LiveAt(u, e, c)
    BY DEF LiveAt, SameLive
  <2>3. CountsInv'
    BY <2>1 DEF CountsInv, SameLive, Threshold
  <2>4. UniqueInv'
    BY <2>1, <2>2 DEF UniqueInv
  <2>5. AnnounceInv'
    BY <2>1, <2>2 DEF AnnounceInv, Threshold
  <2>6. FlagInv'
    BY <2>1 DEF FlagInv, SameLive, Live
  <2> QED BY <2>3, <2>4, <2>5, <2>6
<1> QED BY <1>1, <1>2, <1>3, <1>4, <1>5 DEF IInv

(* A level that changes between places where nothing is recorded.          *)
LEMMA QuietLevel ==
  ASSUME NEW t \in Threads, NEW d \in Depths, NEW p, OnlyAt(t, d, p),
         PlaceAt(t, d) \notin Live, p \notin Live
  PROVE  SameLive
BY DEF OnlyAt, SameLive

(* check_poisoned never widens what a thread may read.                     *)
LEMMA LoadFacts ==
  ASSUME TypeOK, NEW t \in Threads, NEW v \in BOOLEAN, LoadPoisoned(t, v)
  PROVE  /\ mayRead' \in [Threads -> SUBSET BOOLEAN] /\ v \in mayRead'[t]
         /\ \A u \in Threads : mayRead'[u] \subseteq mayRead[u] /\ poisoned \in mayRead'[u]
         /\ \A u \in Threads \ {t} : mayRead'[u] = mayRead[u]
         /\ UNCHANGED <<poisoned, sigbus_count>>
BY DEF TypeOK, LoadPoisoned

(* An access begins; a counted one has just read FALSE from the flag.      *)
LEMMA EnterKeeps ==
  ASSUME IInv, NEW t \in Threads, NEW o \in Ops, EnterAccess(t, o),
         UNCHANGED <<max_sigbus, reordered, panics, unjudged>>,
         \/ o \in Counted /\ LoadPoisoned(t, FALSE)
         \/ o \notin Counted /\ UNCHANGED sharedVars
  PROVE  IInv'
<1>1. TypeOK /\ StackInv
  BY DEF IInv
<1>2. /\ StackInv' /\ outer' \in [Threads -> Seq(Frames)] /\ pc' \in [Threads -> Places]
      /\ op' \in [Threads -> Ops \union {None}]
      /\ pc'[t] = "access" /\ op'[t] = o
      /\ \A u \in Threads \ {t} : pc'[u] = pc[u] /\ op'[u] = op[u]
      /\ \E d \in Depths : PlaceAt(t, d) = "idle" /\ OnlyAt(t, d, "access")
  BY <1>1, EnterLevel
<1>3. SameLive
  BY <1>2, QuietLevel DEF Live
<1>4. /\ mayRead' \in [Threads -> SUBSET BOOLEAN]
      /\ \A u \in Threads : mayRead'[u] \subseteq mayRead[u] /\ poisoned \in mayRead'[u]
      /\ \A u \in Threads \ {t} : mayRead'[u] = mayRead[u]
      /\ o \in Counted => FALSE \in mayRead'[t]
      /\ UNCHANGED <<poisoned, sigbus_count>>
  BY <1>1, LoadFacts DEF sharedVars, TypeOK
<1>5. UNCHANGED <<count, resume, announced, resets>> /\ pc[t] \notin Resetting
  BY DEF EnterAccess, InUserCode, Resetting
<1>6. TypeOK'
  BY <1>1, <1>2, <1>4, <1>5 DEF TypeOK
<1>7. resets = 0 => \A u \in Threads :
         pc'[u] = "faulted" \/ (pc'[u] = "access" /\ op'[u] \in Counted) => FALSE \in mayRead'[u]
  BY <1>2, <1>4 DEF IInv, SightInv
<1>8. \A u \in Threads : pc'[u] = pc[u] \/ (pc[u] \notin Resetting /\ pc'[u] \notin Resetting)
  BY <1>2, <1>5 DEF Resetting
<1> QED BY <1>2, <1>3, <1>4, <1>5, <1>6, <1>7, <1>8, QuietKeeps

(* An access is refused; at most the thread now knows the flag is set.     *)
LEMMA RejectKeeps ==
  ASSUME IInv, NEW t \in Threads, Reject(t),
         UNCHANGED <<max_sigbus, reordered, panics, unjudged>>
  PROVE  IInv'
<1>1. TypeOK /\ StackInv
  BY DEF IInv
<1>2. UNCHANGED <<pc, op, count, outer, resume, announced, resets>> /\ LoadPoisoned(t, TRUE)
      /\ pc[t] \in {"idle", "counted", "announce"}
  BY DEF Reject, InUserCode
<1>3. /\ mayRead' \in [Threads -> SUBSET BOOLEAN]
      /\ \A u \in Threads : mayRead'[u] \subseteq mayRead[u] /\ poisoned \in mayRead'[u]
      /\ \A u \in Threads \ {t} : mayRead'[u] = mayRead[u]
      /\ UNCHANGED <<poisoned, sigbus_count>>
  BY <1>1, <1>2, LoadFacts
<1>4. TypeOK'
  BY <1>1, <1>2, <1>3 DEF TypeOK
<1>5. StackInv'
  BY <1>1, <1>2 DEF StackInv, Depth, Doing
<1>6. SameLive
  BY <1>2 DEF SameLive, PlaceAt, CountAt, Depth, Doing
<1>7. resets = 0 => \A u \in Threads :
         pc'[u] = "faulted" \/ (pc'[u] = "access" /\ op'[u] \in Counted) => FALSE \in mayRead'[u]
  BY <1>2, <1>3 DEF IInv, SightInv
<1> QED BY <1>2, <1>3, <1>4, <1>5, <1>6, <1>7, QuietKeeps

(* An access that ends without a fault to record.                          *)
LEMMA FinishKeeps ==
  ASSUME IInv, NEW t \in Threads, pc[t] = "access", Return(t),
         UNCHANGED <<sharedVars, resume, announced, resets>>,
         UNCHANGED <<max_sigbus, reordered, panics, unjudged>>
  PROVE  IInv'
<1>1. TypeOK /\ StackInv
  BY DEF IInv
<1>2. /\ StackInv' /\ outer' \in [Threads -> Seq(Frames)] /\ pc' \in [Threads -> Places]
      /\ op' \in [Threads -> Ops \union {None}] /\ count' \in [Threads -> Counts]
      /\ pc'[t] \in {"idle", "counted", "announce"}
      /\ \A u \in Threads \ {t} : pc'[u] = pc[u] /\ op'[u] = op[u]
      /\ \E d \in Depths : OnlyAt(t, d, "idle") /\ PlaceAt(t, d) = pc[t]
  BY <1>1, ReturnLevel
<1>3. SameLive
  BY <1>2, QuietLevel DEF Live
<1>4. UNCHANGED <<poisoned, mayRead, sigbus_count>>
  BY DEF sharedVars
<1>5. TypeOK'
  BY <1>1, <1>2, <1>4 DEF TypeOK, Counts
<1>6. resets = 0 => \A u \in Threads :
         pc'[u] = "faulted" \/ (pc'[u] = "access" /\ op'[u] \in Counted) => FALSE \in mayRead'[u]
  BY <1>2, <1>4 DEF IInv, SightInv
<1>7. \A u \in Threads : pc'[u] = pc[u] \/ (pc[u] \notin Resetting /\ pc'[u] \notin Resetting)
  BY <1>2 DEF Resetting
<1> QED BY <1>2, <1>3, <1>4, <1>5, <1>6, <1>7, QuietKeeps

(* A counted access faults; the thread has still not seen the flag.        *)
LEMMA TakeFaultKeeps ==
  ASSUME IInv, NEW t \in Threads, TakeFault(t),
         UNCHANGED <<max_sigbus, reordered, panics, unjudged>>
  PROVE  IInv'
<1>1. TypeOK /\ StackInv
  BY DEF IInv
<1>2. /\ pc[t] = "access" /\ op[t] \in Counted /\ Goto(t, "faulted")
      /\ op' = [op EXCEPT ![t] = None]
      /\ UNCHANGED <<poisoned, mayRead, sigbus_count, count, outer, resume, announced, resets>>
  BY DEF TakeFault, sharedVars
<1>3. count' = [count EXCEPT ![t] = count[t]] /\ count[t] \in Counts
  BY <1>1, <1>2 DEF TypeOK, Counts
<1>4. /\ StackInv' /\ pc' \in [Threads -> Places]
      /\ \E d \in Depths : OnlyAt(t, d, "faulted") /\ PlaceAt(t, d) = pc[t]
  BY <1>1, <1>2, <1>3, GotoLevel DEF Places, Resetting
<1>5. SameLive
  BY <1>2, <1>4, QuietLevel DEF Live
<1>6. /\ pc'[t] = "faulted" /\ op' \in [Threads -> Ops \union {None}]
      /\ \A u \in Threads \ {t} : pc'[u] = pc[u] /\ op'[u] = op[u]
  BY <1>1, <1>2 DEF TypeOK, Goto
<1>7. TypeOK'
  BY <1>1, <1>2, <1>4, <1>6 DEF TypeOK
<1>8. resets = 0 => \A u \in Threads :
         pc'[u] = "faulted" \/ (pc'[u] = "access" /\ op'[u] \in Counted) => FALSE \in mayRead'[u]
  BY <1>2, <1>6 DEF IInv, SightInv
<1>9. \A u \in Threads : pc'[u] = pc[u] \/ (pc[u] \notin Resetting /\ pc'[u] \notin Resetting)
  BY <1>2, <1>6 DEF Resetting
<1> QED BY <1>2, <1>4, <1>5, <1>7, <1>8, <1>9, QuietKeeps
-----------------------------------------------------------------------------
(* A recording goes on: to the comparison, to the store of the flag, or    *)
(* past it.                                                                *)
LEMMA AdvanceKeeps ==
  ASSUME IInv, NEW t \in Threads, NEW p \in Live, pc[t] \in Pending, Goto(t, p),
         UNCHANGED <<sigbus_count, op, count, outer, resume, announced, resets>>,
         UNCHANGED <<max_sigbus, reordered, panics, unjudged>>,
         \/ p \in Pending /\ UNCHANGED <<poisoned, mayRead>>
         \/ p = "announce" /\ pc[t] = "poisoning" /\ StorePoisoned(t, TRUE),
         p = "poisoning" => count[t] >= max_sigbus
  PROVE  IInv'
<1>1. TypeOK /\ StackInv
  BY DEF IInv
<1>2. count' = [count EXCEPT ![t] = count[t]] /\ count[t] \in Counts
  BY <1>1 DEF TypeOK, Counts
<1>3. PICK d \in Depths :
        /\ StackInv' /\ pc' \in [Threads -> Places] /\ OnlyAt(t, d, p)
        /\ PlaceAt(t, d) = pc[t]
        /\ CountAt(t, d) = count[t] /\ CountAt(t, d)' = count[t]
  <2>1. p \in Places \ Resetting /\ p # "idle" /\ pc[t] \notin Resetting
    BY DEF Places, Resetting, Live, Pending
  <2>2. UNCHANGED <<outer, resume>>
    OBVIOUS
  <2> QED BY <1>1, <1>2, <2>1, <2>2, GotoLevel
<1>4. pc'[t] = p /\ \A u \in Threads \ {t} : pc'[u] = pc[u]
  BY <1>1 DEF TypeOK, Goto
<1>5. /\ poisoned' \in BOOLEAN /\ mayRead' \in [Threads -> SUBSET BOOLEAN]
      /\ \A u \in Threads : poisoned' \in mayRead'[u]
      /\ \A u \in Threads \ {t} : FALSE \in mayRead'[u] <=> FALSE \in mayRead[u]
      /\ FALSE \in mayRead'[t] => FALSE \in mayRead[t]
      /\ p = "announce" => FALSE \notin mayRead'[t] /\ poisoned' = TRUE
      /\ p # "announce" => UNCHANGED <<poisoned, mayRead>>
  <2>1. CASE p \in Pending /\ UNCHANGED <<poisoned, mayRead>>
    BY <1>1, <2>1 DEF TypeOK, Pending
  <2>2. CASE p = "announce" /\ StorePoisoned(t, TRUE)
    <3>1. /\ poisoned' = TRUE /\ mayRead'[t] = {TRUE}
          /\ \A u \in Threads \ {t} : mayRead'[u] = mayRead[u] \union {TRUE}
          /\ mayRead' \in [Threads -> SUBSET BOOLEAN]
      BY <1>1, <2>2 DEF TypeOK, StorePoisoned
    <3>2. \A u \in Threads : poisoned' \in mayRead'[u]
      BY <3>1
    <3>3. FALSE \notin mayRead'[t]
      BY <3>1
    <3>4. \A u \in Threads \ {t} : FALSE \in mayRead'[u] <=> FALSE \in mayRead[u]
      BY <3>1
    <3> QED BY <2>2, <3>1, <3>2, <3>3, <3>4
  <2> QED BY <2>1, <2>2
<1>6. /\ \A u \in Threads, e \in Depths : u # t \/ e # d =>
           /\ PlaceAt(u, e)' = PlaceAt(u, e)
           /\ PlaceAt(u, e) \in Live => CountAt(u, e)' = CountAt(u, e)
      /\ PlaceAt(t, d)' = p /\ PlaceAt(t, d) \in Live
  BY <1>3 DEF OnlyAt, Pending
<1>7. \A u \in Threads, e \in Depths :
        /\ PlaceAt(u, e)' \in Live <=> PlaceAt(u, e) \in Live
        /\ PlaceAt(u, e) \in Live => CountAt(u, e)' = CountAt(u, e)
  BY <1>3, <1>6
<1>8. TypeOK'
  BY <1>1, <1>3, <1>5 DEF TypeOK
<1>9. ResetInv'
  BY <1>4 DEF IInv, ResetInv, Resetting, Live
<1>10. ExhaustedInv'
  <2> SUFFICES ASSUME ~reordered', sigbus_count' >= Threshold, ~poisoned', sigbus_count \notin unjudged
               PROVE  \/ \E u \in Threads : pc'[u] = "reset_count"
                      \/ \E u \in Threads, e \in Depths :
                           PlaceAt(u, e)' \in Pending /\ CountAt(u, e)' = sigbus_count
    BY DEF ExhaustedInv, Threshold
  <2>1. p # "announce" /\ p \in Pending
    BY <1>5 DEF Pending
  <2>4. ~poisoned
    BY <1>5, <2>1
  <2>2. CASE \E u \in Threads : pc[u] = "reset_count"
    BY <1>4, <2>2 DEF Pending, Live
  <2>3. CASE \E u \in Threads, e \in Depths :
               PlaceAt(u, e) \in Pending /\ CountAt(u, e) = sigbus_count
    <3>1. PICK u \in Threads, e \in Depths :
            PlaceAt(u, e) \in Pending /\ CountAt(u, e) = sigbus_count
      BY <2>3
    <3>2. PlaceAt(u, e)' \in Pending /\ CountAt(u, e)' = sigbus_count
      BY <1>6, <1>7, <2>1, <3>1 DEF Pending
    <3> QED BY <3>2
  <2> QED BY <2>2, <2>3, <2>4 DEF IInv, ExhaustedInv
<1>11. SightInv'
  <2> SUFFICES ASSUME resets = 0, NEW u \in Threads
               PROVE  /\ pc'[u] = "faulted" \/ (pc'[u] = "access" /\ op'[u] \in Counted)
                           => FALSE \in mayRead'[u]
                      /\ \A e \in Depths : PlaceAt(u, e)' = "announce" => FALSE \notin mayRead'[u]
    BY DEF SightInv
  <2>1. pc'[u] = "faulted" \/ (pc'[u] = "access" /\ op'[u] \in Counted) => FALSE \in mayRead'[u]
    BY <1>4, <1>5 DEF IInv, SightInv, Live
  <2>2. ASSUME NEW e \in Depths, PlaceAt(u, e)' = "announce" PROVE FALSE \notin mayRead'[u]
    <3>1. CASE u = t /\ e = d
      BY <1>5, <1>6, <2>2, <3>1
    <3>2. CASE u # t \/ e # d
      BY <1>5, <1>6, <2>2, <3>2 DEF IInv, SightInv
    <3> QED BY <3>1, <3>2
  <2> QED BY <2>1, <2>2
<1>12. SpentInv'
  <2>1. CASE resets = 0
    <3>1. Spent \subseteq Spent'
      BY <1>5, <1>7 DEF Spent, Threshold
    <3> QED BY <1>1, <2>1, <3>1, SpentGrows DEF IInv
  <2> QED BY <2>1 DEF SpentInv
<1>13. LedgerInv'
  <2> SUFFICES ASSUME Room, resets = 0 PROVE CountsInv' /\ UniqueInv' /\ AnnounceInv' /\ FlagInv'
    BY DEF LedgerInv
  <2>1. CountsInv /\ UniqueInv /\ AnnounceInv /\ FlagInv
    BY DEF IInv, LedgerInv
  <2>2. \A u \in Threads, e \in Depths, c \in Counts : LiveAt(u, e, c)' <=> LiveAt(u, e, c)
    BY <1>7 DEF LiveAt
  <2>3. CountsInv'
    <3>1. /\ count[t] \in (1..sigbus_count) \ unjudged /\ sigbus_count \in Nat
          /\ p \in {"poisoning", "announce"} => count[t] >= Threshold
      <4>1. sigbus_count \in Nat
        BY <1>1 DEF TypeOK
      <4>2. /\ count[t] \in (1..sigbus_count) \ unjudged
            /\ pc[t] = "poisoning" => count[t] >= Threshold
        BY <1>3, <1>6, <2>1 DEF CountsInv
      <4>3. count[t] \in Nat /\ count[t] >= 1
        BY <4>1, <4>2
      <4>4. p = "announce" => pc[t] = "poisoning"
        BY DEF Pending
      <4> QED BY <1>1, <4>1, <4>2, <4>3, <4>4, ThresholdFacts
    <3>2. ASSUME NEW u \in Threads, NEW e \in Depths, PlaceAt(u, e)' \in Live
          PROVE  /\ CountAt(u, e)' \in (1..sigbus_count') \ unjudged'
                 /\ PlaceAt(u, e)' \in {"poisoning", "announce"} => CountAt(u, e)' >= Threshold
      <4>1. CASE u = t /\ e = d
        BY <1>3, <1>6, <3>1, <4>1
      <4>2. CASE u # t \/ e # d
        BY <1>6, <2>1, <3>2, <4>2 DEF CountsInv
      <4> QED BY <4>1, <4>2
    <3> QED BY <2>1, <3>2 DEF CountsInv, Threshold
  <2>4. UniqueInv'
    BY <2>1, <2>2 DEF UniqueInv
  <2>5. AnnounceInv'
    BY <2>1, <2>2 DEF AnnounceInv, Threshold
  <2>6. FlagInv'
    <3>1. CASE p = "announce"
      BY <1>5, <1>6, <3>1 DEF FlagInv
    <3>2. CASE p # "announce"
      <4>1. \A u \in Threads, e \in Depths :
              PlaceAt(u, e)' = "announce" <=> PlaceAt(u, e) = "announce"
        BY <1>3, <1>6, <3>2 DEF Pending
      <4> QED BY <1>5, <2>1, <3>2, <4>1 DEF FlagInv
    <3> QED BY <3>1, <3>2
  <2> QED BY <2>3, <2>4, <2>5, <2>6
<1> QED BY <1>3, <1>8, <1>9, <1>10, <1>11, <1>12, <1>13 DEF IInv

(* A recording ends: without poisoning, because its count is below         *)
(* max_sigbus or its callback panics, or after the flag is stored and      *)
(* announced.  A panic gives the level back, but is itself counted.        *)
LEMMA EndKeeps ==
  ASSUME IInv, NEW t \in Threads, Return(t),
         UNCHANGED <<sharedVars, resume, resets, max_sigbus, reordered>>,
         \/ /\ pc[t] = "compare" /\ count[t] < max_sigbus
            /\ UNCHANGED <<announced, panics, unjudged>>
         \/ /\ pc[t] = "announce" /\ UNCHANGED <<panics, unjudged>>
            /\ announced' = IF resets = 0 THEN [announced EXCEPT ![count[t]] = @ + 1]
                                          ELSE announced
         \/ /\ pc[t] = "counted" /\ UNCHANGED announced
            /\ panics < MaxPanics /\ panics' = panics + 1
            /\ unjudged' = unjudged \union {count[t]}
  PROVE  IInv'
<1>1. TypeOK /\ StackInv
  BY DEF IInv
<1>2. PICK d \in Depths :
        /\ StackInv' /\ outer' \in [Threads -> Seq(Frames)] /\ pc' \in [Threads -> Places]
        /\ op' \in [Threads -> Ops \union {None}] /\ count' \in [Threads -> Counts]
        /\ pc'[t] \in {"idle", "counted", "announce"}
        /\ \A u \in Threads \ {t} : pc'[u] = pc[u] /\ op'[u] = op[u]
        /\ OnlyAt(t, d, "idle")
        /\ PlaceAt(t, d) = pc[t] /\ CountAt(t, d) = count[t]
  BY <1>1, ReturnLevel
<1>3. UNCHANGED <<poisoned, mayRead, sigbus_count>>
  BY DEF sharedVars
<1>4. /\ \A u \in Threads, e \in Depths : u # t \/ e # d =>
           /\ PlaceAt(u, e)' = PlaceAt(u, e)
           /\ PlaceAt(u, e) \in Live => CountAt(u, e)' = CountAt(u, e)
      /\ PlaceAt(t, d)' \notin Live
  BY <1>2 DEF OnlyAt, Live
<1>5. /\ count[t] \in Counts /\ announced \in [Counts -> Nat] /\ sigbus_count \in Nat
      /\ count[t] \in Nat /\ panics \in Nat /\ unjudged \subseteq Counts
  BY <1>1 DEF TypeOK, Counts
<1>6. /\ announced' \in [Counts -> Nat] /\ panics' \in 0..MaxPanics
      /\ unjudged' \subseteq Counts
  <2>1. announced' \in [Counts -> Nat]
    BY <1>5
  <2>2. panics' \in 0..MaxPanics
    <3>1. panics \in 0..MaxPanics /\ MaxPanics \in Nat
      BY <1>1, PoisonAssumption DEF TypeOK
    <3> QED BY <3>1
  <2>3. unjudged' \subseteq Counts
    BY <1>5
  <2> QED BY <2>1, <2>2, <2>3
<1>7. TypeOK'
  BY <1>1, <1>2, <1>3, <1>6 DEF TypeOK, Counts
<1>8. ResetInv'
  BY <1>2 DEF IInv, ResetInv, Resetting
<1>9. pc[t] = "compare" => count[t] < Threshold
  BY <1>1, <1>5, ThresholdFacts
<1>10. ExhaustedInv'
  <2> SUFFICES ASSUME ~reordered', sigbus_count' >= Threshold, ~poisoned', sigbus_count \notin unjudged'
               PROVE  \/ \E u \in Threads : pc'[u] = "reset_count"
                      \/ \E u \in Threads, e \in Depths :
                           PlaceAt(u, e)' \in Pending /\ CountAt(u, e)' = sigbus_count
    BY <1>3 DEF ExhaustedInv, Threshold
  <2>1. CASE \E u \in Threads : pc[u] = "reset_count"
    BY <1>2, <2>1
  <2>2. CASE \E u \in Threads, e \in Depths :
               PlaceAt(u, e) \in Pending /\ CountAt(u, e) = sigbus_count
    <3>1. PICK u \in Threads, e \in Depths :
            PlaceAt(u, e) \in Pending /\ CountAt(u, e) = sigbus_count
      BY <2>2
    <3>2. u # t \/ e # d
      <4>1. CASE pc[t] = "compare"
        BY <1>1, <1>2, <1>3, <1>5, <1>9, <3>1, <4>1, ThresholdFacts
      <4>2. CASE pc[t] = "announce"
        BY <1>2, <3>1, <4>2 DEF Pending
      <4>3. CASE pc[t] = "counted"
        BY <1>2, <3>1, <4>3
      <4> QED BY <4>1, <4>2, <4>3
    <3>3. PlaceAt(u, e)' \in Pending /\ CountAt(u, e)' = sigbus_count
      BY <1>4, <3>1, <3>2 DEF Pending
    <3> QED BY <3>3
  <2>3. sigbus_count \notin unjudged
    OBVIOUS
  <2> QED BY <1>3, <2>1, <2>2, <2>3 DEF IInv, ExhaustedInv
<1>11. SightInv'
  <2> SUFFICES ASSUME resets = 0, NEW u \in Threads
               PROVE  /\ pc'[u] = "faulted" \/ (pc'[u] = "access" /\ op'[u] \in Counted)
                           => FALSE \in mayRead'[u]
                      /\ \A e \in Depths : PlaceAt(u, e)' = "announce" => FALSE \notin mayRead'[u]
    BY DEF SightInv
  <2>1. pc'[u] = "faulted" \/ (pc'[u] = "access" /\ op'[u] \in Counted) => FALSE \in mayRead'[u]
    BY <1>2, <1>3 DEF IInv, SightInv
  <2>2. \A e \in Depths : PlaceAt(u, e)' = "announce" => FALSE \notin mayRead'[u]
    BY <1>3, <1>4 DEF IInv, SightInv, Live
  <2> QED BY <2>1, <2>2
<1>12. SpentInv'
  <2> SUFFICES ASSUME resets = 0 PROVE SpentInv'
    BY DEF SpentInv
  <2>1. ASSUME NEW x \in Spent, x # <<t, d>> PROVE x \in Spent'
    <3>1. x \in Threads \X Depths
      BY DEF Spent
    <3>2. x[1] \in Threads /\ x[2] \in Depths /\ (x[1] # t \/ x[2] # d)
      BY <2>1, <3>1
    <3> QED BY <1>3, <1>4, <3>1, <3>2 DEF Spent, Threshold
  <2>2. CASE pc[t] = "counted"
    <3> DEFINE More == Spent' \union {<<t, d>>}
    <3>1. Spent \subseteq More /\ More \in SUBSET (Threads \X Depths)
      <4>1. Spent \subseteq More
        BY <2>1
      <4>2. Spent' \in SUBSET (Threads \X Depths) /\ <<t, d>> \in Threads \X Depths
        BY DEF Spent
      <4> QED BY <4>1, <4>2
    <3>2. /\ Cardinality(Spent) \in Nat /\ Cardinality(Spent') \in Nat
          /\ Cardinality(Spent) <= Cardinality(More)
          /\ Cardinality(More) <= Cardinality(Spent') + 1
      <4>1. IsFiniteSet(Spent') /\ Cardinality(Spent') \in Nat
        BY LevelsFinite DEF Spent
      <4>2. Cardinality(More) <= Cardinality(Spent') + 1
        <5> DEFINE S == Spent'
                   x == <<t, d>>
        <5>1. IsFiniteSet(S) /\ Cardinality(S) \in Nat
          BY <4>1
        <5> HIDE DEF S, x
        <5>2. Cardinality(S \union {x}) <= Cardinality(S) + 1
          <6>1. CASE x \in S
            <7>1. S \union {x} = S
              BY <6>1
            <7> QED BY <5>1, <7>1
          <6>2. CASE x \notin S
            <7>1. Cardinality(S \union {x}) = Cardinality(S) + 1
              BY <5>1, <6>2, FS_AddElement
            <7> QED BY <5>1, <7>1
          <6> QED BY <6>1, <6>2
        <5> QED BY <5>2 DEF S, x
      <4> HIDE DEF More
      <4> QED BY <3>1, <4>1, <4>2, LevelsFinite
    <3> HIDE DEF More
    <3>3. /\ sigbus_count + 1 <= Threshold + Cardinality(Spent) + panics
          /\ panics' = panics + 1 /\ Cardinality(More) \in Nat
      BY <2>2, <3>1, LevelsFinite DEF IInv, SpentInv
    <3>4. Threshold' = Threshold /\ Threshold \in Nat
      BY <1>1, ThresholdFacts DEF Threshold
    <3> QED BY <1>3, <1>5, <3>2, <3>3, <3>4 DEF SpentInv
  <2>3. CASE pc[t] \in {"compare", "announce"}
    <3>1. <<t, d>> \in Spent => FALSE \notin mayRead[t]
      <4>1. CASE pc[t] = "announce"
        BY <1>2, <4>1 DEF IInv, SightInv
      <4>2. CASE pc[t] = "compare"
        <5>1. ~(CountAt(t, d) >= Threshold)
          BY <1>1, <1>2, <1>5, <1>9, <4>2, ThresholdFacts
        <5> QED BY <5>1 DEF Spent
      <4> QED BY <2>3, <4>1, <4>2
    <3>2. <<t, d>> \in Spent => <<t, d>> \in Spent'
      BY <1>3, <3>1 DEF Spent
    <3>3. Spent \subseteq Spent'
      BY <2>1, <3>2
    <3>4. UNCHANGED <<sigbus_count, max_sigbus, panics>>
      BY <1>3, <2>3
    <3> QED BY <1>1, <3>3, <3>4, SpentGrows DEF IInv
  <2> QED BY <2>2, <2>3
<1>13. LedgerInv'
  <2> SUFFICES ASSUME Room, resets = 0 PROVE CountsInv' /\ UniqueInv' /\ AnnounceInv' /\ FlagInv'
    BY DEF LedgerInv
  <2>1. CountsInv /\ UniqueInv /\ AnnounceInv /\ FlagInv
    BY DEF IInv, LedgerInv
  <2>2. \A u \in Threads, e \in Depths, c \in Counts :
          LiveAt(u, e, c)' <=> LiveAt(u, e, c) /\ (u # t \/ e # d)
    BY <1>4 DEF LiveAt
  <2>3. LiveAt(t, d, count[t])
    BY <1>2 DEF LiveAt, Live
  <2>4. /\ pc[t] = "announce" => count[t] >= Threshold
        /\ count[t] \in (1..sigbus_count) \ unjudged
    BY <1>2, <2>1 DEF CountsInv, Live
  <2>5. CountsInv'
    <3>1. unjudged' \subseteq 1..sigbus_count
      BY <2>1, <2>4 DEF CountsInv
    <3>2. ASSUME NEW u \in Threads, NEW e \in Depths, PlaceAt(u, e)' \in Live
          PROVE  /\ CountAt(u, e)' \in (1..sigbus_count) \ unjudged'
                 /\ PlaceAt(u, e)' \in {"poisoning", "announce"} => CountAt(u, e)' >= Threshold
      <4>1. /\ u # t \/ e # d
            /\ PlaceAt(u, e)' = PlaceAt(u, e) /\ CountAt(u, e)' = CountAt(u, e)
            /\ PlaceAt(u, e) \in Live
        BY <1>4, <3>2
      <4>2. /\ CountAt(u, e) \in (1..sigbus_count) \ unjudged
            /\ PlaceAt(u, e) \in {"poisoning", "announce"} => CountAt(u, e) >= Threshold
        BY <2>1, <4>1 DEF CountsInv
      <4>3. CountAt(u, e) # count[t]
        BY <1>5, <2>1, <2>3, <4>1 DEF UniqueInv, LiveAt
      <4> QED BY <4>1, <4>2, <4>3
    <3> QED BY <1>3, <3>1, <3>2 DEF CountsInv, Threshold
  <2>6. UniqueInv'
    BY <2>1, <2>2 DEF UniqueInv
  <2>7. AnnounceInv'
    <3> SUFFICES ASSUME NEW c \in Counts
                 PROVE  /\ announced'[c] \in {0, 1}
                        /\ announced'[c] = 1 =>
                             /\ c \in (Threshold..sigbus_count) \ unjudged'
                             /\ \A u \in Threads, e \in Depths : ~LiveAt(u, e, c)'
                        /\ c \in (Threshold..sigbus_count) \ unjudged' /\ announced'[c] = 0 =>
                             \E u \in Threads, e \in Depths : LiveAt(u, e, c)'
      BY <1>3 DEF AnnounceInv, Threshold
    <3>1. CASE c # count[t]
      <4>1. announced'[c] = announced[c] /\ (c \in unjudged' <=> c \in unjudged)
        BY <1>5, <3>1
      <4>2. \A u \in Threads, e \in Depths : LiveAt(u, e, c)' <=> LiveAt(u, e, c)
        BY <1>2, <2>2, <3>1 DEF LiveAt
      <4> QED BY <2>1, <4>1, <4>2 DEF AnnounceInv
    <3>2. CASE c = count[t]
      <4>1. announced[c] = 0
        BY <1>2, <2>1, <2>3, <3>2 DEF AnnounceInv
      <4>2. \A u \in Threads, e \in Depths : ~LiveAt(u, e, c)'
        BY <1>2, <2>1, <2>2, <2>3, <3>2 DEF UniqueInv
      <4>3. CASE pc[t] = "announce"
        <5>1. announced'[c] = 1 /\ unjudged' = unjudged
          BY <1>5, <3>2, <4>1, <4>3
        <5> QED BY <1>1, <1>5, <2>4, <3>2, <4>2, <4>3, <5>1, ThresholdFacts
      <4>4. CASE pc[t] = "compare"
        <5>1. announced'[c] = 0 /\ c < Threshold
          BY <1>9, <3>2, <4>1, <4>4
        <5> QED BY <1>1, <1>5, <3>2, <5>1, ThresholdFacts
      <4>5. CASE pc[t] = "counted"
        <5>1. announced'[c] = 0 /\ c \in unjudged'
          BY <3>2, <4>1, <4>5
        <5> QED BY <5>1
      <4> QED BY <4>3, <4>4, <4>5
    <3> QED BY <3>1, <3>2
  <2>8. FlagInv'
    <3>1. CASE pc[t] = "announce"
      <4>1. announced[count[t]] = 0 /\ announced'[count[t]] = 1
        BY <1>2, <1>5, <2>1, <2>3, <3>1 DEF AnnounceInv
      <4>2. poisoned
        BY <1>2, <2>1, <3>1 DEF FlagInv
      <4> QED BY <1>3, <1>5, <4>1, <4>2 DEF FlagInv
    <3>2. CASE pc[t] # "announce"
      <4>1. announced' = announced
        BY <3>2
      <4>2. \A u \in Threads, e \in Depths :
              PlaceAt(u, e)' = "announce" <=> PlaceAt(u, e) = "announce"
        BY <1>2, <1>4, <3>2 DEF Live
      <4> QED BY <1>3, <2>1, <4>1, <4>2 DEF FlagInv
    <3> QED BY <3>1, <3>2
  <2> QED BY <2>5, <2>6, <2>7, <2>8
<1> QED BY <1>2, <1>7, <1>8, <1>10, <1>11, <1>12, <1>13 DEF IInv

(* A fault is counted.  Before the first reset its level was not spent, so *)
(* the number of levels bounds the counter; if there is room it does not   *)
(* wrap, and its new value is no other recording's.                        *)
LEMMA CountKeeps ==
  ASSUME IInv, NEW t \in Threads, Count(t),
         UNCHANGED <<max_sigbus, reordered, panics, unjudged>>
  PROVE  IInv'
<1> DEFINE n == (sigbus_count + 1) % CountMod
<1>1. TypeOK /\ StackInv
  BY DEF IInv
<1>2. /\ pc[t] = "faulted" /\ Goto(t, "counted")
      /\ sigbus_count' = n /\ count' = [count EXCEPT ![t] = n]
      /\ UNCHANGED <<poisoned, mayRead, op, outer, resume, announced, resets>>
  BY DEF Count
<1>3. /\ CountMod \in Nat /\ CountMod > 0 /\ sigbus_count \in 0..(CountMod - 1)
      /\ n \in Counts /\ n \in Nat
      /\ n = IF sigbus_count + 1 < CountMod THEN sigbus_count + 1 ELSE 0
  <2>1. CountMod \in Nat /\ CountMod > 0 /\ sigbus_count \in 0..(CountMod - 1)
    BY <1>1, PoisonAssumption DEF TypeOK
  <2>2. n = IF sigbus_count + 1 < CountMod THEN sigbus_count + 1 ELSE 0
    <3>1. CASE sigbus_count + 1 < CountMod
      BY <2>1, <3>1
    <3>2. CASE sigbus_count + 1 = CountMod
      BY <2>1, <3>2
    <3> QED BY <2>1, <3>1, <3>2
  <2> QED BY <2>1, <2>2 DEF Counts
<1> HIDE DEF n
<1>4. PICK d \in Depths :
        /\ StackInv' /\ pc' \in [Threads -> Places] /\ OnlyAt(t, d, "counted")
        /\ PlaceAt(t, d) = "faulted" /\ CountAt(t, d)' = n
  <2>1. "counted" \in Places \ Resetting /\ pc[t] \notin Resetting
    BY <1>2 DEF Places, Resetting
  <2>2. /\ UNCHANGED <<outer, resume>> /\ Goto(t, "counted") /\ n \in Counts
        /\ count' = [count EXCEPT ![t] = n]
    BY <1>2, <1>3
  <2>3. \E d \in Depths :
          /\ StackInv' /\ pc' \in [Threads -> Places] /\ OnlyAt(t, d, "counted")
          /\ PlaceAt(t, d) = pc[t] /\ CountAt(t, d)' = n
    BY <1>1, <2>1, <2>2, GotoLevel
  <2> QED BY <1>2, <2>3
<1>5. pc'[t] = "counted" /\ \A u \in Threads \ {t} : pc'[u] = pc[u]
  BY <1>1, <1>2 DEF TypeOK, Goto
<1>6. /\ \A u \in Threads, e \in Depths : u # t \/ e # d =>
           /\ PlaceAt(u, e)' = PlaceAt(u, e)
           /\ PlaceAt(u, e) \in Live => CountAt(u, e)' = CountAt(u, e)
      /\ PlaceAt(t, d)' = "counted" /\ PlaceAt(t, d) \notin Live
  BY <1>4 DEF OnlyAt, Live
<1>7. TypeOK'
  BY <1>1, <1>2, <1>3, <1>4 DEF TypeOK, Counts
<1>8. ResetInv'
  BY <1>2, <1>5 DEF IInv, ResetInv, Resetting
<1>9. ExhaustedInv'
  <2>1. PlaceAt(t, d)' \in Pending /\ CountAt(t, d)' = n
    BY <1>4, <1>6 DEF Pending, Live
  <2> QED BY <1>2, <2>1 DEF ExhaustedInv, Threshold
<1>10. SightInv'
  <2> SUFFICES ASSUME resets = 0, NEW u \in Threads
               PROVE  /\ pc'[u] = "faulted" \/ (pc'[u] = "access" /\ op'[u] \in Counted)
                           => FALSE \in mayRead'[u]
                      /\ \A e \in Depths : PlaceAt(u, e)' = "announce" => FALSE \notin mayRead'[u]
    BY <1>2 DEF SightInv
  <2>1. pc'[u] = "faulted" \/ (pc'[u] = "access" /\ op'[u] \in Counted) => FALSE \in mayRead'[u]
    BY <1>2, <1>5 DEF IInv, SightInv
  <2>2. \A e \in Depths : PlaceAt(u, e)' = "announce" => FALSE \notin mayRead'[u]
    BY <1>2, <1>6 DEF IInv, SightInv
  <2> QED BY <2>1, <2>2
<1>11. ASSUME resets = 0
       PROVE  /\ Cardinality(Spent) \in Nat
              /\ Cardinality(Spent) + 1 <= Cardinality(Threads) * (MaxDepth + 1)
              /\ n >= Threshold => /\ Cardinality(Spent') \in Nat
                                   /\ Cardinality(Spent) + 1 <= Cardinality(Spent')
  <2> DEFINE More == Spent \union {<<t, d>>}
  <2>1. <<t, d>> \in Threads \X Depths /\ <<t, d>> \notin Spent
    <3>1. FALSE \in mayRead[t]
      BY <1>2, <1>11 DEF IInv, SightInv
    <3> QED BY <1>6, <3>1 DEF Spent
  <2>2. Spent \in SUBSET (Threads \X Depths) /\ More \in SUBSET (Threads \X Depths)
    BY <2>1 DEF Spent
  <2>3. Cardinality(Spent) \in Nat /\ Cardinality(More) = Cardinality(Spent) + 1
    BY <2>1, <2>2, LevelsFinite, FS_AddElement
  <2>4. ASSUME n >= Threshold
        PROVE  Cardinality(Spent') \in Nat /\ Cardinality(More) <= Cardinality(Spent')
    <3>1. Spent' \in SUBSET (Threads \X Depths)
      BY DEF Spent
    <3>2. ASSUME NEW x \in More PROVE x \in Spent'
      <4>1. CASE x = <<t, d>>
        BY <1>4, <1>6, <2>1, <2>4, <4>1 DEF Spent, Threshold, Live
      <4>2. CASE x \in Spent
        BY <1>2, <1>6, <4>2 DEF Spent, Threshold
      <4> QED BY <4>1, <4>2
    <3> QED BY <3>1, <3>2, LevelsFinite
  <2> HIDE DEF More
  <2> QED BY <2>2, <2>3, <2>4, LevelsFinite
<1>12. SpentInv'
  <2> SUFFICES ASSUME resets = 0 PROVE n + 1 <= Threshold + Cardinality(Spent') + panics
    BY <1>2 DEF SpentInv, Threshold
  <2>0. panics \in Nat
    BY <1>1 DEF TypeOK
  <2>1. CASE n < Threshold
    <3>1. Cardinality(Spent') \in Nat
      BY LevelsFinite DEF Spent
    <3> QED BY <1>1, <1>3, <2>0, <2>1, <3>1, ThresholdFacts
  <2>2. CASE n >= Threshold
    <3>1. sigbus_count + 1 <= Threshold + Cardinality(Spent) + panics
      BY DEF IInv, SpentInv
    <3>2. n = sigbus_count + 1
      BY <1>1, <1>3, <2>2, ThresholdFacts
    <3> QED BY <1>1, <1>3, <1>11, <2>0, <2>2, <3>1, <3>2, ThresholdFacts
  <2> QED BY <1>1, <1>3, <2>1, <2>2, ThresholdFacts
<1>13. LedgerInv'
  <2> SUFFICES ASSUME Room, resets = 0 PROVE CountsInv' /\ UniqueInv' /\ AnnounceInv' /\ FlagInv'
    BY <1>2 DEF LedgerInv
  <2>1. CountsInv /\ UniqueInv /\ AnnounceInv /\ FlagInv
    BY DEF IInv, LedgerInv
  <2>2. n = sigbus_count + 1
    <3>1. sigbus_count + 1 <= Threshold + Cardinality(Spent) + panics
      BY DEF IInv, SpentInv
    <3>2. sigbus_count + 1 < CountMod
      <4> DEFINE N == Cardinality(Threads) * (MaxDepth + 1)
                 S == Cardinality(Spent)
      <4>1. /\ S \in Nat /\ S + 1 <= N /\ N \in Nat
            /\ Threshold + N + MaxPanics <= CountMod
        <5>1. Cardinality(Threads) \in Nat /\ MaxDepth \in Nat
          BY PoisonAssumption, FS_CardinalityType
        <5> QED BY <1>1, <1>11, <5>1, ThresholdFacts
      <4> HIDE DEF N, S
      <4>2. sigbus_count + 1 <= Threshold + S + panics
        BY <3>1 DEF S
      <4>3. panics \in Nat /\ MaxPanics \in Nat /\ panics <= MaxPanics /\ Threshold \in Nat
        BY <1>1, PoisonAssumption, ThresholdFacts DEF TypeOK
      <4> QED BY <1>3, <4>1, <4>2, <4>3
    <3> QED BY <1>3, <3>2
  <2>3. /\ unjudged \subseteq 1..sigbus_count /\ n \notin unjudged
        /\ \A u \in Threads, e \in Depths : PlaceAt(u, e) \in Live =>
             CountAt(u, e) \in (1..sigbus_count) \ unjudged /\ CountAt(u, e) # n
    BY <1>3, <2>1, <2>2 DEF CountsInv
  <2>4. \A u \in Threads, e \in Depths, c \in Counts :
          LiveAt(u, e, c)' <=> IF u = t /\ e = d THEN c = n ELSE LiveAt(u, e, c)
    BY <1>4, <1>6 DEF LiveAt, Live
  <2>5. CountsInv'
    <3>1. unjudged \subseteq 1..n
      BY <1>3, <2>2, <2>3
    <3>2. ASSUME NEW u \in Threads, NEW e \in Depths, PlaceAt(u, e)' \in Live
          PROVE  /\ CountAt(u, e)' \in (1..n) \ unjudged
                 /\ PlaceAt(u, e)' \in {"poisoning", "announce"} => CountAt(u, e)' >= Threshold
      <4>1. CASE u = t /\ e = d
        BY <1>3, <1>4, <1>6, <2>2, <2>3, <4>1
      <4>2. CASE u # t \/ e # d
        <5>1. /\ PlaceAt(u, e)' = PlaceAt(u, e) /\ PlaceAt(u, e) \in Live
              /\ CountAt(u, e)' = CountAt(u, e)
          BY <1>6, <3>2, <4>2
        <5>2. /\ CountAt(u, e) \in (1..sigbus_count) \ unjudged
              /\ PlaceAt(u, e) \in {"poisoning", "announce"} => CountAt(u, e) >= Threshold
          BY <2>1, <5>1 DEF CountsInv
        <5>3. CountAt(u, e) \in 1..n
          BY <1>3, <2>2, <5>2
        <5> QED BY <5>1, <5>2, <5>3
      <4> QED BY <4>1, <4>2
    <3> QED BY <1>2, <3>1, <3>2 DEF CountsInv, Threshold
  <2>6. \A u \in Threads, e \in Depths : ~LiveAt(u, e, n)
    BY <2>3 DEF LiveAt
  <2>7. UniqueInv'
    BY <2>1, <2>4, <2>6 DEF UniqueInv
  <2>8. AnnounceInv'
    <3> SUFFICES ASSUME NEW c \in Counts
                 PROVE  /\ announced[c] \in {0, 1}
                        /\ announced[c] = 1 =>
                             /\ c \in (Threshold..n) \ unjudged
                             /\ \A u \in Threads, e \in Depths : ~LiveAt(u, e, c)'
                        /\ c \in (Threshold..n) \ unjudged /\ announced[c] = 0 =>
                             \E u \in Threads, e \in Depths : LiveAt(u, e, c)'
      BY <1>2 DEF AnnounceInv, Threshold
    <3>1. /\ announced[c] \in {0, 1}
          /\ announced[c] = 1 => /\ c \in (Threshold..sigbus_count) \ unjudged
                                 /\ \A u \in Threads, e \in Depths : ~LiveAt(u, e, c)
          /\ c \in (Threshold..sigbus_count) \ unjudged /\ announced[c] = 0 =>
               \E u \in Threads, e \in Depths : LiveAt(u, e, c)
      BY <2>1 DEF AnnounceInv
    <3>2. ASSUME announced[c] = 1
          PROVE  c \in (Threshold..n) \ unjudged /\ \A u \in Threads, e \in Depths : ~LiveAt(u, e, c)'
      <4>1. c \in (Threshold..n) \ unjudged /\ c # n
        BY <1>1, <1>3, <2>2, <3>1, <3>2, ThresholdFacts
      <4> QED BY <2>4, <3>1, <3>2, <4>1
    <3>3. ASSUME c \in (Threshold..n) \ unjudged, announced[c] = 0
          PROVE  \E u \in Threads, e \in Depths : LiveAt(u, e, c)'
      <4>1. CASE c = n
        BY <2>4, <4>1
      <4>2. CASE c # n
        <5>1. c \in (Threshold..sigbus_count) \ unjudged
          BY <1>1, <1>3, <2>2, <3>3, <4>2, ThresholdFacts
        <5>2. PICK u \in Threads, e \in Depths : LiveAt(u, e, c)
          BY <3>1, <3>3, <5>1
        <5>3. u # t \/ e # d
          BY <1>6, <5>2 DEF LiveAt
        <5> QED BY <2>4, <5>2, <5>3
      <4> QED BY <4>1, <4>2
    <3> QED BY <3>1, <3>2, <3>3
  <2>9. FlagInv'
    <3>1. \A u \in Threads, e \in Depths :
            PlaceAt(u, e)' = "announce" <=> PlaceAt(u, e) = "announce"
      BY <1>4, <1>6 DEF Live
    <3> QED BY <1>2, <2>1, <3>1 DEF FlagInv
  <2> QED BY <2>5, <2>7, <2>8, <2>9
<1> QED BY <1>4, <1>7, <1>8, <1>9, <1>10, <1>12, <1>13 DEF IInv

(* reset_poison is called, by a thread between accesses or by a callback.  *)
LEMMA CallResetKeeps ==
  ASSUME IInv, NEW t \in Threads, CallReset(t),
         UNCHANGED <<max_sigbus, reordered, panics, unjudged>>
  PROVE  IInv'
<1>1. TypeOK /\ StackInv /\ resets \in Nat /\ MaxResets \in Nat
  BY PoisonAssumption DEF IInv, TypeOK
<1>2. /\ pc[t] \in {"idle", "counted", "announce"} /\ Goto(t, "reset")
      /\ resets < MaxResets /\ resets' = resets + 1
      /\ resume' = [resume EXCEPT ![t] = pc[t]]
      /\ UNCHANGED <<poisoned, mayRead, sigbus_count, op, count, outer, announced>>
  BY DEF CallReset, InUserCode, sharedVars
<1>3. /\ resume' \in [Threads -> {"idle", "counted", "announce"}] /\ resume'[t] = pc[t]
      /\ \A u \in Threads \ {t} : resume'[u] = resume[u]
  BY <1>1, <1>2 DEF TypeOK
<1>4. Doing(t)' = Doing(t)
  BY <1>1, <1>2, <1>3 DEF Doing, Goto, TypeOK, Resetting
<1>5. /\ StackInv' /\ pc' \in [Threads -> Places] /\ SameLive
      /\ pc'[t] = "reset" /\ \A u \in Threads \ {t} : pc'[u] = pc[u]
  BY <1>1, <1>2, <1>3, <1>4, ResetLevel DEF Places
<1>6. resets' # 0 /\ resets' \in 0..MaxResets
  BY <1>1, <1>2
<1>7. TypeOK'
  BY <1>1, <1>2, <1>3, <1>5, <1>6 DEF TypeOK
<1>8. ResetInv'
  BY <1>5, <1>6 DEF IInv, ResetInv
<1>9. ExhaustedInv'
  BY <1>2, <1>5 DEF IInv, ExhaustedInv, SameLive, Pending, Threshold
<1> QED BY <1>5, <1>6, <1>7, <1>8, <1>9, AfterReset DEF IInv

(* A Relaxed store of FALSE.                                               *)
LEMMA ClearFacts ==
  ASSUME TypeOK, NEW t \in Threads, StorePoisoned(t, FALSE)
  PROVE  /\ poisoned' = FALSE /\ mayRead' \in [Threads -> SUBSET BOOLEAN]
         /\ \A u \in Threads : poisoned' \in mayRead'[u]
BY DEF TypeOK, StorePoisoned

(* The stores of reset_poison, in either order.  In program order the      *)
(* thread that has cleared the flag is still to clear the counter.         *)
LEMMA ResetPoisonKeeps ==
  ASSUME IInv, NEW t \in Threads, ResetPoison(t),
         UNCHANGED <<max_sigbus, op, count, outer, announced, resets, panics>>
  PROVE  IInv'
<1>1. TypeOK /\ StackInv /\ pc[t] \in Resetting
  BY DEF IInv, ResetPoison, Resetting
<1>2. resets' # 0
  BY <1>1 DEF IInv, ResetInv
<1>3. CASE \/ Goto(t, "reset_count") /\ UNCHANGED resume
           \/ Goto(t, "reset_flag") /\ UNCHANGED resume
  <2>1. PICK p \in {"reset_count", "reset_flag"} : Goto(t, p) /\ UNCHANGED resume
    BY <1>3
  <2>2. pc'[t] = p /\ Doing(t)' = Doing(t)
    BY <1>1, <2>1 DEF Doing, Goto, TypeOK, Resetting
  <2>3. /\ StackInv' /\ pc' \in [Threads -> Places] /\ SameLive
        /\ pc'[t] = p /\ \A u \in Threads \ {t} : pc'[u] = pc[u]
    BY <1>1, <2>1, <2>2, ResetLevel DEF Places
  <2>4. CASE pc[t] = "reset" /\ StorePoisoned(t, FALSE) /\ p = "reset_count"
             /\ UNCHANGED <<sigbus_count, unjudged, reordered>>
    <3>1. TypeOK'
      BY <1>1, <2>1, <2>3, <2>4, ClearFacts DEF TypeOK
    <3>2. ResetInv' /\ ExhaustedInv'
      BY <1>2, <2>3, <2>4 DEF IInv, ResetInv, ExhaustedInv
    <3> QED BY <1>2, <2>3, <3>1, <3>2, AfterReset DEF IInv
  <2>5. CASE pc[t] = "reset" /\ ClearCount /\ reordered' = TRUE
             /\ UNCHANGED <<poisoned, mayRead>>
    <3>1. TypeOK'
      BY <1>1, <2>1, <2>3, <2>5, PoisonAssumption DEF TypeOK, ClearCount
    <3>2. ResetInv' /\ ExhaustedInv'
      BY <1>2, <2>5 DEF ResetInv, ExhaustedInv
    <3> QED BY <1>2, <2>3, <3>1, <3>2, AfterReset DEF IInv
  <2>6. pc'[t] \in {"reset_count", "reset_flag"}
    BY <2>3
  <2>7. resume[t] \notin {"reset_count", "reset_flag"}
    BY <1>1 DEF TypeOK
  <2>8. pc'[t] # resume[t]
    BY <2>6, <2>7
  <2>9. ~Goto(t, resume[t])
    BY <1>1, <2>8 DEF Goto, TypeOK
  <2> QED BY <1>1, <2>2, <2>4, <2>5, <2>9 DEF ResetPoison, Goto, TypeOK
<1>4. CASE Goto(t, resume[t]) /\ resume' = [resume EXCEPT ![t] = "idle"]
  <2>1. /\ resume[t] \in {"idle", "counted", "announce"}
        /\ resume' \in [Threads -> {"idle", "counted", "announce"}]
        /\ \A u \in Threads \ {t} : resume'[u] = resume[u]
    BY <1>1, <1>4 DEF TypeOK
  <2>2. pc'[t] = resume[t] /\ Doing(t)' = Doing(t)
    BY <1>1, <1>4, <2>1 DEF Doing, Goto, TypeOK, Resetting
  <2>3. /\ StackInv' /\ pc' \in [Threads -> Places] /\ SameLive
        /\ pc'[t] = resume[t] /\ \A u \in Threads \ {t} : pc'[u] = pc[u]
    BY <1>1, <1>4, <2>1, <2>2, ResetLevel DEF Places
  <2>4. CASE pc[t] = "reset_count" /\ ClearCount
             /\ UNCHANGED <<poisoned, mayRead, reordered>>
    <3>1. TypeOK'
      BY <1>1, <2>1, <2>3, <2>4, PoisonAssumption DEF TypeOK, ClearCount
    <3>2. ResetInv'
      BY <1>2, <2>1, <2>3, <2>4 DEF IInv, ResetInv
    <3>3. ExhaustedInv'
      BY <1>1, <2>4, ThresholdFacts DEF ExhaustedInv, Threshold, ClearCount
    <3> QED BY <1>2, <2>3, <3>1, <3>2, <3>3, AfterReset DEF IInv
  <2>5. CASE pc[t] = "reset_flag" /\ StorePoisoned(t, FALSE)
             /\ UNCHANGED <<sigbus_count, unjudged, reordered>>
    <3>1. TypeOK'
      BY <1>1, <2>1, <2>3, <2>5, ClearFacts DEF TypeOK
    <3>2. reordered' /\ reordered
      BY <1>1, <2>5 DEF IInv, ResetInv, TypeOK
    <3>3. ResetInv' /\ ExhaustedInv'
      BY <1>2, <3>2 DEF ResetInv, ExhaustedInv
    <3> QED BY <1>2, <2>3, <3>1, <3>3, AfterReset DEF IInv
  <2>6. pc[t] # "reset"
    <3>1. pc[t] = "reset" => pc'[t] \in {"reset_count", "reset_flag"}
      BY <1>1 DEF ResetPoison, Goto, TypeOK
    <3> QED BY <2>1, <2>2, <3>1
  <2> QED BY <1>1, <2>4, <2>5, <2>6 DEF ResetPoison, Resetting
<1> QED BY <1>3, <1>4 DEF ResetPoison

(* with_max_sigbus: nothing is being recorded, and the counter is not held *)
(* against the new limit as it stands.                                     *)
LEMMA RetuneKeeps ==
  ASSUME IInv, NEW m \in Limits, WithMaxSigbus(m)
  PROVE  IInv'
<1>1. TypeOK /\ StackInv /\ resets \in Nat /\ MaxResets \in Nat
  BY PoisonAssumption DEF IInv, TypeOK
<1>2. /\ resets < MaxResets /\ resets' = resets + 1 /\ max_sigbus' = m
      /\ mayRead' = [t \in Threads |-> {poisoned}]
      /\ unjudged' = unjudged \union {sigbus_count}
      /\ UNCHANGED <<poisoned, sigbus_count, pc, op, count, outer, resume, announced,
                     reordered, panics>>
  BY DEF WithMaxSigbus
<1>3. resets' # 0 /\ resets' \in 0..MaxResets
  BY <1>1, <1>2
<1>4. /\ mayRead' \in [Threads -> SUBSET BOOLEAN]
      /\ \A t \in Threads : poisoned' \in mayRead'[t]
  BY <1>1, <1>2 DEF TypeOK
<1>5. TypeOK'
  BY <1>1, <1>2, <1>3, <1>4 DEF TypeOK
<1>6. StackInv'
  BY <1>1, <1>2 DEF StackInv, Depth, Doing
<1>7. ResetInv'
  BY <1>2, <1>3 DEF IInv, ResetInv
<1>8. ExhaustedInv'
  BY <1>2 DEF ExhaustedInv
<1> QED BY <1>3, <1>5, <1>6, <1>7, <1>8, AfterReset DEF IInv

-----------------------------------------------------------------------------
(* A fresh mapping has nothing counted and nobody in an access.            *)
LEMMA InitInv == Init => IInv
<1> SUFFICES ASSUME Init PROVE IInv
  OBVIOUS
<1>1. TypeOK
  <2>1. outer \in [Threads -> Seq(Frames)]
    BY DEF Init
  <2>2. 0 \in 0..(CountMod - 1) /\ 0 \in 0..MaxResets /\ 0 \in 0..MaxPanics
    BY PoisonAssumption
  <2> QED BY <2>1, <2>2 DEF Init, TypeOK, Places
<1>2. \A t \in Threads : outer[t] = <<>> /\ Depth(t) = 0 /\ Doing(t) = "idle"
  BY DEF Init, Depth, Doing, Resetting
<1>3. \A t \in Threads, d \in Depths : PlaceAt(t, d) = "idle"
  BY <1>2 DEF PlaceAt, Depths
<1>4. StackInv
  BY <1>2, PoisonAssumption DEF StackInv
<1>5. ResetInv
  BY DEF Init, ResetInv, Resetting
<1>6. ExhaustedInv
  BY <1>1, ThresholdFacts DEF Init, ExhaustedInv
<1>7. SightInv
  BY <1>3 DEF Init, SightInv
<1>8. SpentInv
  <2>1. Cardinality(Spent) \in Nat
    BY LevelsFinite DEF Spent
  <2> QED BY <1>1, <2>1, ThresholdFacts DEF Init, SpentInv
<1>9. LedgerInv
  <2>1. CountsInv
    BY <1>3 DEF Init, CountsInv, Live
  <2>2. UniqueInv
    BY <1>3 DEF UniqueInv, LiveAt, Live
  <2>3. AnnounceInv
    BY <1>1, ThresholdFacts DEF Init, AnnounceInv, Counts
  <2>4. FlagInv
    BY <1>3 DEF Init, FlagInv, Counts
  <2> QED BY <2>1, <2>2, <2>3, <2>4 DEF LedgerInv
<1> QED BY <1>1, <1>4, <1>5, <1>6, <1>7, <1>8, <1>9 DEF IInv

(* Every step of an access up to its fault.                                *)
LEMMA AccessKeeps ==
  ASSUME IInv, NEW t \in Threads, Access(t),
         UNCHANGED <<max_sigbus, reordered, panics, unjudged>>
  PROVE  IInv'
<1>1. CASE \E o \in Counted : Begin(t, o)
  BY <1>1, EnterKeeps DEF Begin, Ops
<1>2. CASE Reject(t)
  BY <1>2, RejectKeeps
<1>3. CASE BeginGuard(t)
  BY <1>3, EnterKeeps DEF BeginGuard, Ops, Counted
<1>4. CASE Finish(t) \/ TimeOut(t) \/ TakeGuardFault(t)
  BY <1>4, FinishKeeps DEF Finish, TimeOut, TakeGuardFault
<1>5. CASE TakeFault(t)
  BY <1>5, TakeFaultKeeps
<1> QED BY <1>1, <1>2, <1>3, <1>4, <1>5 DEF Access

(* Every step of record_sigbus_from.                                       *)
LEMMA RecordKeeps ==
  ASSUME IInv, NEW t \in Threads, RecordSigbus(t),
         UNCHANGED <<max_sigbus, reordered, panics, unjudged>>
  PROVE  IInv'
<1>1. CASE Count(t)
  BY <1>1, CountKeeps
<1>2. CASE EmitSigbus(t)
  BY <1>2, AdvanceKeeps DEF EmitSigbus, sharedVars, Live, Pending
<1>3. CASE Compare(t)
  <2>1. CASE Goto(t, "poisoning") /\ count[t] >= max_sigbus /\ UNCHANGED <<op, count, outer>>
    BY <1>3, <2>1, AdvanceKeeps DEF Compare, sharedVars, Live, Pending
  <2>2. CASE Return(t) /\ count[t] < max_sigbus
    BY <1>3, <2>2, EndKeeps DEF Compare
  <2> QED BY <1>3, <2>1, <2>2 DEF Compare
<1>4. CASE Poison(t)
  BY <1>4, AdvanceKeeps DEF Poison, Live, Pending
<1>5. CASE Announce(t)
  BY <1>5, EndKeeps DEF Announce
<1> QED BY <1>1, <1>2, <1>3, <1>4, <1>5 DEF RecordSigbus

(* The invariant of the counter, the flag and the callbacks: every step of *)
(* every thread keeps it, the counter wrapping or not.                     *)
THEOREM Inductive == Spec => []IInv
<1>1. IInv /\ [Next]_vars => IInv'
  <2> SUFFICES ASSUME IInv, [Next]_vars PROVE IInv'
    OBVIOUS
  <2>1. CASE UNCHANGED vars
    <3>1. /\ TypeOK /\ StackInv
          /\ UNCHANGED <<poisoned, mayRead, sigbus_count, pc, op, count, outer, resume>>
          /\ UNCHANGED <<announced, resets, max_sigbus, reordered, panics, unjudged>>
      BY <2>1 DEF IInv, vars, sharedVars, panicVars
    <3>2. TypeOK'
      BY <3>1 DEF TypeOK
    <3>3. StackInv' /\ SameLive
      BY <3>1 DEF StackInv, SameLive, PlaceAt, CountAt, Depth, Doing
    <3> QED BY <3>1, <3>2, <3>3, QuietKeeps DEF IInv, SightInv
  <2>2. ASSUME NEW t \in Threads, Access(t) \/ RecordSigbus(t) \/ CallReset(t),
               UNCHANGED <<max_sigbus, reordered, panicVars>>
        PROVE  IInv'
    <3>1. UNCHANGED <<max_sigbus, reordered, panics, unjudged>>
      BY <2>2 DEF panicVars
    <3> QED BY <2>2, <3>1, AccessKeeps, RecordKeeps, CallResetKeeps
  <2>3. ASSUME NEW t \in Threads, Unwind(t), UNCHANGED <<max_sigbus, reordered>>
        PROVE  IInv'
    BY <2>3, EndKeeps DEF Unwind
  <2>4. ASSUME NEW t \in Threads, ResetPoison(t),
               UNCHANGED <<max_sigbus, op, count, outer, announced, resets, panics>>
        PROVE  IInv'
    BY <2>4, ResetPoisonKeeps
  <2>5. ASSUME NEW m \in Limits, WithMaxSigbus(m) PROVE IInv'
    BY <2>5, RetuneKeeps
  <2> QED BY <2>1, <2>2, <2>3, <2>4, <2>5 DEF Next
<1> QED BY <1>1, InitInv, PTL DEF Spec

-----------------------------------------------------------------------------
(* Every variable has its type, and the newest value of the flag is always *)
(* one that every thread may read.                                         *)
THEOREM TypeCorrect == Spec => []TypeOK
<1>1. IInv => TypeOK
  BY DEF IInv
<1> QED BY <1>1, Inductive, PTL

(* Poisoning stops the counter: however late threads see the flag and      *)
(* however deep callbacks fault again, at most one fault for each thread   *)
(* and depth is counted beyond the last unpoisoned one, and one more for   *)
(* each callback that panics while record_sigbus_from waits for it.        *)
THEOREM OvershootIsBounded == Spec => []OvershootBounded
<1>1. IInv => OvershootBounded
  <2> SUFFICES ASSUME IInv, resets = 0
               PROVE  sigbus_count <=
                        Threshold - 1 + Cardinality(Threads) * (MaxDepth + 1) + panics
    BY DEF OvershootBounded
  <2> DEFINE N == Cardinality(Threads) * (MaxDepth + 1)
             S == Cardinality(Spent)
  <2>1. S \in Nat /\ S <= N
    BY LevelsFinite DEF Spent
  <2>2. /\ sigbus_count + 1 <= Threshold + S + panics /\ sigbus_count \in Nat
        /\ panics \in Nat /\ Threshold \in Nat
    BY ThresholdFacts DEF IInv, SpentInv, TypeOK
  <2>3. N \in Nat
    BY PoisonAssumption, FS_CardinalityType
  <2> HIDE DEF N, S
  <2>4. sigbus_count <= Threshold - 1 + N + panics
    BY <2>1, <2>2, <2>3
  <2> QED BY <2>4 DEF N
<1> QED BY <1>1, Inductive, PTL

(* When nothing is being recorded no level is live.                        *)
LEMMA QuiescentFacts ==
  ASSUME IInv, Quiescent, NEW t \in Threads
  PROVE  pc[t] # "reset_count" /\ \A d \in Depths : PlaceAt(t, d) \notin Live
<1>1. pc[t] \in {"idle", "access", "faulted"} /\ Depth(t) = 0
  BY DEF Quiescent, Depth
<1> QED BY <1>1 DEF PlaceAt, Doing, Resetting, Live, Depths

(* Resets in program order never hide an exhausted counter: the recording  *)
(* that brought it where it is sets the flag, unless the callback panicked *)
(* on that count or max_sigbus changed since, and a reset that clears the  *)
(* flag clears the counter afterwards.                                     *)
THEOREM ExhaustedIsPoisoned == Spec => []ExhaustedMeansPoisoned
<1>1. IInv => ExhaustedMeansPoisoned
  BY QuiescentFacts DEF ExhaustedMeansPoisoned, IInv, ExhaustedInv, Pending
<1> QED BY <1>1, Inductive, PTL

(* Before the first reset or change of max_sigbus, and with room in the    *)
(* 32-bit counter, a mapping at rest is poisoned exactly if some fault     *)
(* whose callback did not panic brought its counter to max_sigbus or more. *)
THEOREM PoisonedExactly == ASSUME Room PROVE Spec => []PoisonedIffExhausted
<1>1. IInv => PoisonedIffExhausted
  <2> SUFFICES ASSUME IInv, resets = 0, Quiescent
               PROVE  poisoned <=> \E c \in Threshold..sigbus_count : c \notin unjudged
    BY DEF PoisonedIffExhausted
  <2>1. AnnounceInv /\ FlagInv /\ poisoned \in BOOLEAN
    BY DEF IInv, LedgerInv, TypeOK
  <2>2. \A t \in Threads, d \in Depths : PlaceAt(t, d) \notin Live
    BY QuiescentFacts
  <2>3. Threshold..sigbus_count \subseteq Counts
    <3>1. /\ sigbus_count \in 0..(CountMod - 1) /\ CountMod \in Nat
          /\ Threshold \in Nat
      BY ThresholdFacts, PoisonAssumption DEF IInv, TypeOK
    <3> QED BY <3>1 DEF Counts
  <2>4. \A c \in Counts : announced[c] = 1 <=> c \in (Threshold..sigbus_count) \ unjudged
    BY <2>1, <2>2 DEF AnnounceInv, LiveAt
  <2>5. poisoned <=> \E c \in Counts : announced[c] = 1
    BY <2>1, <2>2 DEF FlagInv, Live
  <2> QED BY <2>3, <2>4, <2>5
<1> QED BY <1>1, Inductive, PTL

(* Before the first reset or change of max_sigbus, and with room in the    *)
(* counter, when nothing is being recorded the callback has heard of       *)
(* poisoning exactly once for each count from max_sigbus on, save those    *)
(* whose Sigbus event made it panic.                                       *)
THEOREM AnnouncedOnce == ASSUME Room PROVE Spec => []AnnouncedExactly
<1>1. IInv => AnnouncedExactly
  <2> SUFFICES ASSUME IInv, resets = 0, Quiescent, NEW c \in Counts
               PROVE  announced[c] = IF c \in (Threshold..sigbus_count) \ unjudged THEN 1 ELSE 0
    BY DEF AnnouncedExactly, IInv, TypeOK, Counts
  <2>1. \A t \in Threads, d \in Depths : ~LiveAt(t, d, c)
    BY QuiescentFacts DEF LiveAt
  <2> QED BY <2>1 DEF IInv, LedgerInv, AnnounceInv
<1> QED BY <1>1, Inductive, PTL
==============================================================================
