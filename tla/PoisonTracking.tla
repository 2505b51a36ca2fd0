--------------------------- MODULE PoisonTracking ---------------------------
(***************************************************************************)
(* Fault counting and poisoning of one SafeMmap shared by several threads  *)
(* (mmap/mod.rs: check_poisoned, record_sigbus_from, reset_poison and the  *)
(* accesses built on them; mmap/guard.rs: ReadGuard::read).                *)
(*                                                                         *)
(* poisoned and sigbus_count are two atomics with Relaxed ordering.  A     *)
(* fetch_add always acts on the newest count; a load of poisoned may       *)
(* return any value the thread has not yet seen overwritten (mayRead), and *)
(* the two stores of reset_poison may take effect in either order.         *)
(* What an access does with the bytes, and which bytes, is left out: it    *)
(* succeeds, is refused, times out or takes a SIGBUS, which                *)
(* with_sigbus_protection hands back (SigbusProtection).                   *)
(***************************************************************************)
EXTENDS Naturals, FiniteSets, Sequences

CONSTANTS
  Threads,
  Limits,      \* the values max_sigbus may be given
  CountMod,    \* 2^32: the range of AtomicU32
  MaxResets,   \* how often reset_poison or with_max_sigbus may be called
  MaxPanics,   \* how often the event callback may panic
  MaxDepth,    \* how deep event callbacks may access the mapping again
  None         \* no access

ASSUME PoisonAssumption ==
  /\ IsFiniteSet(Threads)
  /\ CountMod \in Nat \ {0}
  /\ Limits \subseteq 0..(CountMod - 1)
  /\ MaxResets \in Nat /\ MaxPanics \in Nat /\ MaxDepth \in Nat

VARIABLES
  poisoned,      \* SafeMmap.poisoned, the newest value
  mayRead,       \* the values a thread's next load of poisoned may return
  sigbus_count,  \* SafeMmap.sigbus_count
  max_sigbus,    \* SafeMmap.max_sigbus
  pc,            \* what each thread is about to do
  op,            \* the access it is carrying out, until that ends or faults
  count,         \* local count of record_sigbus_from
  outer,         \* recordings suspended in the callback that accesses again
  resume,        \* where a thread continues after reset_poison
  announced,     \* history: how often Poisoned { sigbus_count } was emitted before a reset
  resets,        \* history: calls of reset_poison and with_max_sigbus
  reordered,     \* history: a reset_poison took effect counter first
  panics,        \* history: recordings cut short because the callback panicked
  unjudged       \* history: counts not held against max_sigbus as it is now

sharedVars == <<poisoned, mayRead, sigbus_count>>
panicVars == <<panics, unjudged>>
vars == <<sharedVars, max_sigbus, pc, op, count, outer, resume, announced, resets,
          reordered, panicVars>>

(* The accesses that ask check_poisoned first: "direct" is read, write,    *)
(* read_into or probe, "prefetch" is prefetch_with_timeout.  "guard" is a  *)
(* read through SafeMmap::guard(), which does not ask.                     *)
Counted == {"direct", "prefetch"}
Ops == Counted \union {"guard"}

(* A recording suspended in the callback of its Sigbus or Poisoned event.  *)
Frames == [place : {"counted", "announce"}, count : 0..(CountMod - 1)]

Places == {"idle", "access", "faulted", "counted", "compare", "poisoning",
           "announce", "reset", "reset_count", "reset_flag"}

(* The count that poisons; record_sigbus_from compares after adding one.   *)
Threshold == IF max_sigbus = 0 THEN 1 ELSE max_sigbus

Init ==
  /\ poisoned = FALSE
  /\ mayRead = [t \in Threads |-> {FALSE}]
  /\ sigbus_count = 0
  /\ max_sigbus \in Limits
  /\ pc = [t \in Threads |-> "idle"]
  /\ op = [t \in Threads |-> None]
  /\ count = [t \in Threads |-> 0]
  /\ outer = [t \in Threads |-> <<>>]
  /\ resume = [t \in Threads |-> "idle"]
  /\ announced = [c \in 0..(CountMod - 1) |-> 0]
  /\ resets = 0
  /\ reordered = FALSE
  /\ panics = 0
  /\ unjudged = {}

Goto(t, place) == pc' = [pc EXCEPT ![t] = place]

(* User code runs: between accesses, or in the callback of an event.       *)
InUserCode(t) == pc[t] \in {"idle", "counted", "announce"}

(* An access begins; one begun in a callback suspends the recording.       *)
EnterAccess(t, o) ==
  /\ InUserCode(t)
  /\ op' = [op EXCEPT ![t] = o]
  /\ Goto(t, "access")
  /\ IF pc[t] = "idle"
     THEN UNCHANGED outer
     ELSE /\ Len(outer[t]) < MaxDepth
          /\ outer' = [outer EXCEPT ![t] = <<[place |-> pc[t], count |-> count[t]]>> \o @]
  /\ UNCHANGED <<count, resume, announced, resets>>

(* An access returns to its caller, which may be a callback.               *)
Return(t) ==
  LET caller == IF outer[t] = <<>> THEN [place |-> "idle", count |-> 0] ELSE Head(outer[t])
  IN /\ op' = [op EXCEPT ![t] = None]
     /\ count' = [count EXCEPT ![t] = caller.count]
     /\ outer' = [outer EXCEPT ![t] = IF @ = <<>> THEN @ ELSE Tail(@)]
     /\ Goto(t, caller.place)

(* sigbus_count.store(0); the history begins again with the counts.        *)
ClearCount == sigbus_count' = 0 /\ unjudged' = {}

-----------------------------------------------------------------------------
(* Faulty variants of the definitions below.                               *)

(* The flag is not shared: only the thread that stores it ever reads it.   *)
StorePrivately(t, v) ==
  /\ poisoned' = v
  /\ mayRead' = [mayRead EXCEPT ![t] = {v}]

(* An access does not ask check_poisoned.                                  *)
BeginUnchecked(t, o) == EnterAccess(t, o) /\ UNCHANGED sharedVars

(* count > max_sigbus instead of count >= max_sigbus.                      *)
CompareStrictly(t) ==
  /\ pc[t] = "compare"
  /\ \/ /\ count[t] > max_sigbus
        /\ Goto(t, "poisoning")
        /\ UNCHANGED <<op, count, outer>>
     \/ /\ count[t] <= max_sigbus
        /\ Return(t)
  /\ UNCHANGED <<sharedVars, resume, announced, resets>>

(* The event carries a fresh load of the counter, not the local count.     *)
AnnounceReloaded(t) ==
  /\ pc[t] = "announce"
  /\ announced' = IF resets = 0 THEN [announced EXCEPT ![sigbus_count] = @ + 1] ELSE announced
  /\ Return(t)
  /\ UNCHANGED <<sharedVars, resume, resets>>

(* reset_poison clears the counter first and the flag second.              *)
ResetCountFirst(t) ==
  \/ /\ pc[t] = "reset"
     /\ ClearCount
     /\ Goto(t, "reset_flag")
     /\ UNCHANGED <<poisoned, mayRead, resume, reordered>>
  \/ /\ pc[t] = "reset_flag"
     /\ poisoned' = FALSE
     /\ mayRead' = [u \in Threads |-> IF u = t THEN {FALSE} ELSE mayRead[u] \union {FALSE}]
     /\ Goto(t, resume[t])
     /\ resume' = [resume EXCEPT ![t] = "idle"]
     /\ UNCHANGED <<sigbus_count, unjudged, reordered>>

-----------------------------------------------------------------------------
(* A Relaxed store to poisoned: t has seen it, the others may or may not.  *)
StorePoisoned(t, v) ==
  /\ poisoned' = v
  /\ mayRead' = [u \in Threads |-> IF u = t THEN {v} ELSE mayRead[u] \union {v}]

(* check_poisoned: a Relaxed load of poisoned returned v.  Once the newest *)
(* value has been seen no older one can be.                                *)
LoadPoisoned(t, v) ==
  /\ v \in mayRead[t]
  /\ mayRead' = [mayRead EXCEPT ![t] = IF v = poisoned THEN {v} ELSE @]
  /\ UNCHANGED <<poisoned, sigbus_count>>

(* read, write, read_into, probe and prefetch_with_timeout on a mapping    *)
(* that is not seen to be poisoned.                                        *)
Begin(t, o) == LoadPoisoned(t, FALSE) /\ EnterAccess(t, o)

(* The same on one that is: Err(Poisoned).                                 *)
Reject(t) ==
  /\ InUserCode(t)
  /\ LoadPoisoned(t, TRUE)
  /\ UNCHANGED <<pc, op, count, outer, resume, announced, resets>>

(* guard().read(): straight to the memory.                                 *)
BeginGuard(t) == EnterAccess(t, "guard") /\ UNCHANGED sharedVars

(* The bytes were there, or the range is out of bounds or, for a write,    *)
(* the mapping read-only: nothing is recorded.                             *)
Finish(t) ==
  /\ pc[t] = "access"
  /\ Return(t)
  /\ UNCHANGED <<sharedVars, resume, announced, resets>>

(* prefetch_with_timeout missed its deadline: an event, no fault.  What    *)
(* its callback does is done by user code after the return.                *)
TimeOut(t) ==
  /\ pc[t] = "access" /\ op[t] = "prefetch"
  /\ Return(t)
  /\ UNCHANGED <<sharedVars, resume, announced, resets>>

(* The access took a SIGBUS and is to be recorded.                         *)
TakeFault(t) ==
  /\ pc[t] = "access" /\ op[t] \in Counted
  /\ op' = [op EXCEPT ![t] = None]
  /\ Goto(t, "faulted")
  /\ UNCHANGED <<sharedVars, count, outer, resume, announced, resets>>

(* ReadGuard::read took a SIGBUS: Err(Sigbus), and nothing else.           *)
TakeGuardFault(t) ==
  /\ pc[t] = "access" /\ op[t] = "guard"
  /\ Return(t)
  /\ UNCHANGED <<sharedVars, resume, announced, resets>>

(* record_sigbus_from: fetch_add(1) + 1.                                   *)
Count(t) ==
  /\ pc[t] = "faulted"
  /\ sigbus_count' = (sigbus_count + 1) % CountMod
  /\ count' = [count EXCEPT ![t] = (sigbus_count + 1) % CountMod]
  /\ Goto(t, "counted")
  /\ UNCHANGED <<poisoned, mayRead, op, outer, resume, announced, resets>>

(* record_sigbus_from: emit_event(Sigbus), and the callback returns.       *)
EmitSigbus(t) ==
  /\ pc[t] = "counted"
  /\ Goto(t, "compare")
  /\ UNCHANGED <<sharedVars, op, count, outer, resume, announced, resets>>

(* The callback of emit_event(Sigbus) panics: record_sigbus_from unwinds   *)
(* before it has compared, and the access with it.  The panic arrives in   *)
(* the code that called; if that is a callback it may catch it, or panic   *)
(* in its turn.                                                            *)
Unwind(t) ==
  /\ pc[t] = "counted"
  /\ panics < MaxPanics
  /\ panics' = panics + 1
  /\ unjudged' = unjudged \union {count[t]}
  /\ Return(t)
  /\ UNCHANGED <<sharedVars, resume, announced, resets>>

(* record_sigbus_from: if count >= self.max_sigbus.                        *)
Compare(t) ==
  /\ pc[t] = "compare"
  /\ \/ /\ count[t] >= max_sigbus
        /\ Goto(t, "poisoning")
        /\ UNCHANGED <<op, count, outer>>
     \/ /\ count[t] < max_sigbus
        /\ Return(t)
  /\ UNCHANGED <<sharedVars, resume, announced, resets>>

(* record_sigbus_from: self.poisoned.store(true).                          *)
Poison(t) ==
  /\ pc[t] = "poisoning"
  /\ StorePoisoned(t, TRUE)
  /\ Goto(t, "announce")
  /\ UNCHANGED <<sigbus_count, op, count, outer, resume, announced, resets>>

(* record_sigbus_from: emit_event(Poisoned { sigbus_count: count }).  The  *)
(* recording is over, whether the callback returns or panics.              *)
Announce(t) ==
  /\ pc[t] = "announce"
  /\ announced' = IF resets = 0 THEN [announced EXCEPT ![count[t]] = @ + 1] ELSE announced
  /\ Return(t)
  /\ UNCHANGED <<sharedVars, resume, resets>>

(* A thread between accesses calls reset_poison, or the callback does      *)
(* while it is told of a fault or of the poisoning that is being recorded. *)
CallReset(t) ==
  /\ InUserCode(t)
  /\ resets < MaxResets
  /\ resets' = resets + 1
  /\ resume' = [resume EXCEPT ![t] = pc[t]]
  /\ Goto(t, "reset")
  /\ UNCHANGED <<sharedVars, op, count, outer, announced>>

(* The stores of reset_poison: poisoned.store(false), then                 *)
(* sigbus_count.store(0).  Both are Relaxed and to different locations, so *)
(* nothing keeps other threads from seeing them the other way round.       *)
ResetPoison(t) ==
  \/ /\ pc[t] = "reset"
     /\ StorePoisoned(t, FALSE)
     /\ Goto(t, "reset_count")
     /\ UNCHANGED <<sigbus_count, unjudged, resume, reordered>>
  \/ /\ pc[t] = "reset"
     /\ ClearCount
     /\ reordered' = TRUE
     /\ Goto(t, "reset_flag")
     /\ UNCHANGED <<poisoned, mayRead, resume>>
  \/ /\ pc[t] = "reset_count"
     /\ ClearCount
     /\ Goto(t, resume[t])
     /\ resume' = [resume EXCEPT ![t] = "idle"]
     /\ UNCHANGED <<poisoned, mayRead, reordered>>
  \/ /\ pc[t] = "reset_flag"
     /\ StorePoisoned(t, FALSE)
     /\ Goto(t, resume[t])
     /\ resume' = [resume EXCEPT ![t] = "idle"]
     /\ UNCHANGED <<sigbus_count, unjudged, reordered>>

(* with_max_sigbus takes the mapping by value: nobody else is using it,    *)
(* and whoever gets it next has seen all stores.  Faults that are already  *)
(* counted are not held against the new limit.                             *)
WithMaxSigbus(m) ==
  /\ \A t \in Threads : pc[t] = "idle"
  /\ resets < MaxResets
  /\ resets' = resets + 1
  /\ max_sigbus' = m
  /\ mayRead' = [t \in Threads |-> {poisoned}]
  /\ unjudged' = unjudged \union {sigbus_count}
  /\ UNCHANGED <<poisoned, sigbus_count, pc, op, count, outer, resume, announced,
                 reordered, panics>>

Access(t) ==
  \/ \E o \in Counted : Begin(t, o)
  \/ Reject(t)
  \/ BeginGuard(t)
  \/ Finish(t)
  \/ TimeOut(t)
  \/ TakeFault(t)
  \/ TakeGuardFault(t)

RecordSigbus(t) ==
  \/ Count(t)
  \/ EmitSigbus(t)
  \/ Compare(t)
  \/ Poison(t)
  \/ Announce(t)

Next ==
  \/ \E t \in Threads :
       \/ /\ Access(t) \/ RecordSigbus(t) \/ CallReset(t)
          /\ UNCHANGED <<max_sigbus, reordered, panicVars>>
       \/ Unwind(t) /\ UNCHANGED <<max_sigbus, reordered>>
       \/ ResetPoison(t) /\ UNCHANGED <<max_sigbus, op, count, outer, announced, resets, panics>>
  \/ \E m \in Limits : WithMaxSigbus(m)

Spec == Init /\ [][Next]_vars

-----------------------------------------------------------------------------
TypeOK ==
  /\ poisoned \in BOOLEAN
  /\ mayRead \in [Threads -> SUBSET BOOLEAN]
  /\ \A t \in Threads : poisoned \in mayRead[t]
  /\ sigbus_count \in 0..(CountMod - 1)
  /\ max_sigbus \in Limits
  /\ pc \in [Threads -> Places]
  /\ op \in [Threads -> Ops \union {None}]
  /\ count \in [Threads -> 0..(CountMod - 1)]
  /\ outer \in [Threads -> Seq(Frames)]
  /\ resume \in [Threads -> {"idle", "counted", "announce"}]
  /\ announced \in [0..(CountMod - 1) -> Nat]
  /\ resets \in 0..MaxResets
  /\ reordered \in BOOLEAN
  /\ panics \in 0..MaxPanics
  /\ unjudged \subseteq 0..(CountMod - 1)

Quiescent ==
  \A t \in Threads : pc[t] \in {"idle", "access", "faulted"} /\ outer[t] = <<>>

(* Poisoning stops the counter: although the flag is set a while after the *)
(* counter reaches max_sigbus, other threads may go on missing it, and     *)
(* callbacks may fault again before it is set, at most one fault for each  *)
(* thread and depth of callback is counted beyond the last unpoisoned one, *)
(* and one more for each callback that panics before its fault poisons.    *)
OvershootBounded ==
  resets = 0 =>
    sigbus_count <= Threshold - 1 + Cardinality(Threads) * (MaxDepth + 1) + panics

(* No poisoning is lost but by a panic, and none is early: once every      *)
(* fault that has been counted is recorded, the mapping is poisoned        *)
(* exactly if the counter reached max_sigbus or more by some fault whose   *)
(* callback did not panic.                                                 *)
PoisonedIffExhausted ==
  resets = 0 /\ Quiescent =>
    (poisoned <=> \E c \in Threshold..sigbus_count : c \notin unjudged)

(* The callback hears of poisoning exactly once for every count from the   *)
(* poisoning one on, save those whose Sigbus event made it panic, and      *)
(* never for a smaller one.                                                *)
AnnouncedExactly ==
  resets = 0 /\ Quiescent =>
    \A c \in DOMAIN announced :
      announced[c] = IF c \in (Threshold..sigbus_count) \ unjudged THEN 1 ELSE 0

(* Resets never hide an exhausted counter: whatever reset_poison races     *)
(* with, a mapping whose counter has reached max_sigbus ends up poisoned,  *)
(* provided every reset took effect in program order, flag before counter  *)
(* (as on hardware that keeps the order of stores), and unless the         *)
(* callback panicked on a fault with the very count the counter shows, or  *)
(* max_sigbus was changed while it showed it.                              *)
ExhaustedMeansPoisoned ==
  Quiescent /\ ~reordered /\ sigbus_count >= Threshold /\ sigbus_count \notin unjudged =>
    poisoned

(* "The fault counter is reset to zero and the poisoned flag is cleared"   *)
(* (reset_poison): once nothing is being recorded or reset, a mapping is   *)
(* poisoned only by faults its counter still shows.                        *)
PoisonedMeansExhausted ==
  Quiescent /\ poisoned => sigbus_count >= Threshold
==============================================================================
