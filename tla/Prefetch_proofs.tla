--------------------------- MODULE Prefetch_proofs ---------------------------
(***************************************************************************)
(* The safety properties of Prefetch, proved for every page size, range    *)
(* and behaviour of the storage.  No fairness is used.                     *)
(*                                                                         *)
(* The argument: the worker is past its loop exactly when it has something *)
(* to report, and it reports "ok" early only if it was cancelled           *)
(* (WorkerInv); the caller cancels only on its way to a timeout, and it    *)
(* does not return before the worker has exited (CallerInv).               *)
(***************************************************************************)
EXTENDS Prefetch, TLAPS

Probing == worker \in {"loop", "touch"}

(* What the worker has to report, and from when on it is in the pair.      *)
WorkerInv ==
  /\ Probing <=> probed = "none"
  /\ probed = "ok" => cancelled \/ pos >= Offset + Len
  /\ result # "none" => result = probed
  /\ worker \in {"unlock", "exited"} /\ caller # "returned" => result = probed
  /\ worker \notin {"unlock", "exited"} => result = "none"

(* What the caller has decided.                                            *)
CallerInv ==
  /\ timedOut => expired
  /\ cancelled => caller \in {"join_timeout", "returned"}
  /\ caller = "join_timeout" => expired
  /\ answer # "none" => caller = "returned"
  /\ caller = "returned" => worker = "exited"
  /\ answer = "ok" => probed = "ok" /\ ~cancelled
  /\ ~mapped => caller = "returned"

(* The loop advances by whole pages; what it has passed it has touched.    *)
LoopInv ==
  /\ pos >= Offset
  /\ Offset % PageSize = 0 =>
       /\ \E k \in Nat : pos = k * PageSize
       /\ \A p \in Offset..(pos - 1) : PageOf(p) \in touched

IInv ==
  /\ TypeOK
  /\ WorkerInv
  /\ CallerInv
  /\ LoopInv
  /\ TimeoutIsReal

-----------------------------------------------------------------------------
(* The page of a byte is the one whose bytes include it.                   *)
LEMMA PageOfByte ==
  ASSUME NEW k \in Nat, NEW p \in Nat, k * PageSize <= p, p < k * PageSize + PageSize
  PROVE  PageOf(p) = k
BY PrefetchAssumption DEF PageOf

(* An aligned offset is the start of a page.                               *)
LEMMA AlignedOffset ==
  ASSUME Offset % PageSize = 0
  PROVE  \E k \in Nat : Offset = k * PageSize
<1>1. Offset \div PageSize \in Nat BY PrefetchAssumption
<1>2. Offset = (Offset \div PageSize) * PageSize BY PrefetchAssumption
<1> QED BY <1>1, <1>2

(* The worker has just been spawned.                                       *)
LEMMA InitIInv == Init => IInv
<1> SUFFICES ASSUME Init PROVE IInv
  OBVIOUS
<1> USE PrefetchAssumption DEF Init
<1>1. TypeOK BY DEF TypeOK
<1>2. WorkerInv /\ CallerInv /\ TimeoutIsReal
  BY DEF WorkerInv, CallerInv, TimeoutIsReal, Probing
<1>3. LoopInv BY AlignedOffset DEF LoopInv
<1> QED BY <1>1, <1>2, <1>3 DEF IInv

(* A delivered page moves the frontier by exactly that page.               *)
LEMMA TouchStep ==
  ASSUME IInv, Touch
  PROVE  IInv'
<1> USE PrefetchAssumption
    DEF IInv, Touch, TouchOk, TouchFaults, callerVars
<1>1. TypeOK'
  <2>1. CASE TouchOk
    <3>1. PageOf(pos) \in Nat BY DEF TypeOK, PageOf
    <3>2. pos' \in Nat BY <2>1 DEF TypeOK
    <3>3. touched' \subseteq Nat BY <2>1, <3>1 DEF TypeOK
    <3> QED BY <2>1, <3>2, <3>3 DEF TypeOK
  <2>2. CASE TouchFaults BY <2>2 DEF TypeOK
  <2> QED BY <2>1, <2>2
<1>2. WorkerInv' BY DEF TypeOK, WorkerInv, Probing
<1>3. CallerInv' BY DEF TypeOK, WorkerInv, CallerInv, Probing
<1>4. LoopInv'
  <2>1. CASE TouchFaults BY <2>1 DEF LoopInv
  <2>2. CASE TouchOk
    <3>1. pos' >= Offset BY <2>2 DEF TypeOK, LoopInv
    <3> SUFFICES ASSUME Offset % PageSize = 0
                 PROVE  /\ \E k \in Nat : pos' = k * PageSize
                        /\ \A p \in Offset..(pos' - 1) : PageOf(p) \in touched'
      BY <3>1 DEF LoopInv
    <3>2. PICK k \in Nat : pos = k * PageSize BY DEF LoopInv
    <3>3. pos' = (k + 1) * PageSize BY <2>2, <3>2
    <3>4. ASSUME NEW p \in Offset..(pos' - 1) PROVE PageOf(p) \in touched'
      <4>1. p \in Nat BY <2>2, <3>1 DEF TypeOK
      <4>2. CASE p < pos BY <2>2, <4>1, <4>2 DEF LoopInv, TypeOK
      <4>3. CASE p >= pos
        <5>1. k * PageSize <= p /\ p < k * PageSize + PageSize
          BY <2>2, <3>2, <4>1, <4>3 DEF TypeOK
        <5>2. PageOf(p) = k BY <4>1, <5>1, PageOfByte
        <5>3. PageOf(pos) = k BY <3>2, PageOfByte DEF TypeOK
        <5> QED BY <2>2, <5>2, <5>3
      <4> QED BY <4>1, <4>2, <4>3 DEF TypeOK
    <3>5. k + 1 \in Nat OBVIOUS
    <3> QED BY <3>3, <3>4, <3>5
  <2> QED BY <2>1, <2>2
<1>5. TimeoutIsReal' BY DEF TimeoutIsReal
<1> QED BY <1>1, <1>2, <1>3, <1>4, <1>5

(* The loop test, the report and the exit of the worker.                   *)
LEMMA WorkerStep ==
  ASSUME IInv, Worker
  PROVE  IInv'
<1> USE PrefetchAssumption
    DEF IInv, Worker, ProbeNext, ProbeDone, Publish, WorkerExit, callerVars
<1>1. TypeOK'
  <2>1. CASE Publish
    <3>1. notified' \in BOOLEAN BY <2>1
    <3> QED BY <2>1, <3>1 DEF TypeOK
  <2>2. CASE ProbeNext BY <2>2 DEF TypeOK
  <2>3. CASE ProbeDone BY <2>3 DEF TypeOK
  <2>4. CASE WorkerExit BY <2>4 DEF TypeOK
  <2> QED BY <2>1, <2>2, <2>3, <2>4
<1>2. WorkerInv' BY DEF TypeOK, WorkerInv, CallerInv, Probing
<1>3. CallerInv' BY DEF TypeOK, WorkerInv, CallerInv, Probing
<1>4. LoopInv' BY DEF LoopInv
<1>5. TimeoutIsReal' BY DEF TimeoutIsReal
<1> QED BY <1>1, <1>2, <1>3, <1>4, <1>5

(* Returning from wait_timeout takes the lock back.                        *)
LEMMA WakeTypes ==
  ASSUME TypeOK, NEW timeout \in BOOLEAN, Wake(timeout)
  PROVE  TypeOK'
<1>1. timedOut' \in BOOLEAN /\ notified' \in BOOLEAN BY DEF Wake
<1>2. /\ lock' = "caller" /\ caller' = "woken" /\ lock = "free"
      /\ UNCHANGED <<answer, workerVars, result, expired, cancelled, mapped>>
  BY DEF Wake
<1> QED BY <1>1, <1>2 DEF TypeOK, workerVars

(* The caller joins the worker on both paths, and finds its result.        *)
LEMMA CallerStep ==
  ASSUME IInv, Caller
  PROVE  IInv'
<1> USE PrefetchAssumption
    DEF IInv, Caller, FoundResult, StartWait, WakeNotified, WakeTimedOut,
        WakeSpurious, Wake, GiveUp, Proceed, JoinAfterTimeout, JoinAndTake,
        Leave, Joined, workerVars
<1>1. TypeOK'
  <2>1. CASE FoundResult BY <2>1 DEF TypeOK
  <2>2. CASE StartWait BY <2>2 DEF TypeOK
  <2>3. CASE WakeNotified \/ WakeTimedOut \/ WakeSpurious BY <2>3, WakeTypes
  <2>4. CASE GiveUp BY <2>4 DEF TypeOK
  <2>5. CASE Proceed BY <2>5 DEF TypeOK
  <2>6. CASE JoinAfterTimeout BY <2>6 DEF TypeOK
  <2>7. CASE JoinAndTake BY <2>7 DEF TypeOK
  <2> QED BY <2>1, <2>2, <2>3, <2>4, <2>5, <2>6, <2>7
<1>2. WorkerInv' BY DEF TypeOK, WorkerInv, CallerInv, Probing
<1>3. CallerInv' BY DEF TypeOK, WorkerInv, CallerInv, Probing
<1>4. LoopInv' BY DEF LoopInv
<1>5. TimeoutIsReal'
  BY DEF TypeOK, WorkerInv, CallerInv, Probing, TimeoutIsReal
<1> QED BY <1>1, <1>2, <1>3, <1>4, <1>5

(* Time passes, or the owner unmaps after the call.                        *)
LEMMA EnvironmentStep ==
  ASSUME IInv, Expire \/ Unmap \/ UNCHANGED vars
  PROVE  IInv'
<1> USE DEF IInv, Expire, Unmap, vars, callerVars, workerVars
<1>1. TypeOK' BY DEF TypeOK
<1>2. WorkerInv' BY DEF WorkerInv, Probing
<1>3. CallerInv' BY DEF CallerInv
<1>4. LoopInv' BY DEF LoopInv
<1>5. TimeoutIsReal' BY DEF TimeoutIsReal
<1> QED BY <1>1, <1>2, <1>3, <1>4, <1>5

(* Every step of the caller, of its worker and of the clock keeps the      *)
(* invariant.                                                              *)
LEMMA NextStep == IInv /\ [Next]_vars => IInv'
BY TouchStep, WorkerStep, CallerStep, EnvironmentStep DEF Next

(* The invariant of every behaviour of one timed prefetch.                 *)
THEOREM Inductive == Spec => []IInv
BY InitIInv, NextStep, PTL DEF Spec

(* Every variable keeps its type, and the lock its holder.                 *)
THEOREM TypeCorrect == Spec => []TypeOK
<1>1. IInv => TypeOK BY DEF IInv
<1> QED BY Inductive, <1>1, PTL

(* The worker is gone before the owner of the mapping can unmap it.        *)
THEOREM WorkerIsConfined == Spec => []WorkerTouchesMapped
<1>1. IInv => WorkerTouchesMapped BY DEF IInv, CallerInv, WorkerTouchesMapped
<1> QED BY Inductive, <1>1, PTL

(* A timeout is never reported before the deadline.                        *)
THEOREM TimeoutsAreReal == Spec => []TimeoutIsReal
<1>1. IInv => TimeoutIsReal BY DEF IInv
<1> QED BY Inductive, <1>1, PTL

(* On an aligned range of any length and page size, Ok means every page.   *)
THEOREM OkIsComplete ==
  ASSUME Offset % PageSize = 0
  PROVE  Spec => []OkMeansAllTouched
<1>1. IInv => OkMeansAllTouched
  <2> SUFFICES ASSUME IInv, answer = "ok",
                      NEW p \in Offset..(Offset + Len - 1)
               PROVE  PageOf(p) \in touched
    BY DEF OkMeansAllTouched, RangePages
  <2>1. pos >= Offset + Len BY DEF IInv, WorkerInv, CallerInv
  <2> QED BY <2>1, PrefetchAssumption DEF IInv, LoopInv, TypeOK
<1> QED BY Inductive, <1>1, PTL
===============================================================================
