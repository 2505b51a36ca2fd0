------------------------------- MODULE Prefetch -------------------------------
(***************************************************************************)
(* One call of prefetch_with_deadline (mmap/prefetch.rs): the caller waits *)
(* on a condition variable while a worker thread touches one byte per page *)
(* (probe_pages).  The two share a mutex, the result it protects and a     *)
(* cancellation flag.  After the call the owner may drop the mapping.      *)
(*                                                                         *)
(* A touch is two steps, since the storage may take its time, or forever,  *)
(* to answer.  A SIGBUS comes back as an error of the touch                *)
(* (SigbusProtection).  Time is abstracted to whether the deadline of the  *)
(* wait has passed.                                                        *)
(***************************************************************************)
EXTENDS Naturals

CONSTANTS
  PageSize,
  Offset,          \* start of the range within the mapping, which is
  Len,             \* page-aligned, and its length
  StorageAnswers   \* every touch is answered eventually

ASSUME PrefetchAssumption ==
  /\ PageSize \in Nat \ {0}
  /\ Offset \in Nat
  /\ Len \in Nat
  /\ StorageAnswers \in BOOLEAN

VARIABLES
  caller,     \* where prefetch_with_deadline is
  worker,     \* where the worker thread is
  lock,       \* who holds the mutex of the pair
  result,     \* what the mutex protects
  notified,   \* notify_one has been called and the caller is to wake up
  expired,    \* the timeout has elapsed since the wait began
  timedOut,   \* wait_result.timed_out()
  cancelled,  \* the cancellation flag
  pos,        \* local pos of probe_pages
  probed,     \* local probe_result of the worker
  touched,    \* pages the storage has delivered
  answer,     \* what prefetch_with_deadline returned
  mapped      \* the mapping has not been unmapped

callerVars == <<caller, timedOut, answer>>
workerVars == <<worker, pos, probed, touched>>
vars == <<callerVars, workerVars, lock, result, notified, expired, cancelled, mapped>>

PageOf(p) == p \div PageSize

(* The pages that hold a byte of the range.                                *)
RangePages == {PageOf(p) : p \in Offset..(Offset + Len - 1)}

Init ==
  /\ caller = "lock"
  /\ worker = "loop"
  /\ lock = "free"
  /\ result = "none"
  /\ notified = FALSE
  /\ expired = FALSE
  /\ timedOut = FALSE
  /\ cancelled = FALSE
  /\ pos = Offset
  /\ probed = "none"
  /\ touched = {}
  /\ answer = "none"
  /\ mapped = TRUE

-----------------------------------------------------------------------------
(* Faulty variants of the definitions below: a worker is not waited for,   *)
(* the lock is kept, or every path goes on to take the worker's result.    *)
NotJoined == TRUE
LeaveLocked(to) == caller' = to /\ UNCHANGED lock
LeaveToTake(to) == caller' = "join" /\ lock' = "free"

-----------------------------------------------------------------------------
(* handle.join() returns.                                                  *)
Joined == worker = "exited"

(* The caller drops the lock and goes on.                                  *)
Leave(to) == caller' = to /\ lock' = "free"

-----------------------------------------------------------------------------
(* The worker thread.                                                      *)

(* while pos < offset + len, and the cancellation check of the loop.       *)
ProbeNext ==
  /\ worker = "loop"
  /\ pos < Offset + Len
  /\ ~cancelled
  /\ worker' = "touch"
  /\ UNCHANGED <<callerVars, pos, probed, touched, lock, result, notified, expired,
                 cancelled, mapped>>

(* The loop is done, or it sees the flag: Ok(()) either way.               *)
ProbeDone ==
  /\ worker = "loop"
  /\ pos >= Offset + Len \/ cancelled
  /\ probed' = "ok"
  /\ worker' = "publish"
  /\ UNCHANGED <<callerVars, pos, touched, lock, result, notified, expired,
                 cancelled, mapped>>

(* The storage delivers the page that is being touched.                    *)
TouchOk ==
  /\ worker = "touch"
  /\ touched' = touched \union {PageOf(pos)}
  /\ pos' = pos + PageSize
  /\ worker' = "loop"
  /\ UNCHANGED <<callerVars, probed, lock, result, notified, expired, cancelled, mapped>>

(* It cannot: Err(Sigbus).                                                 *)
TouchFaults ==
  /\ worker = "touch"
  /\ probed' = "sigbus"
  /\ worker' = "publish"
  /\ UNCHANGED <<callerVars, pos, touched, lock, result, notified, expired,
                 cancelled, mapped>>

(* lock, *result = Some(probe_result), notify_one.                         *)
Publish ==
  /\ worker = "publish"
  /\ lock = "free"
  /\ lock' = "worker"
  /\ result' = probed
  /\ notified' = (caller = "waiting")
  /\ worker' = "unlock"
  /\ UNCHANGED <<callerVars, pos, probed, touched, expired, cancelled, mapped>>

(* The guard is dropped at the end of the closure and the thread exits.    *)
WorkerExit ==
  /\ worker = "unlock"
  /\ lock' = "free"
  /\ worker' = "exited"
  /\ UNCHANGED <<callerVars, pos, probed, touched, result, notified, expired,
                 cancelled, mapped>>

-----------------------------------------------------------------------------
(* The caller, from its first lock on.                                     *)

(* The result is there already: no wait.                                   *)
FoundResult ==
  /\ caller = "lock"
  /\ lock = "free"
  /\ result # "none"
  /\ lock' = "caller"
  /\ caller' = "woken"
  /\ UNCHANGED <<timedOut, answer, workerVars, result, notified, expired, cancelled,
                 mapped>>

(* It is not: wait_timeout releases the lock and sleeps.                   *)
StartWait ==
  /\ caller = "lock"
  /\ lock = "free"
  /\ result = "none"
  /\ caller' = "waiting"
  /\ UNCHANGED <<timedOut, answer, workerVars, lock, result, notified, expired,
                 cancelled, mapped>>

(* The timeout, counted from the start of the wait, elapses.               *)
Expire ==
  /\ caller \notin {"lock", "returned"}
  /\ ~expired
  /\ expired' = TRUE
  /\ UNCHANGED <<callerVars, workerVars, lock, result, notified, cancelled, mapped>>

(* wait_timeout returns with the lock: notified, timed out (and maybe      *)
(* notified as well), or for no reason at all.                             *)
Wake(timeout) ==
  /\ caller = "waiting"
  /\ lock = "free"
  /\ timedOut' = timeout
  /\ lock' = "caller"
  /\ notified' = FALSE
  /\ caller' = "woken"
  /\ UNCHANGED <<answer, workerVars, result, expired, cancelled, mapped>>

WakeNotified == notified /\ Wake(FALSE)

WakeTimedOut == expired /\ Wake(TRUE)

WakeSpurious == ~notified /\ Wake(FALSE)

(* Timed out and no result: set the flag, drop the lock, join.             *)
GiveUp ==
  /\ caller = "woken"
  /\ timedOut /\ result = "none"
  /\ cancelled' = TRUE
  /\ Leave("join_timeout")
  /\ UNCHANGED <<timedOut, answer, workerVars, result, notified, expired, mapped>>

(* Otherwise, whatever woke it: drop the lock, join.                       *)
Proceed ==
  /\ caller = "woken"
  /\ ~(timedOut /\ result = "none")
  /\ Leave("join")
  /\ UNCHANGED <<timedOut, answer, workerVars, result, notified, expired, cancelled,
                 mapped>>

(* handle.join() after a timeout: Err(Timeout).                            *)
JoinAfterTimeout ==
  /\ caller = "join_timeout"
  /\ Joined
  /\ caller' = "returned"
  /\ answer' = "timeout"
  /\ UNCHANGED <<timedOut, workerVars, lock, result, notified, expired, cancelled,
                 mapped>>

(* handle.join(), lock, result.take(), and a timeout if there is none.     *)
JoinAndTake ==
  /\ caller = "join"
  /\ Joined
  /\ lock = "free"
  /\ caller' = "returned"
  /\ answer' = IF result = "none" THEN "timeout" ELSE result
  /\ result' = "none"
  /\ UNCHANGED <<timedOut, workerVars, lock, notified, expired, cancelled, mapped>>

(* The owner of the mapping drops it once its borrow has ended.            *)
Unmap ==
  /\ caller = "returned"
  /\ mapped
  /\ mapped' = FALSE
  /\ UNCHANGED <<callerVars, workerVars, lock, result, notified, expired, cancelled>>

Touch == TouchOk \/ TouchFaults

Worker == ProbeNext \/ ProbeDone \/ Publish \/ WorkerExit

Caller ==
  \/ FoundResult
  \/ StartWait
  \/ WakeNotified
  \/ WakeTimedOut
  \/ WakeSpurious
  \/ GiveUp
  \/ Proceed
  \/ JoinAfterTimeout
  \/ JoinAndTake

Next == Touch \/ Worker \/ Caller \/ Expire \/ Unmap

(* Threads that can run do run and time passes; a spurious wakeup need not *)
(* happen, and a touch is answered only if the storage is alive.           *)
Fairness ==
  /\ WF_vars(Worker)
  /\ WF_vars(FoundResult \/ StartWait \/ GiveUp \/ Proceed \/ JoinAfterTimeout
               \/ JoinAndTake)
  /\ WF_vars(WakeNotified \/ WakeTimedOut)
  /\ WF_vars(Expire)
  /\ StorageAnswers => WF_vars(Touch)

Spec == Init /\ [][Next]_vars /\ Fairness

-----------------------------------------------------------------------------
TypeOK ==
  /\ caller \in {"lock", "waiting", "woken", "join", "join_timeout", "returned"}
  /\ worker \in {"loop", "touch", "publish", "unlock", "exited"}
  /\ lock \in {"free", "caller", "worker"}
  /\ lock = "caller" <=> caller = "woken"
  /\ lock = "worker" <=> worker = "unlock"
  /\ result \in {"none", "ok", "sigbus"}
  /\ notified \in BOOLEAN
  /\ expired \in BOOLEAN
  /\ timedOut \in BOOLEAN
  /\ cancelled \in BOOLEAN
  /\ pos \in Nat
  /\ probed \in {"none", "ok", "sigbus"}
  /\ touched \subseteq Nat
  /\ answer \in {"none", "ok", "sigbus", "timeout"}
  /\ mapped \in BOOLEAN

(* "Ok(()) if all pages are resident": success is reported only if every   *)
(* page of the range was delivered, and never on the word of a worker that *)
(* stopped because it was cancelled.  Holds for page-aligned offsets.      *)
OkMeansAllTouched == answer = "ok" => RangePages \subseteq touched

(* The worker never touches the mapping once the call has returned and the *)
(* owner may unmap it.                                                     *)
WorkerTouchesMapped == worker = "touch" => mapped

(* The fallback of the last match (no result after the join) is never      *)
(* needed: a timeout is only reported when the deadline has passed.        *)
TimeoutIsReal == answer = "timeout" => expired

(* The call returns if the storage answers, on every path through the      *)
(* condition variable: a notification before the wait, during it, after    *)
(* the timeout, or a spurious wakeup.                                      *)
CallReturns == <>(caller = "returned")

(* "If the deadline expires (NFS stall), returns AccessError::Timeout":    *)
(* once the deadline has passed the caller gets its thread back.           *)
DeadlineHonoured == expired ~> caller = "returned"
===============================================================================
