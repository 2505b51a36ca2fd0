-------------------------- MODULE SigbusProtection --------------------------
(***************************************************************************)
(* SIGBUS recovery: with_sigbus_protection (signal/mod.rs), the signal     *)
(* handler (signal/handler.rs), the per-thread state behind a pthread key  *)
(* (signal/thread_state.rs) and the C shim that owns the sigsetjmp         *)
(* checkpoint (csrc/sigsetjmp_shim.c).                                     *)
(*                                                                         *)
(* A thread runs user code, or with_sigbus_protection on behalf of a read  *)
(* whose closure is user code again, so protected calls nest.  The address *)
(* of a fault is abstracted to the mapping it lies in (or Foreign), and    *)
(* the registry to the set of open mappings: RegionRegistry shows that it  *)
(* is one.  A handler invocation is one step, as it runs on the thread     *)
(* that faulted and touches only that thread's state.                      *)
(***************************************************************************)
EXTENDS Naturals

CONSTANTS
  Threads,
  Maps,            \* mappings SafeMmap::open can create
  Foreign,         \* memory no SafeMmap owns
  Null,            \* nothing
  MaxDepth,        \* how deep protected calls may nest on one thread
  ForeignKeyZero   \* another library's pthread key 0 holds a value

ASSUME SigbusAssumption ==
  /\ Null \notin Maps \union {Foreign}
  /\ Foreign \notin Maps
  /\ MaxDepth \in Nat
  /\ ForeignKeyZero \in BOOLEAN

VARIABLES
  installed,     \* HANDLER_INIT has completed and SIGBUS is not SIG_DFL
  keyCreated,    \* KEY_INIT has completed
  registered,    \* the mappings in the region registry
  hasState,      \* threads with a ThreadState behind the pthread key
  in_protected,  \* ThreadState.in_protected
  fault_addr,    \* ThreadState.fault_addr
  jmp_buf,       \* ThreadState.jmp_buf: the depth of the frame it was filled
                 \* in by, 0 if zeroed or if that frame has returned
  depth,         \* protected calls on the thread's stack
  frames,        \* those calls, with the thread's own code at depth 0
  returned,      \* what the thread's last protected call returned
  outcome        \* how the process ended, Null while it runs

threadVars == <<hasState, in_protected, fault_addr, jmp_buf>>
stackVars == <<depth, frames>>
vars == <<installed, keyCreated, registered, threadVars, stackVars, returned,
          outcome>>

Addrs == Maps \union {Foreign}

(* One with_sigbus_protection call: its progress, the mapping its closure  *)
(* reads and, as history, the address that faulted in it and whether its   *)
(* closure has made a protected call of its own.                           *)
Frame == [at : {"none", "armed", "running", "completed", "jumped"},
          map : Maps \union {Null}, hit : Addrs \union {Null}, nested : BOOLEAN]

NoFrame == [at |-> "none", map |-> Null, hit |-> Null, nested |-> FALSE]

(* Depth 0: the thread's own code, outside every protected call.           *)
OwnCode == [at |-> "running", map |-> Null, hit |-> Null, nested |-> FALSE]

Returns == [kind : {"ok", "err"}, addr : Addrs \union {Null}, hit : Addrs \union {Null}]

Outcomes == [how : {"killed", "misread", "wild jump", "aborted"}, depth : 0..MaxDepth,
             addr : Addrs \union {Null}, nested : BOOLEAN]

ASSUME NullAssumption == Null \notin Outcomes

Init ==
  /\ installed = FALSE
  /\ keyCreated = FALSE
  /\ registered = {}
  /\ hasState = {}
  /\ in_protected = [t \in Threads |-> FALSE]
  /\ fault_addr = [t \in Threads |-> Null]
  /\ jmp_buf = [t \in Threads |-> 0]
  /\ depth = [t \in Threads |-> 0]
  /\ frames = [t \in Threads |->
                [d \in 0..MaxDepth |-> IF d = 0 THEN OwnCode ELSE NoFrame]]
  /\ returned = [t \in Threads |-> Null]
  /\ outcome = Null

Running == outcome = Null

Top(t) == frames[t][depth[t]]

(* The thread is in code the library does not control: outside every       *)
(* protected call, or in the closure of the innermost one.                 *)
InUserCode(t) == Top(t).at = "running"

(* The stack fs of depth d with one more call, which reads m.              *)
Pushed(fs, d, m) ==
  [fs EXCEPT ![d].nested = d > 0,
             ![d + 1] = [at |-> "armed", map |-> m, hit |-> Null, nested |-> FALSE]]

(* The stack fs after siglongjmp to the frame at depth d.                  *)
Unwound(fs, d, a) ==
  [e \in 0..MaxDepth |-> CASE e < d -> fs[e]
                            [] e = d -> [fs[e] EXCEPT !.at = "jumped", !.hit = a]
                            [] e > d -> NoFrame]

EndedBy(t, how, a) ==
  [how |-> how, depth |-> depth[t], addr |-> a, nested |-> Top(t).nested]

(* The process ends.                                                       *)
Ends(t, how, a) ==
  /\ outcome' = EndedBy(t, how, a)
  /\ UNCHANGED <<keyCreated, registered, threadVars, stackVars, returned>>

-----------------------------------------------------------------------------
(* Faulty variants of the definitions below: the assignment is missing, or *)
(* a nested call reuses the checkpoint that is already there.              *)
CreateKeyForgotten == UNCHANGED keyCreated
ArmForgotten(t) == UNCHANGED in_protected
DisarmForgotten(t) == UNCHANGED in_protected
RecordForgotten(t, a) == UNCHANGED fault_addr
SigsetjmpOnce(t) == jmp_buf' = [jmp_buf EXCEPT ![t] = IF @ = 0 THEN depth[t] ELSE @]

-----------------------------------------------------------------------------
(* The writes the actions below are made of.                               *)

(* create_key, once: THREAD_STATE_KEY.store.                               *)
CreateKey == keyCreated' = TRUE

(* The caller sets in_protected before the C call and clears it after.     *)
Arm(t) == in_protected' = [in_protected EXCEPT ![t] = TRUE]
Disarm(t) == in_protected' = [in_protected EXCEPT ![t] = FALSE]

(* sigsetjmp in the frame of the innermost call.                           *)
Sigsetjmp(t) == jmp_buf' = [jmp_buf EXCEPT ![t] = depth[t]]

(* The handler keeps the address it jumps away from.                       *)
RecordFault(t, a) == fault_addr' = [fault_addr EXCEPT ![t] = a]

-----------------------------------------------------------------------------
(* SafeMmapOptions::open, as far as signals go: map, install, register.    *)
Open(t, m) ==
  /\ Running /\ InUserCode(t)
  /\ m \notin registered
  /\ installed' = TRUE
  /\ registered' = registered \union {m}
  /\ UNCHANGED <<keyCreated, threadVars, stackVars, returned, outcome>>

(* Drop for SafeMmap.  The borrow checker keeps a mapping alive while a    *)
(* read of it is on some stack.                                            *)
Drop(t, m) ==
  /\ Running /\ InUserCode(t)
  /\ m \in registered
  /\ \A u \in Threads : \A d \in 1..depth[u] : frames[u][d].map # m
  /\ registered' = registered \ {m}
  /\ UNCHANGED <<installed, keyCreated, threadVars, stackVars, returned, outcome>>

(* with_sigbus_protection up to the C call: install_handler, get_or_init   *)
(* (which creates the key once and the thread's state once), ctx, and      *)
(* in_protected = true.                                                    *)
Enter(t, m) ==
  /\ Running /\ InUserCode(t)
  /\ m \in registered
  /\ depth[t] < MaxDepth
  /\ installed' = TRUE
  /\ CreateKey
  /\ hasState' = hasState \union {t}
  /\ fault_addr' = [fault_addr EXCEPT ![t] = IF t \in hasState THEN @ ELSE Null]
  /\ jmp_buf' = [jmp_buf EXCEPT ![t] = IF t \in hasState THEN @ ELSE 0]
  /\ Arm(t)
  /\ depth' = [depth EXCEPT ![t] = @ + 1]
  /\ frames' = [frames EXCEPT ![t] = Pushed(@, depth[t], m)]
  /\ UNCHANGED <<registered, returned, outcome>>

(* mmap_guard_protected_call: sigsetjmp returns 0, the trampoline takes    *)
(* the closure and calls it.                                               *)
Checkpoint(t) ==
  /\ Running
  /\ depth[t] > 0 /\ Top(t).at = "armed"
  /\ Sigsetjmp(t)
  /\ frames' = [frames EXCEPT ![t][depth[t]].at = "running"]
  /\ UNCHANGED <<installed, keyCreated, registered, hasState, in_protected,
                 fault_addr, depth, returned, outcome>>

(* The closure returns, its result is stored, the C function returns 0.    *)
Complete(t) ==
  /\ Running
  /\ depth[t] > 0 /\ Top(t).at = "running"
  /\ frames' = [frames EXCEPT ![t][depth[t]].at = "completed"]
  /\ UNCHANGED <<installed, keyCreated, registered, threadVars, depth, returned,
                 outcome>>

(* The rest of with_sigbus_protection: in_protected = false, and Err with  *)
(* the recorded address if the C function did not return 0.                *)
Return(t) ==
  /\ Running
  /\ depth[t] > 0 /\ Top(t).at \in {"completed", "jumped"}
  /\ Disarm(t)
  /\ returned' = [returned EXCEPT ![t] =
       IF Top(t).at = "jumped"
       THEN [kind |-> "err", addr |-> fault_addr[t], hit |-> Top(t).hit]
       ELSE [kind |-> "ok", addr |-> Null, hit |-> Top(t).hit]]
  /\ jmp_buf' = [jmp_buf EXCEPT ![t] = IF @ = depth[t] THEN 0 ELSE @]
  /\ frames' = [frames EXCEPT ![t][depth[t]] = NoFrame]
  /\ depth' = [depth EXCEPT ![t] = @ - 1]
  /\ UNCHANGED <<installed, keyCreated, registered, hasState, fault_addr, outcome>>

(* A panic unwinds into the extern "C" trampoline: the process aborts.     *)
ClosurePanics(t) ==
  /\ Running
  /\ depth[t] > 0 /\ Top(t).at = "running"
  /\ Ends(t, "aborted", Null)
  /\ UNCHANGED installed

(* destroy_thread_state, when a thread exits; t then stands for a new one. *)
ThreadExit(t) ==
  /\ Running
  /\ depth[t] = 0
  /\ t \in hasState
  /\ hasState' = hasState \ {t}
  /\ in_protected' = [in_protected EXCEPT ![t] = FALSE]
  /\ fault_addr' = [fault_addr EXCEPT ![t] = Null]
  /\ jmp_buf' = [jmp_buf EXCEPT ![t] = 0]
  /\ returned' = [returned EXCEPT ![t] = Null]
  /\ UNCHANGED <<installed, keyCreated, registered, stackVars, outcome>>

-----------------------------------------------------------------------------
(* sigbus_handler, entered because user code on t touched a, in an open    *)
(* mapping or elsewhere, and the kernel could not supply the page.         *)

(* SIGBUS still has its default disposition.                               *)
FaultUnhandled(t, a) ==
  /\ ~installed
  /\ Ends(t, "killed", a)
  /\ UNCHANGED installed

(* restore_default_and_reraise: no state, not protected, or not ours.      *)
FaultReraised(t, a) ==
  /\ installed
  /\ t \in hasState => ~in_protected[t] \/ a \notin registered
  /\ installed' = FALSE
  /\ Ends(t, "killed", a)

(* key() is still 0 and that key belongs to somebody else: its value is    *)
(* read as a ThreadState, whose in_protected and jmp_buf can be anything.  *)
FaultMisread(t, a) ==
  /\ installed
  /\ ~keyCreated /\ ForeignKeyZero /\ a \in registered
  /\ Ends(t, "misread", a)
  /\ UNCHANGED installed

(* The fault is recorded and siglongjmp unwinds to the checkpoint's frame; *)
(* if that frame is gone, the behaviour is undefined.                      *)
FaultJumps(t, a) ==
  /\ installed
  /\ t \in hasState /\ in_protected[t] /\ a \in registered
  /\ RecordFault(t, a)
  /\ in_protected' = [in_protected EXCEPT ![t] = FALSE]
  /\ frames' = [frames EXCEPT ![t] = Unwound(@, jmp_buf[t], a)]
  /\ depth' = [depth EXCEPT ![t] = jmp_buf[t]]
  /\ outcome' = IF jmp_buf[t] = 0
                THEN EndedBy(t, "wild jump", a)
                ELSE outcome
  /\ UNCHANGED <<installed, keyCreated, registered, hasState, jmp_buf, returned>>

Fault(t, a) ==
  /\ Running /\ InUserCode(t)
  /\ a \in registered \union {Foreign}
  /\ \/ FaultUnhandled(t, a)
     \/ FaultReraised(t, a)
     \/ FaultMisread(t, a)
     \/ FaultJumps(t, a)

Next ==
  \E t \in Threads :
    \/ \E m \in Maps : Open(t, m) \/ Drop(t, m) \/ Enter(t, m)
    \/ Checkpoint(t)
    \/ Complete(t)
    \/ Return(t)
    \/ ClosurePanics(t)
    \/ ThreadExit(t)
    \/ \E a \in Addrs : Fault(t, a)

Spec == Init /\ [][Next]_vars

-----------------------------------------------------------------------------
TypeOK ==
  /\ installed \in BOOLEAN
  /\ keyCreated \in BOOLEAN
  /\ registered \subseteq Maps
  /\ hasState \subseteq Threads
  /\ hasState # {} => keyCreated
  /\ in_protected \in [Threads -> BOOLEAN]
  /\ fault_addr \in [Threads -> Addrs \union {Null}]
  /\ jmp_buf \in [Threads -> 0..MaxDepth]
  /\ depth \in [Threads -> 0..MaxDepth]
  /\ frames \in [Threads -> [0..MaxDepth -> Frame]]
  /\ returned \in [Threads -> Returns \union {Null}]
  /\ outcome \in Outcomes \union {Null}

(* The handler never siglongjmps through a checkpoint that is not there:   *)
(* not through a zeroed jmp_buf, not into a frame that has returned (what  *)
(* the shim's comment warns of), whatever protected calls nest, fault and  *)
(* return before.                                                          *)
NoWildJump == outcome # Null => outcome.how # "wild jump"

(* A caught fault is answered by the protected call whose closure took it: *)
(* siglongjmp never throws away other calls' frames, so the stack shrinks  *)
(* only by the return of a call that is done.                              *)
FaultKeepsFrames ==
  [][\A t \in Threads :
       depth'[t] < depth[t] => /\ depth'[t] = depth[t] - 1
                               /\ Top(t).at \in {"completed", "jumped"}]_vars

(* with_sigbus_protection returns Err exactly when this very call took a   *)
(* fault, with the address of that fault, although fault_addr is one field *)
(* per thread shared by every call that nests or follows.                  *)
ErrReportsOwnFault ==
  \A t \in Threads :
    returned[t] # Null =>
      /\ returned[t].addr = returned[t].hit
      /\ returned[t].kind = "err" <=> returned[t].hit # Null

(* A fault in an open mapping never kills the process while a protected    *)
(* closure runs that has made no protected call of its own: whatever other *)
(* threads, earlier calls and enclosing calls did, the thread is armed.    *)
LeafFaultCaught ==
  outcome # Null /\ outcome.how = "killed" /\ outcome.depth > 0 /\ ~outcome.nested
    => outcome.addr \notin registered

(* The handler is installed before the pthread key exists, and asks key 0  *)
(* until then.  That is over with the first protected call of any thread:  *)
(* from there on no fault, in or out of a protected call, is judged by     *)
(* another library's data.                                                 *)
MisreadOnlyBeforeFirstCall ==
  outcome # Null /\ outcome.how = "misread" =>
    hasState = {} /\ \A t \in Threads : depth[t] = 0 /\ returned[t] = Null

(* "If a SIGBUS occurs during the copy, returns an error instead of        *)
(* crashing the process" (guard.rs), with no such restriction.             *)
ProtectedFaultCaught ==
  outcome # Null /\ outcome.how = "killed" /\ outcome.depth > 0
    => outcome.addr \notin registered
==============================================================================
