----------------------- MODULE SigbusProtection_proofs -----------------------
(***************************************************************************)
(* What SigbusProtection's runs check on two threads and one nesting,      *)
(* proved for any number of threads, mappings and any depth.               *)
(*                                                                         *)
(* The argument: a thread's flag, jump buffer and fault address are one    *)
(* record for all calls on its stack, but only the innermost call uses     *)
(* them.  If the flag is set while user code runs, the checkpoint is in    *)
(* the innermost call (ArmedInv); hence the jump goes there, and the       *)
(* address is still that call's own when it returns (HitInv).              *)
(***************************************************************************)
EXTENDS SigbusProtection, TLAPS

(* The stack of a thread: its own code, calls that wait for a call of      *)
(* their closure, the innermost call, nothing above it.                    *)
StackInv(t) ==
  /\ frames[t][0] = OwnCode
  /\ \A d \in 0..MaxDepth :
       /\ d < depth[t] => frames[t][d].at = "running"
       /\ d < depth[t] /\ d > 0 => frames[t][d].nested
       /\ d > depth[t] => frames[t][d] = NoFrame
  /\ Top(t).at # "none"

(* The flag is clear outside every call; it is set while a closure may     *)
(* start or has made no call of its own, and when it is set while user     *)
(* code runs, sigsetjmp was last called in the innermost call.             *)
ArmedInv(t) ==
  /\ depth[t] = 0 => ~in_protected[t]
  /\ depth[t] > 0 => t \in hasState
  /\ Top(t).at = "armed" => in_protected[t] /\ ~Top(t).nested
  /\ Top(t).at = "running" /\ depth[t] > 0 /\ ~Top(t).nested => in_protected[t]
  /\ Top(t).at = "running" /\ in_protected[t] => jmp_buf[t] = depth[t]

(* Only the innermost call can have faulted, and what it faulted on is     *)
(* still in the thread's record.                                           *)
HitInv(t) ==
  \A d \in 0..MaxDepth :
    IF frames[t][d].at = "jumped"
      THEN /\ frames[t][d].hit # Null
           /\ frames[t][d].hit = fault_addr[t]
      ELSE frames[t][d].hit = Null

(* The key exists before the first thread state, and whoever has made a    *)
(* protected call has installed the handler and created the key.           *)
KeyInv ==
  /\ Running /\ keyCreated => installed
  /\ ~keyCreated => \A t \in Threads : depth[t] = 0 /\ returned[t] = Null
  /\ outcome # Null /\ outcome.how = "misread" => ~keyCreated

ThreadInv(t) == StackInv(t) /\ ArmedInv(t) /\ HitInv(t)

IInv ==
  /\ TypeOK
  /\ \A t \in Threads : ThreadInv(t)
  /\ KeyInv
  /\ NoWildJump
  /\ LeafFaultCaught
  /\ ErrReportsOwnFault
-----------------------------------------------------------------------------
Stacks == [0..MaxDepth -> Frame]

(* The stacks of a process consist of frames.                              *)
LEMMA FrameTypes ==
  /\ OwnCode \in Frame
  /\ NoFrame \in Frame
  /\ \A m \in Maps :
       [at |-> "armed", map |-> m, hit |-> Null, nested |-> FALSE] \in Frame
BY DEF OwnCode, NoFrame, Frame

(* What a call of with_sigbus_protection does to a stack.                  *)
LEMMA PushedStack ==
  ASSUME NEW fs \in Stacks, NEW d \in 0..MaxDepth, d < MaxDepth, NEW m \in Maps
  PROVE  /\ Pushed(fs, d, m) \in Stacks
         /\ Pushed(fs, d, m)[d] = [fs[d] EXCEPT !.nested = d > 0]
         /\ Pushed(fs, d, m)[d + 1] =
              [at |-> "armed", map |-> m, hit |-> Null, nested |-> FALSE]
         /\ \A e \in 0..MaxDepth : e # d /\ e # d + 1 => Pushed(fs, d, m)[e] = fs[e]
<1> USE SigbusAssumption
<1>1. Pushed(fs, d, m)[d] = [fs[d] EXCEPT !.nested = d > 0]
  BY DEF Stacks, Frame, Pushed
<1>2. Pushed(fs, d, m)[d + 1] =
        [at |-> "armed", map |-> m, hit |-> Null, nested |-> FALSE]
  BY DEF Stacks, Frame, Pushed
<1>3. \A e \in 0..MaxDepth : e # d /\ e # d + 1 => Pushed(fs, d, m)[e] = fs[e]
  BY DEF Stacks, Frame, Pushed
<1>4. \A e \in 0..MaxDepth : Pushed(fs, d, m)[e] \in Frame
  <2> DEFINE b == d > 0
  <2>1. b \in BOOLEAN OBVIOUS
  <2> HIDE DEF b
  <2>2. [fs[d] EXCEPT !.nested = b] \in Frame BY <2>1 DEF Stacks, Frame
  <2>3. Pushed(fs, d, m)[d] \in Frame BY <1>1, <2>2 DEF b
  <2> QED BY <1>2, <1>3, <2>3, FrameTypes DEF Stacks
<1>5. Pushed(fs, d, m) = [e \in 0..MaxDepth |-> Pushed(fs, d, m)[e]]
  BY DEF Pushed, Stacks
<1>6. Pushed(fs, d, m) \in Stacks
  <2> DEFINE ps == Pushed(fs, d, m)
  <2> HIDE DEF ps
  <2>1. \A e \in 0..MaxDepth : ps[e] \in Frame BY <1>4 DEF ps
  <2>2. ps = [e \in 0..MaxDepth |-> ps[e]] BY <1>5 DEF ps
  <2>3. ps \in Stacks BY <2>1, <2>2 DEF Stacks
  <2> QED BY <2>3 DEF ps
<1> QED BY <1>1, <1>2, <1>3, <1>6

(* What siglongjmp does to a stack.                                        *)
LEMMA UnwoundStack ==
  ASSUME NEW fs \in Stacks, NEW d \in 0..MaxDepth, NEW a \in Addrs
  PROVE  /\ Unwound(fs, d, a) \in Stacks
         /\ Unwound(fs, d, a)[d].at = "jumped"
         /\ Unwound(fs, d, a)[d].hit = a
         /\ \A e \in 0..MaxDepth : e < d => Unwound(fs, d, a)[e] = fs[e]
         /\ \A e \in 0..MaxDepth : e > d => Unwound(fs, d, a)[e] = NoFrame
<1> USE SigbusAssumption
<1>1. ASSUME NEW e \in 0..MaxDepth
      PROVE  Unwound(fs, d, a)[e] =
               CASE e < d -> fs[e]
                 [] e = d -> [fs[e] EXCEPT !.at = "jumped", !.hit = a]
                 [] e > d -> NoFrame
  BY Zenon DEF Unwound
<1>2. ASSUME NEW e \in 0..MaxDepth, e < d PROVE Unwound(fs, d, a)[e] = fs[e]
  <2>1. ~(e = d) /\ ~(e > d) BY <1>2
  <2> QED BY <1>1, <1>2, <2>1, Zenon
<1>3. ASSUME NEW e \in 0..MaxDepth, e > d PROVE Unwound(fs, d, a)[e] = NoFrame
  <2>1. ~(e = d) /\ ~(e < d) BY <1>3
  <2> QED BY <1>1, <1>3, <2>1, Zenon
<1>4. Unwound(fs, d, a)[d] = [fs[d] EXCEPT !.at = "jumped", !.hit = a]
  <2>1. ~(d < d) /\ ~(d > d) OBVIOUS
  <2> QED BY <1>1, <2>1, Zenon
<1>5. ASSUME NEW e \in 0..MaxDepth PROVE Unwound(fs, d, a)[e] \in Frame
  <2>1. CASE e < d BY <2>1, <1>2 DEF Stacks
  <2>2. CASE e = d BY <2>2, <1>4 DEF Stacks, Frame
  <2>3. CASE e > d BY <2>3, <1>3, FrameTypes
  <2> QED BY <2>1, <2>2, <2>3
<1>6. Unwound(fs, d, a) \in Stacks BY <1>5, Zenon DEF Unwound, Stacks
<1>7. Unwound(fs, d, a)[d].at = "jumped" /\ Unwound(fs, d, a)[d].hit = a
  BY <1>4 DEF Stacks, Frame
<1> QED BY <1>2, <1>3, <1>6, <1>7

(* A step that writes only the frame of the innermost call of t.           *)
LEMMA TopWritten ==
  ASSUME TypeOK, NEW t \in Threads, NEW f \in Frame,
         frames' = [frames EXCEPT ![t][depth[t]] = f]
  PROVE  /\ frames' \in [Threads -> Stacks]
         /\ frames'[t][depth[t]] = f
         /\ \A e \in 0..MaxDepth : e # depth[t] => frames'[t][e] = frames[t][e]
         /\ \A u \in Threads : u # t => frames'[u] = frames[u]
<1>1. /\ frames \in [Threads -> Stacks] /\ frames[t] \in Stacks
      /\ depth[t] \in 0..MaxDepth
  BY DEF TypeOK, Stacks
<1>2. frames'[t] = [frames[t] EXCEPT ![depth[t]] = f] BY <1>1
<1>3. [frames[t] EXCEPT ![depth[t]] = f] \in Stacks BY <1>1 DEF Stacks
<1>4. \A u \in Threads : u # t => frames'[u] = frames[u] BY <1>1
<1>5. frames' \in [Threads -> Stacks] BY <1>1, <1>2, <1>3, <1>4
<1> QED BY <1>1, <1>2, <1>4, <1>5 DEF Stacks

(* The invariant of a thread survives a step that leaves the thread alone. *)
LEMMA ThreadUntouched ==
  ASSUME NEW u \in Threads, ThreadInv(u),
         frames'[u] = frames[u], depth'[u] = depth[u],
         in_protected'[u] = in_protected[u], jmp_buf'[u] = jmp_buf[u],
         fault_addr'[u] = fault_addr[u], u \in hasState => u \in hasState'
  PROVE  ThreadInv(u)'
<1>1. StackInv(u)' BY DEF ThreadInv, StackInv, Top
<1>2. ArmedInv(u)' BY DEF ThreadInv, ArmedInv, Top
<1>3. HitInv(u)' BY DEF ThreadInv, HitInv
<1> QED BY <1>1, <1>2, <1>3 DEF ThreadInv

(* A process starts with every thread in its own code and SIG_DFL.         *)
LEMMA InitIInv == Init => IInv
<1> SUFFICES ASSUME Init PROVE IInv
  OBVIOUS
<1> USE SigbusAssumption DEF Init
<1>1. TypeOK
  <2>1. [d \in 0..MaxDepth |-> IF d = 0 THEN OwnCode ELSE NoFrame] \in Stacks
    BY FrameTypes DEF Stacks
  <2>2. frames \in [Threads -> [0..MaxDepth -> Frame]] BY <2>1 DEF Stacks
  <2>3. /\ fault_addr \in [Threads -> Addrs \union {Null}]
        /\ returned \in [Threads -> Returns \union {Null}]
        /\ in_protected \in [Threads -> BOOLEAN]
        /\ jmp_buf \in [Threads -> 0..MaxDepth]
        /\ depth \in [Threads -> 0..MaxDepth]
    OBVIOUS
  <2> QED BY <2>2, <2>3 DEF TypeOK
<1>2. ASSUME NEW t \in Threads PROVE ThreadInv(t)
  <2>1. Top(t) = OwnCode BY DEF Top
  <2>2. StackInv(t) BY <2>1 DEF StackInv, OwnCode
  <2>3. ArmedInv(t) BY <2>1 DEF ArmedInv, OwnCode
  <2>4. HitInv(t) BY DEF HitInv, OwnCode, NoFrame
  <2> QED BY <2>2, <2>3, <2>4 DEF ThreadInv
<1>3. KeyInv BY DEF KeyInv, Running
<1>4. NoWildJump /\ LeafFaultCaught /\ ErrReportsOwnFault
  BY DEF NoWildJump, LeafFaultCaught, ErrReportsOwnFault
<1> QED BY <1>1, <1>2, <1>3, <1>4 DEF IInv

(* open only adds to the registry and installs the handler.                *)
LEMMA OpenStep ==
  ASSUME IInv, NEW t \in Threads, NEW m \in Maps, Open(t, m)
  PROVE  IInv'
<1> USE SigbusAssumption DEF IInv, Open, threadVars, stackVars
<1>1. TypeOK' BY DEF TypeOK
<1>2. ASSUME NEW u \in Threads PROVE ThreadInv(u)'
  BY ThreadUntouched
<1>3. KeyInv' BY DEF KeyInv, Running
<1>4. NoWildJump' /\ LeafFaultCaught' BY DEF Running, NoWildJump, LeafFaultCaught
<1>5. ErrReportsOwnFault' BY DEF ErrReportsOwnFault
<1> QED BY <1>1, <1>2, <1>3, <1>4, <1>5

(* Drop removes a region; the process is still running.                    *)
LEMMA DropStep ==
  ASSUME IInv, NEW t \in Threads, NEW m \in Maps, Drop(t, m)
  PROVE  IInv'
<1> USE SigbusAssumption DEF IInv, Drop, threadVars, stackVars
<1>1. TypeOK' BY DEF TypeOK
<1>2. ASSUME NEW u \in Threads PROVE ThreadInv(u)'
  BY ThreadUntouched
<1>3. KeyInv' BY DEF KeyInv, Running
<1>4. NoWildJump' /\ LeafFaultCaught' BY DEF Running, NoWildJump, LeafFaultCaught
<1>5. ErrReportsOwnFault' BY DEF ErrReportsOwnFault
<1> QED BY <1>1, <1>2, <1>3, <1>4, <1>5

(* A new innermost call is armed, whatever the stale jump buffer says.     *)
LEMMA EnterStep ==
  ASSUME IInv, NEW t \in Threads, NEW m \in Maps, Enter(t, m)
  PROVE  IInv'
<1> USE SigbusAssumption DEF IInv, Enter
<1>1. /\ frames[t] \in Stacks /\ depth[t] \in 0..MaxDepth /\ depth[t] < MaxDepth
      /\ frames'[t] = Pushed(frames[t], depth[t], m)
      /\ depth'[t] = depth[t] + 1
      /\ in_protected'[t] = TRUE
      /\ t \in hasState'
  BY DEF TypeOK, Stacks, Arm
<1>2. TypeOK'
  <2>1. frames' \in [Threads -> Stacks] BY <1>1, PushedStack DEF TypeOK, Stacks
  <2>2. depth' \in [Threads -> 0..MaxDepth] BY <1>1 DEF TypeOK
  <2>3. jmp_buf' \in [Threads -> 0..MaxDepth] BY DEF TypeOK
  <2>4. fault_addr' \in [Threads -> Addrs \union {Null}] BY DEF TypeOK
  <2> QED BY <2>1, <2>2, <2>3, <2>4 DEF TypeOK, Arm, CreateKey, Stacks
<1>3. ASSUME NEW u \in Threads, u # t PROVE ThreadInv(u)'
  BY <1>3, ThreadUntouched DEF TypeOK, Arm
<1>4. ThreadInv(t)'
  <2> DEFINE d == depth[t]
             fs == Pushed(frames[t], d, m)
  <2>1. /\ fs \in Stacks
        /\ fs[d] = [frames[t][d] EXCEPT !.nested = d > 0]
        /\ fs[d + 1] = [at |-> "armed", map |-> m, hit |-> Null, nested |-> FALSE]
        /\ \A e \in 0..MaxDepth : e # d /\ e # d + 1 => fs[e] = frames[t][e]
    BY <1>1, PushedStack
  <2>2. /\ frames[t][d].at = "running" /\ frames[t][d].hit = Null
        /\ frames[t][d] \in Frame
    BY <1>1 DEF InUserCode, Top, ThreadInv, HitInv, Stacks
  <2>3. /\ fs[d].at = "running" /\ fs[d].hit = Null
        /\ fs[d].map = frames[t][d].map
        /\ d > 0 => fs[d].nested
        /\ d = 0 => fs[d].nested = FALSE
        /\ fs[d] \in Frame
    BY <2>1, <2>2, <1>1 DEF Frame, Stacks
  <2>8. d = 0 => fs[d] = OwnCode
    <3> SUFFICES ASSUME d = 0 PROVE fs[d] = OwnCode
      OBVIOUS
    <3>1. fs[d].map = Null BY <2>3 DEF ThreadInv, StackInv, OwnCode
    <3> QED BY <2>3, <3>1 DEF Frame, OwnCode
  <2>4. Top(t)' = fs[d + 1] BY <1>1 DEF Top
  <2> HIDE DEF fs
  <2>5. StackInv(t)'
    <3>1. fs[0] = OwnCode BY <1>1, <2>1, <2>8 DEF ThreadInv, StackInv
    <3>2. ASSUME NEW e \in 0..MaxDepth
          PROVE  /\ e < d + 1 => fs[e].at = "running"
                 /\ e < d + 1 /\ e > 0 => fs[e].nested
                 /\ e > d + 1 => fs[e] = NoFrame
      <4>1. CASE e = d BY <1>1, <2>3, <4>1
      <4>2. CASE e < d
        <5>1. fs[e] = frames[t][e] BY <1>1, <2>1, <4>2
        <5> QED BY <1>1, <4>2, <5>1 DEF ThreadInv, StackInv
      <4>3. CASE e > d + 1
        <5>1. fs[e] = frames[t][e] BY <1>1, <2>1, <4>3
        <5> QED BY <1>1, <4>3, <5>1 DEF ThreadInv, StackInv
      <4> QED BY <1>1, <4>1, <4>2, <4>3
    <3>3. frames'[t] = fs BY <1>1 DEF fs
    <3> QED BY <1>1, <2>1, <2>4, <3>1, <3>2, <3>3 DEF StackInv
  <2>6. ArmedInv(t)' BY <1>1, <2>1, <2>4 DEF ArmedInv
  <2>7. HitInv(t)'
    <3> SUFFICES ASSUME NEW e \in 0..MaxDepth
                 PROVE  frames'[t][e].at # "jumped" /\ frames'[t][e].hit = Null
      BY DEF HitInv
    <3>1. frames'[t][e] = fs[e] BY <1>1 DEF fs
    <3>2. CASE e = d BY <2>3, <3>1, <3>2
    <3>3. CASE e = d + 1 BY <2>1, <3>1, <3>3
    <3>4. CASE e < d
      BY <1>1, <2>1, <3>1, <3>4 DEF ThreadInv, StackInv, HitInv
    <3>5. CASE e > d + 1
      BY <1>1, <2>1, <3>1, <3>5 DEF ThreadInv, StackInv, HitInv, NoFrame
    <3> QED BY <1>1, <3>2, <3>3, <3>4, <3>5
  <2> QED BY <2>5, <2>6, <2>7 DEF ThreadInv
<1>5. KeyInv' BY DEF KeyInv, Running, CreateKey
<1>6. NoWildJump' /\ LeafFaultCaught' BY DEF Running, NoWildJump, LeafFaultCaught
<1>7. ErrReportsOwnFault' BY DEF ErrReportsOwnFault
<1> QED BY <1>2, <1>3, <1>4, <1>5, <1>6, <1>7

(* sigsetjmp fills the jump buffer in the innermost call.                  *)
LEMMA CheckpointStep ==
  ASSUME IInv, NEW t \in Threads, Checkpoint(t)
  PROVE  IInv'
<1> USE SigbusAssumption DEF IInv, Checkpoint
<1> DEFINE f == [Top(t) EXCEPT !.at = "running"]
<1>1. depth[t] \in 0..MaxDepth /\ Top(t) \in Frame BY DEF TypeOK, Top
<1>2. /\ f \in Frame /\ f.at = "running" /\ f.hit = Top(t).hit
      /\ f.nested = Top(t).nested
  BY <1>1 DEF Frame
<1>3. frames' = [frames EXCEPT ![t][depth[t]] = f] BY DEF Top
<1> HIDE DEF f
<1>4. /\ frames' \in [Threads -> Stacks]
      /\ frames'[t][depth[t]] = f
      /\ \A e \in 0..MaxDepth : e # depth[t] => frames'[t][e] = frames[t][e]
      /\ \A u \in Threads : u # t => frames'[u] = frames[u]
  BY <1>2, <1>3, TopWritten
<1>5. jmp_buf' = [jmp_buf EXCEPT ![t] = depth[t]] BY DEF Sigsetjmp
<1>6. TypeOK' BY <1>1, <1>4, <1>5 DEF TypeOK, Stacks
<1>7. ASSUME NEW u \in Threads, u # t PROVE ThreadInv(u)'
  BY <1>4, <1>5, <1>7, ThreadUntouched DEF TypeOK
<1>8. ThreadInv(t)'
  <2>1. Top(t)' = f BY <1>4 DEF Top
  <2>2. jmp_buf'[t] = depth[t] BY <1>5 DEF TypeOK
  <2>3. StackInv(t)' BY <1>1, <1>2, <1>4, <2>1 DEF ThreadInv, StackInv
  <2>4. ArmedInv(t)' BY <1>2, <2>1, <2>2 DEF ThreadInv, ArmedInv
  <2>5. HitInv(t)' BY <1>1, <1>2, <1>4 DEF ThreadInv, HitInv, Top
  <2> QED BY <2>3, <2>4, <2>5 DEF ThreadInv
<1>9. KeyInv' BY DEF KeyInv, Running
<1>10. NoWildJump' /\ LeafFaultCaught' BY DEF Running, NoWildJump, LeafFaultCaught
<1>11. ErrReportsOwnFault' BY DEF ErrReportsOwnFault
<1> QED BY <1>6, <1>7, <1>8, <1>9, <1>10, <1>11

(* A closure that returns leaves the thread's record as it is.             *)
LEMMA CompleteStep ==
  ASSUME IInv, NEW t \in Threads, Complete(t)
  PROVE  IInv'
<1> USE SigbusAssumption DEF IInv, Complete, threadVars
<1> DEFINE f == [Top(t) EXCEPT !.at = "completed"]
<1>1. depth[t] \in 0..MaxDepth /\ Top(t) \in Frame BY DEF TypeOK, Top
<1>2. f \in Frame /\ f.at = "completed" /\ f.hit = Top(t).hit BY <1>1 DEF Frame
<1>3. frames' = [frames EXCEPT ![t][depth[t]] = f] BY DEF Top
<1> HIDE DEF f
<1>4. /\ frames' \in [Threads -> Stacks]
      /\ frames'[t][depth[t]] = f
      /\ \A e \in 0..MaxDepth : e # depth[t] => frames'[t][e] = frames[t][e]
      /\ \A u \in Threads : u # t => frames'[u] = frames[u]
  BY <1>2, <1>3, TopWritten
<1>5. TypeOK' BY <1>4 DEF TypeOK, Stacks
<1>6. ASSUME NEW u \in Threads, u # t PROVE ThreadInv(u)'
  BY <1>4, <1>6, ThreadUntouched
<1>7. ThreadInv(t)'
  <2>1. Top(t)' = f BY <1>4 DEF Top
  <2>2. StackInv(t)' BY <1>1, <1>2, <1>4, <2>1 DEF ThreadInv, StackInv
  <2>3. ArmedInv(t)' BY <1>2, <2>1 DEF ThreadInv, ArmedInv
  <2>4. HitInv(t)' BY <1>1, <1>2, <1>4 DEF ThreadInv, HitInv, Top
  <2> QED BY <2>2, <2>3, <2>4 DEF ThreadInv
<1>8. KeyInv' BY DEF KeyInv, Running
<1>9. NoWildJump' /\ LeafFaultCaught' BY DEF Running, NoWildJump, LeafFaultCaught
<1>10. ErrReportsOwnFault' BY DEF ErrReportsOwnFault
<1> QED BY <1>5, <1>6, <1>7, <1>8, <1>9, <1>10

(* The call below the one that returns has made a protected call, so it is *)
(* not owed the flag; the error carries the address of the call's fault.   *)
LEMMA ReturnStep ==
  ASSUME IInv, NEW t \in Threads, Return(t)
  PROVE  IInv'
<1> USE SigbusAssumption DEF IInv, Return
<1> DEFINE d == depth[t]
<1>1. /\ d \in 0..MaxDepth /\ d > 0 /\ d - 1 \in 0..MaxDepth
      /\ Top(t) \in Frame /\ frames[t][d] = Top(t)
  BY DEF TypeOK, Top
<1>2. /\ frames' \in [Threads -> Stacks]
      /\ frames'[t][d] = NoFrame
      /\ \A e \in 0..MaxDepth : e # d => frames'[t][e] = frames[t][e]
      /\ \A u \in Threads : u # t => frames'[u] = frames[u]
  BY FrameTypes, TopWritten
<1>3. depth'[t] = d - 1 /\ depth' \in [Threads -> 0..MaxDepth]
  BY <1>1 DEF TypeOK
<1>4. /\ in_protected' \in [Threads -> BOOLEAN] /\ in_protected'[t] = FALSE
      /\ jmp_buf' \in [Threads -> 0..MaxDepth]
  BY DEF TypeOK, Disarm
<1>5. \E r \in Returns :
        /\ returned' = [returned EXCEPT ![t] = r]
        /\ r.addr = r.hit
        /\ r.kind = "err" <=> r.hit # Null
  <2>1. CASE Top(t).at = "jumped"
    <3> DEFINE r == [kind |-> "err", addr |-> fault_addr[t], hit |-> Top(t).hit]
    <3>1. r.hit # Null /\ r.hit = fault_addr[t] BY <1>1, <2>1 DEF ThreadInv, HitInv
    <3>2. r \in Returns BY <1>1 DEF Returns, TypeOK, Frame
    <3>3. returned' = [returned EXCEPT ![t] = r] BY <2>1
    <3> QED BY <3>1, <3>2, <3>3
  <2>2. CASE Top(t).at # "jumped"
    <3> DEFINE r == [kind |-> "ok", addr |-> Null, hit |-> Top(t).hit]
    <3>1. r.hit = Null BY <1>1, <2>2 DEF ThreadInv, HitInv
    <3>2. r \in Returns BY <1>1 DEF Returns, Frame
    <3>3. returned' = [returned EXCEPT ![t] = r] BY <2>2
    <3> QED BY <3>1, <3>2, <3>3
  <2> QED BY <2>1, <2>2
<1>6. PICK r \in Returns :
        /\ returned' = [returned EXCEPT ![t] = r]
        /\ r.addr = r.hit
        /\ r.kind = "err" <=> r.hit # Null
  BY <1>5
<1>7. TypeOK'
  <2>1. returned' \in [Threads -> Returns \union {Null}] BY <1>6 DEF TypeOK
  <2> QED BY <1>2, <1>3, <1>4, <2>1 DEF TypeOK, Stacks
<1>8. ASSUME NEW u \in Threads, u # t PROVE ThreadInv(u)'
  BY <1>2, <1>8, ThreadUntouched DEF TypeOK, Disarm
<1>9. ThreadInv(t)'
  <2>1. Top(t)' = frames[t][d - 1] BY <1>1, <1>2, <1>3 DEF Top
  <2>2. /\ frames[t][d - 1].at = "running"
        /\ d - 1 > 0 => frames[t][d - 1].nested
    BY <1>1 DEF ThreadInv, StackInv
  <2>3. StackInv(t)'
    BY <1>1, <1>2, <1>3, <2>1, <2>2 DEF ThreadInv, StackInv
  <2>4. ArmedInv(t)'
    BY <1>1, <1>3, <1>4, <2>1, <2>2 DEF ThreadInv, ArmedInv
  <2>5. HitInv(t)' BY <1>1, <1>2 DEF ThreadInv, HitInv, NoFrame
  <2> QED BY <2>3, <2>4, <2>5 DEF ThreadInv
<1>10. KeyInv' BY DEF KeyInv, Running, TypeOK
<1>11. NoWildJump' /\ LeafFaultCaught' BY DEF Running, NoWildJump, LeafFaultCaught
<1>12. ErrReportsOwnFault' BY <1>6 DEF ErrReportsOwnFault, TypeOK
<1> QED BY <1>7, <1>8, <1>9, <1>10, <1>11, <1>12

(* The process ends and leaves every thread where it is.                   *)
LEMMA EndsStep ==
  ASSUME IInv, NEW t \in Threads, NEW how \in {"killed", "misread", "aborted"},
         NEW a \in Addrs \union {Null}, Ends(t, how, a), installed' \in BOOLEAN,
         how = "misread" => ~keyCreated,
         how = "killed" /\ depth[t] > 0 /\ ~Top(t).nested => a \notin registered
  PROVE  IInv'
<1> USE SigbusAssumption DEF IInv, Ends, threadVars, stackVars
<1>1. Top(t) \in Frame /\ depth[t] \in 0..MaxDepth BY DEF TypeOK, Top
<1>2. /\ outcome' \in Outcomes /\ outcome'.how = how /\ outcome'.depth = depth[t]
      /\ outcome'.addr = a /\ outcome'.nested = Top(t).nested
  BY <1>1 DEF EndedBy, Outcomes, Frame
<1>3. outcome' # Null BY <1>2, NullAssumption
<1>4. TypeOK' BY <1>2 DEF TypeOK
<1>5. ASSUME NEW u \in Threads PROVE ThreadInv(u)' BY ThreadUntouched
<1>6. KeyInv' BY <1>2, <1>3 DEF KeyInv, Running
<1>7. NoWildJump' BY <1>2 DEF NoWildJump
<1>8. LeafFaultCaught' BY <1>2 DEF LeafFaultCaught
<1>9. ErrReportsOwnFault' BY DEF ErrReportsOwnFault
<1> QED BY <1>4, <1>5, <1>6, <1>7, <1>8, <1>9

(* A panic in a closure aborts the process.                                *)
LEMMA ClosurePanicsStep ==
  ASSUME IInv, NEW t \in Threads, ClosurePanics(t)
  PROVE  IInv'
BY EndsStep DEF ClosurePanics, IInv, TypeOK

(* destroy_thread_state runs when no call is on the stack.                 *)
LEMMA ThreadExitStep ==
  ASSUME IInv, NEW t \in Threads, ThreadExit(t)
  PROVE  IInv'
<1> USE SigbusAssumption DEF IInv, ThreadExit, stackVars
<1>1. TypeOK' BY DEF TypeOK
<1>2. ASSUME NEW u \in Threads, u # t PROVE ThreadInv(u)'
  BY <1>2, ThreadUntouched DEF TypeOK
<1>3. ThreadInv(t)'
  <2>1. StackInv(t)' BY DEF ThreadInv, StackInv, Top
  <2>2. Top(t)' = OwnCode /\ in_protected'[t] = FALSE
    BY DEF TypeOK, Top, ThreadInv, StackInv
  <2>3. ArmedInv(t)' BY <2>2 DEF ArmedInv, OwnCode
  <2>4. \A e \in 0..MaxDepth :
          frames[t][e].at # "jumped" /\ frames[t][e].hit = Null
    <3>1. depth[t] = 0 OBVIOUS
    <3> QED BY <3>1 DEF ThreadInv, StackInv, OwnCode, NoFrame
  <2>5. HitInv(t)' BY <2>4 DEF HitInv
  <2> QED BY <2>1, <2>3, <2>5 DEF ThreadInv
<1>4. KeyInv' BY DEF KeyInv, Running, TypeOK
<1>5. NoWildJump' /\ LeafFaultCaught' BY DEF Running, NoWildJump, LeafFaultCaught
<1>6. ErrReportsOwnFault' BY DEF ErrReportsOwnFault, TypeOK
<1> QED BY <1>1, <1>2, <1>3, <1>4, <1>5, <1>6

(* The handler's jump goes to the call whose closure took the fault.       *)
LEMMA JumpsToInnermost ==
  ASSUME IInv, NEW t \in Threads, InUserCode(t), in_protected[t]
  PROVE  jmp_buf[t] = depth[t] /\ depth[t] > 0
BY DEF IInv, TypeOK, ThreadInv, ArmedInv, InUserCode

(* The handler marks the innermost call and keeps its fault's address.     *)
LEMMA FaultJumpsStep ==
  ASSUME IInv, NEW t \in Threads, NEW a \in Addrs,
         Running, InUserCode(t), FaultJumps(t, a)
  PROVE  IInv'
<1> USE SigbusAssumption DEF IInv
<1>1. /\ jmp_buf[t] = depth[t] /\ depth[t] > 0 /\ depth[t] \in 0..MaxDepth
      /\ frames[t] \in Stacks /\ a # Null
  BY JumpsToInnermost DEF FaultJumps, TypeOK, Stacks, Addrs
<1> DEFINE d == depth[t]
           fs == Unwound(frames[t], d, a)
<1>2. /\ fs \in Stacks
      /\ fs[d].at = "jumped" /\ fs[d].hit = a
      /\ \A e \in 0..MaxDepth : e < d => fs[e] = frames[t][e]
      /\ \A e \in 0..MaxDepth : e > d => fs[e] = NoFrame
  BY <1>1, UnwoundStack
<1>3. /\ frames'[t] = fs
      /\ \A u \in Threads : u # t => frames'[u] = frames[u]
      /\ frames' \in [Threads -> Stacks]
  <2>1. frames' = [frames EXCEPT ![t] = fs] BY <1>1 DEF FaultJumps
  <2> HIDE DEF fs
  <2> QED BY <1>2, <2>1 DEF TypeOK, Stacks
<1> HIDE DEF fs
<1>4. depth' = depth
  <2>1. depth' = [depth EXCEPT ![t] = depth[t]] BY <1>1 DEF FaultJumps
  <2> QED BY <2>1 DEF TypeOK
<1>5. outcome' = outcome
  <2>1. jmp_buf[t] # 0 BY <1>1
  <2> QED BY <2>1 DEF FaultJumps
<1>6. /\ fault_addr' = [fault_addr EXCEPT ![t] = a] /\ fault_addr'[t] = a
      /\ in_protected' = [in_protected EXCEPT ![t] = FALSE] /\ in_protected'[t] = FALSE
      /\ UNCHANGED <<installed, keyCreated, registered, hasState, jmp_buf, returned>>
  BY DEF FaultJumps, RecordFault, TypeOK
<1>7. TypeOK' BY <1>3, <1>4, <1>5, <1>6 DEF TypeOK, Stacks
<1>8. ASSUME NEW u \in Threads, u # t PROVE ThreadInv(u)'
  BY <1>3, <1>4, <1>6, <1>8, ThreadUntouched DEF TypeOK
<1>9. ThreadInv(t)'
  <2>1. Top(t)' = fs[d] BY <1>3, <1>4 DEF Top
  <2>2. StackInv(t)'
    <3>1. fs[0] = OwnCode BY <1>1, <1>2 DEF ThreadInv, StackInv
    <3>2. ASSUME NEW e \in 0..MaxDepth
          PROVE  /\ e < d => fs[e].at = "running"
                 /\ e < d /\ e > 0 => fs[e].nested
                 /\ e > d => fs[e] = NoFrame
      BY <1>2 DEF ThreadInv, StackInv
    <3> QED BY <1>2, <1>3, <1>4, <2>1, <3>1, <3>2 DEF StackInv
  <2>3. ArmedInv(t)'
    BY <1>1, <1>2, <1>4, <1>6, <2>1 DEF ThreadInv, ArmedInv
  <2>4. HitInv(t)'
    <3> SUFFICES ASSUME NEW e \in 0..MaxDepth
                 PROVE  IF fs[e].at = "jumped"
                          THEN fs[e].hit # Null /\ fs[e].hit = a
                          ELSE fs[e].hit = Null
      BY <1>3, <1>6 DEF HitInv
    <3>1. CASE e = d BY <1>1, <1>2, <3>1
    <3>2. CASE e < d
      <4>1. fs[e] = frames[t][e] BY <1>2, <3>2
      <4>2. frames[t][e].at = "running" BY <3>2 DEF ThreadInv, StackInv
      <4> QED BY <4>1, <4>2 DEF ThreadInv, HitInv
    <3>3. CASE e > d BY <1>2, <3>3 DEF NoFrame
    <3> QED BY <1>1, <3>1, <3>2, <3>3
  <2> QED BY <2>2, <2>3, <2>4 DEF ThreadInv
<1>10. KeyInv' BY <1>4, <1>5, <1>6 DEF KeyInv, Running
<1>11. NoWildJump' /\ LeafFaultCaught'
  BY <1>5 DEF Running, NoWildJump, LeafFaultCaught
<1>12. ErrReportsOwnFault' BY <1>6 DEF ErrReportsOwnFault
<1> QED BY <1>7, <1>8, <1>9, <1>10, <1>11, <1>12

(* The four ways through sigbus_handler.                                   *)
LEMMA FaultStep ==
  ASSUME IInv, NEW t \in Threads, NEW a \in Addrs, Fault(t, a)
  PROVE  IInv'
<1> USE DEF IInv
<1>1. InUserCode(t) /\ Running BY DEF Fault
<1>2. CASE FaultUnhandled(t, a)
  <2>1. depth[t] = 0
    BY <1>2 DEF FaultUnhandled, KeyInv, Running, Ends, TypeOK, Fault
  <2> QED BY <1>2, <2>1, EndsStep DEF FaultUnhandled, TypeOK
<1>3. CASE FaultReraised(t, a)
  <2>1. depth[t] > 0 /\ ~Top(t).nested => a \notin registered
    BY <1>1, <1>3 DEF FaultReraised, ThreadInv, ArmedInv, InUserCode
  <2> QED BY <1>3, <2>1, EndsStep DEF FaultReraised
<1>4. CASE FaultMisread(t, a)
  BY <1>4, EndsStep DEF FaultMisread, TypeOK
<1>5. CASE FaultJumps(t, a) BY <1>1, <1>5, FaultJumpsStep
<1> QED BY <1>2, <1>3, <1>4, <1>5 DEF Fault

(* Nothing happens.                                                        *)
LEMMA StutterStep == IInv /\ UNCHANGED vars => IInv'
<1> SUFFICES ASSUME IInv, UNCHANGED vars PROVE IInv'
  OBVIOUS
<1> USE DEF IInv, vars, threadVars, stackVars
<1>1. TypeOK' BY DEF TypeOK
<1>2. ASSUME NEW u \in Threads PROVE ThreadInv(u)' BY ThreadUntouched
<1>3. KeyInv' BY DEF KeyInv, Running
<1>4. NoWildJump' /\ LeafFaultCaught' BY DEF NoWildJump, LeafFaultCaught
<1>5. ErrReportsOwnFault' BY DEF ErrReportsOwnFault
<1> QED BY <1>1, <1>2, <1>3, <1>4, <1>5

(* Every step of every thread keeps the invariant.                         *)
LEMMA NextStep == IInv /\ [Next]_vars => IInv'
BY OpenStep, DropStep, EnterStep, CheckpointStep, CompleteStep, ReturnStep,
   ClosurePanicsStep, ThreadExitStep, FaultStep, StutterStep DEF Next

(* The invariant of every behaviour of handlers and protected calls.       *)
THEOREM Inductive == Spec => []IInv
BY InitIInv, NextStep, PTL DEF Spec

(* Every variable keeps its type.                                          *)
THEOREM TypeCorrect == Spec => []TypeOK
<1>1. IInv => TypeOK BY DEF IInv
<1> QED BY Inductive, <1>1, PTL

(* siglongjmp never goes through a jump buffer without a live frame, for   *)
(* any number of threads and any nesting of protected calls.               *)
THEOREM JumpsAreSafe == Spec => []NoWildJump
<1>1. IInv => NoWildJump BY DEF IInv
<1> QED BY Inductive, <1>1, PTL

(* A protected closure without protected calls of its own is always caught *)
(* when it faults on an open mapping.                                      *)
THEOREM LeavesAreProtected == Spec => []LeafFaultCaught
<1>1. IInv => LeafFaultCaught BY DEF IInv
<1> QED BY Inductive, <1>1, PTL

(* with_sigbus_protection returns Err exactly for its own fault, with that *)
(* fault's address.                                                        *)
THEOREM ErrorsAreOwn == Spec => []ErrReportsOwnFault
<1>1. IInv => ErrReportsOwnFault BY DEF IInv
<1> QED BY Inductive, <1>1, PTL

(* Another library's key is consulted only before the first protected call *)
(* of any thread.                                                          *)
THEOREM MisreadWindow == Spec => []MisreadOnlyBeforeFirstCall
<1>1. IInv => MisreadOnlyBeforeFirstCall
  BY DEF IInv, KeyInv, TypeOK, MisreadOnlyBeforeFirstCall
<1> QED BY Inductive, <1>1, PTL

(* A fault never throws frames away: only Return makes a stack shorter, by *)
(* the call that is done.                                                  *)
THEOREM FramesAreKept == Spec => FaultKeepsFrames
<1> DEFINE Kept == \A t \in Threads :
                     depth'[t] < depth[t] => /\ depth'[t] = depth[t] - 1
                                             /\ Top(t).at \in {"completed", "jumped"}
<1>1. IInv /\ [Next]_vars => [Kept]_vars
  <2> SUFFICES ASSUME IInv, Next PROVE Kept
    OBVIOUS
  <2>0. depth \in [Threads -> 0..MaxDepth] BY DEF IInv, TypeOK
  <2>1. ASSUME NEW t \in Threads, Return(t) PROVE Kept
    BY <2>0, <2>1, SigbusAssumption DEF Return
  <2>2. ASSUME NEW t \in Threads, NEW m \in Maps, Enter(t, m) PROVE Kept
    BY <2>0, <2>2, SigbusAssumption DEF Enter
  <2>3. ASSUME NEW t \in Threads, NEW a \in Addrs, Fault(t, a) PROVE depth' = depth
    BY <2>0, <2>3, JumpsToInnermost
       DEF Fault, FaultUnhandled, FaultReraised, FaultMisread, FaultJumps, Ends, stackVars
  <2>4. ASSUME NEW t \in Threads,
               \/ \E m \in Maps : Open(t, m) \/ Drop(t, m)
               \/ Checkpoint(t) \/ Complete(t) \/ ClosurePanics(t) \/ ThreadExit(t)
        PROVE  depth' = depth
    BY <2>4 DEF Open, Drop, Checkpoint, Complete, ClosurePanics, ThreadExit, Ends, stackVars
  <2>5. depth' = depth => Kept BY <2>0, SigbusAssumption
  <2> QED BY <2>1, <2>2, <2>3, <2>4, <2>5 DEF Next
<1> QED BY Inductive, <1>1, PTL DEF Spec, FaultKeepsFrames
=============================================================================
