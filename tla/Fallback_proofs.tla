--------------------------- MODULE Fallback_proofs ---------------------------
(***************************************************************************)
(* Proofs that the dual-path reader of Fallback is right for every length  *)
(* of the file, every width of usize and every way the file, the storage   *)
(* and the kernel behave: an Ok is the whole range, an UnexpectedEof a     *)
(* shrunken file, and a network filesystem never raises SIGBUS.            *)
(***************************************************************************)
EXTENDS Fallback, SequenceTheorems, TLAPS

(* The reader in use is the one detection chose, and only the mapped one   *)
(* can end in a fault.                                                     *)
ViaInv ==
  /\ via # None => via = IF IsNetwork(Detect(fs)) THEN "pread" ELSE "mmap"
  /\ answer = "Sigbus" => via = "mmap"

(* The range of a call has passed the checks of read; nothing was read of  *)
(* an inverted one, whose offset is negative.                              *)
RangeInv ==
  range # None =>
    /\ len # None /\ range.end <= len
    /\ RangeLen(range) <= IsizeMax
    /\ total <= RangeLen(range)
    /\ total > 0 => range.start <= IsizeMax
    /\ answer \in {None, "ok"}
    /\ answer = "ok" => total = RangeLen(range)

(* What is in the buffer is what the file held, each byte in its place.    *)
BufInv ==
  range # None =>
    \A i \in 1..total : /\ range.start + i - 1 \in Positions
                        /\ buf[i] \in seen[range.start + i - 1]

(* During a call the history has every byte the file holds now.            *)
SeenInv ==
  InCall => \A o \in Positions : o < file_len => bytes[o] \in seen[o]

IInv ==
  /\ TypeOK
  /\ ViaInv
  /\ RangeInv
  /\ BufInv
  /\ SeenInv

-----------------------------------------------------------------------------
(* The wrapped length of a range that lies in the file and fits in a       *)
(* buffer: either the range is straight and this is its length, or it is   *)
(* inverted, not empty, and begins at a negative offset.                   *)
LEMMA RangeFacts ==
  ASSUME NEW r \in Ranges, r.end <= MaxLen, RangeLen(r) <= IsizeMax
  PROVE  /\ r.start \in Nat /\ r.end \in Nat
         /\ RangeLen(r) \in Nat /\ AsI64(r.start) \in Int
         /\ r.start <= IsizeMax =>
              /\ r.start <= r.end /\ RangeLen(r) = r.end - r.start
              /\ AsI64(r.start) = r.start
         /\ r.start > IsizeMax => RangeLen(r) > 0 /\ AsI64(r.start) < 0
<1> DEFINE s == r.start
           e == r.end
           U == UsizeMod
<1>1. /\ s \in 0..(U - 1) /\ e \in 0..(U - 1)
      /\ U \in Nat /\ U % 2 = 0 /\ MaxLen < U \div 2 /\ MaxLen \in Nat /\ e <= MaxLen
  BY FallbackAssumption DEF Ranges, Usize
<1>2. RangeLen(r) = (e - s) % U /\ IsizeMax = U \div 2 - 1
  BY DEF RangeLen, IsizeMax
<1>3. AsI64(r.start) = IF s >= U \div 2 THEN s - U ELSE s
  BY DEF AsI64
<1> HIDE DEF s, e, U
<1>4. (e - s) % U = IF s <= e THEN e - s ELSE e - s + U
  <2>1. CASE s <= e
    BY <1>1, <2>1
  <2>2. CASE s > e
    <3>1. e - s + U \in 0..(U - 1)
      BY <1>1, <2>2
    <3> QED BY <1>1, <2>2, <3>1
  <2> QED BY <1>1, <2>1, <2>2
<1>5. (e - s) % U <= U \div 2 - 1
  BY <1>2
<1>6. /\ s \in Nat /\ e \in Nat /\ (e - s) % U \in Nat
      /\ s <= U \div 2 - 1 => s <= e /\ (e - s) % U = e - s
      /\ s > U \div 2 - 1 => (e - s) % U > 0
  BY <1>1, <1>4, <1>5
<1> QED BY <1>1, <1>2, <1>3, <1>6 DEF s, e

(* None is no value of the other kinds a variable may have.                *)
LEMMA NoneApart ==
  /\ None \notin Nat /\ None \notin Ranges
  /\ \A a \in Outcomes : a # None
  /\ None # "pread" /\ None # "mmap"
BY FallbackAssumption

(* A call that fails leaves nothing behind but its answer.                 *)
LEMMA FailKeeps ==
  ASSUME IInv, NEW a \in Outcomes, Fail(a), a = "Sigbus" => via = "mmap",
         UNCHANGED <<fs, down, file, via, len>>
  PROVE  IInv'
<1>1. TypeOK'
  <2>1. seen' \in [Positions -> SUBSET Data]
    BY DEF Fail
  <2>2. buf' \in Seq(Data) /\ Len(buf') = 0 /\ total' = 0 /\ 0 \in 0..MaxLen
    BY FallbackAssumption DEF Fail
  <2> QED BY <2>1, <2>2 DEF IInv, TypeOK, Fail, file
<1>2. ViaInv'
  BY DEF IInv, ViaInv, Fail, file
<1>3. RangeInv' /\ BufInv' /\ SeenInv'
  BY DEF RangeInv, BufInv, SeenInv, InCall, Fail
<1> QED BY <1>1, <1>2, <1>3 DEF IInv

-----------------------------------------------------------------------------
(* Before detection nothing is chosen, open or read.                       *)
LEMMA InitInv == Init => IInv
<1> SUFFICES ASSUME Init PROVE IInv
  OBVIOUS
<1>1. TypeOK
  <2>1. bytes \in [Positions -> Data] /\ seen \in [Positions -> SUBSET Data]
    BY FallbackAssumption DEF Init
  <2>2. buf \in Seq(Data) /\ Len(buf) = 0 /\ 0 \in 0..MaxLen
    BY FallbackAssumption DEF Init
  <2> QED BY <2>1, <2>2 DEF Init, TypeOK
<1>2. ViaInv
  BY NoneApart DEF Init, ViaInv, Outcomes
<1>3. RangeInv /\ BufInv /\ SeenInv
  BY DEF Init, RangeInv, BufInv, SeenInv, InCall
<1> QED BY <1>1, <1>2, <1>3 DEF IInv

(* Detection fixes the reader for good.                                    *)
LEMMA ChooseKeeps == ASSUME IInv, Choose PROVE IInv'
<1>1. TypeOK'
  BY DEF IInv, TypeOK, Choose, file, call
<1>2. ViaInv'
  BY NoneApart DEF IInv, ViaInv, Choose, file, call
<1>3. RangeInv' /\ BufInv' /\ SeenInv'
  BY DEF IInv, RangeInv, BufInv, SeenInv, InCall, Choose, file, call
<1> QED BY <1>1, <1>2, <1>3 DEF IInv

(* Opening takes the length of the file; no call is running.               *)
LEMMA OpenKeeps == ASSUME IInv, Open PROVE IInv'
<1>1. TypeOK'
  BY DEF IInv, TypeOK, Open, file, call
<1>2. ViaInv'
  BY DEF IInv, ViaInv, Open, file, call
<1>3. RangeInv' /\ BufInv' /\ SeenInv'
  BY DEF IInv, RangeInv, BufInv, SeenInv, InCall, Open, file, call
<1> QED BY <1>1, <1>2, <1>3 DEF IInv

(* read refuses a range, or begins with an empty buffer and the file as it *)
(* is.                                                                     *)
LEMMA BeginKeeps == ASSUME IInv, NEW r \in Ranges, Begin(r) PROVE IInv'
<1>1. UNCHANGED <<fs, down, file, via, len>>
  BY DEF Begin
<1>2. CASE Fail("panic") \/ Fail("OutOfBounds")
  BY <1>1, <1>2, FailKeeps DEF Outcomes
<1>3. CASE /\ InFile(r) /\ RangeLen(r) <= IsizeMax
           /\ range' = r
           /\ total' = 0 /\ buf' = <<>>
           /\ answer' = None
           /\ seen' = [o \in Positions |-> IF o < file_len THEN {bytes[o]} ELSE {}]
  <2>1. len # None /\ len \in 0..MaxLen /\ MaxLen \in Nat
    BY FallbackAssumption DEF IInv, TypeOK, Begin
  <2>2. TypeOK'
    <3>1. seen' \in [Positions -> SUBSET Data]
      BY <1>3 DEF IInv, TypeOK
    <3>2. buf' \in Seq(Data) /\ Len(buf') = 0 /\ total' = 0 /\ 0 \in 0..MaxLen
      BY <1>3, <2>1
    <3> QED BY <1>1, <1>3, <3>1, <3>2 DEF IInv, TypeOK, file
  <2>3. ViaInv'
    BY <1>1, <1>3, NoneApart DEF IInv, ViaInv, Outcomes, file
  <2>4. RangeInv'
    <3>1. r.end <= MaxLen /\ r.end <= len
      BY <1>3, <2>1 DEF InFile, Ranges, Usize
    <3>2. RangeLen(r) \in Nat
      BY <1>3, <3>1, RangeFacts
    <3> QED BY <1>1, <1>3, <2>1, <3>1, <3>2, NoneApart
            DEF RangeInv, Outcomes, RangeLen, IsizeMax
  <2>5. BufInv'
    BY <1>3 DEF BufInv
  <2>6. SeenInv'
    BY <1>1, <1>3 DEF SeenInv, file
  <2> QED BY <2>2, <2>3, <2>4, <2>5, <2>6 DEF IInv
<1> QED BY <1>2, <1>3 DEF Begin

(* The mapped reader is the only one whose call may end in Sigbus.         *)
LEMMA MmapReadKeeps == ASSUME IInv, NEW r \in Ranges, MmapRead(r) PROVE IInv'
<1>1. UNCHANGED <<fs, down, file, via, len>> /\ via = "mmap"
  BY DEF MmapRead
<1>2. \E a \in Outcomes : Fail(a)
  BY DEF MmapRead, Outcomes
<1> QED BY <1>1, <1>2, FailKeeps
(* Inside a call the numbers have their types, and a position that is not  *)
(* negative is the straight one.                                           *)
LEMMA InCallFacts ==
  ASSUME IInv, InCall
  PROVE  /\ range \in Ranges /\ len \in 0..MaxLen /\ MaxLen \in Nat
         /\ range.start \in Nat /\ range.end \in Nat /\ range.end <= len
         /\ RangeLen(range) \in Nat /\ RangeLen(range) <= IsizeMax
         /\ total \in Nat /\ file_len \in 0..MaxLen
         /\ Position \in Int
         /\ Position >= 0 => /\ range.start <= IsizeMax
                            /\ Position = range.start + total
                            /\ RangeLen(range) = range.end - range.start
<1>1. range \in Ranges /\ range # None
  BY NoneApart DEF IInv, TypeOK, InCall
<1>2. /\ len \in 0..MaxLen /\ MaxLen \in Nat /\ range.end <= len
      /\ RangeLen(range) <= IsizeMax
      /\ total \in Nat /\ file_len \in 0..MaxLen
      /\ total > 0 => range.start <= IsizeMax
  BY <1>1, FallbackAssumption DEF IInv, TypeOK, RangeInv
<1>3. range.start \in Nat /\ range.end \in Nat
  BY <1>1 DEF Ranges, Usize
<1>4. range.end <= MaxLen
  BY <1>2, <1>3
<1>5. IsizeMax \in Int
  BY FallbackAssumption DEF IsizeMax
<1>6. Position >= 0 => range.start <= IsizeMax
  BY <1>1, <1>2, <1>3, <1>4, <1>5, RangeFacts DEF Position
<1> QED BY <1>1, <1>2, <1>3, <1>4, <1>6, RangeFacts DEF Position

(* One pread appends the bytes at its position, which are those that come  *)
(* next in the range.                                                      *)
LEMMA ReadSomeKeeps ==
  ASSUME IInv, InCall, total < RangeLen(range), NEW k \in 1..MaxLen, ReadSome(k),
         UNCHANGED <<fs, down, file, via, len>>
  PROVE  IInv'
<1> DEFINE chunk == [i \in 1..k |-> bytes[Position + i - 1]]
           P == Position
           R == RangeLen(range)
<1>1. /\ range \in Ranges /\ len \in 0..MaxLen /\ MaxLen \in Nat
      /\ range.start \in Nat /\ range.start <= IsizeMax
      /\ total \in Nat /\ file_len \in 0..MaxLen
      /\ P = range.start + total /\ R \in Nat
  BY InCallFacts DEF ReadSome
<1>2. k \in Nat /\ k > 0 /\ total + k <= R /\ P + k <= file_len
  BY <1>1 DEF ReadSome, Smaller
<1>3. /\ buf' = buf \o chunk /\ total' = total + k
      /\ UNCHANGED <<range, answer, seen>>
  BY DEF ReadSome, Advance
<1>4. buf \in Seq(Data) /\ Len(buf) = total /\ bytes \in [Positions -> Data]
  BY DEF IInv, TypeOK
<1> HIDE DEF P, R
<1>5. \A i \in 1..k : /\ P + i - 1 \in Positions /\ P + i - 1 < file_len
                       /\ chunk[i] = bytes[P + i - 1]
  BY <1>1, <1>2 DEF Positions, P
<1>6. chunk \in Seq(Data) /\ Len(chunk) = k
  <2>1. \A i \in 1..k : chunk[i] \in Data
    BY <1>4, <1>5
  <2> QED BY <1>2, <2>1
<1> HIDE DEF chunk
<1>7. buf' \in Seq(Data) /\ Len(buf') = total'
  BY <1>3, <1>4, <1>6, ConcatProperties
<1>8. \A i \in 1..(total + k) :
        buf'[i] = IF i <= total THEN buf[i] ELSE chunk[i - total]
  BY <1>1, <1>2, <1>3, <1>4, <1>6, ConcatProperties
<1>9. TypeOK'
  <2>1. total' \in 0..MaxLen
    BY <1>1, <1>2, <1>3
  <2> QED BY <1>3, <1>7, <2>1 DEF IInv, TypeOK, file
<1>10. ViaInv'
  BY <1>3 DEF IInv, ViaInv, file
<1>11. RangeInv'
  <2>1. range # None /\ answer = None
    BY DEF InCall
  <2>2. total' <= R
    BY <1>2, <1>3
  <2>3. RangeLen(range)' = R /\ IsizeMax' = IsizeMax
    BY <1>3 DEF R, RangeLen, IsizeMax
  <2> QED BY <1>1, <1>3, <2>1, <2>2, <2>3, NoneApart DEF IInv, RangeInv, Outcomes, R
<1>12. BufInv'
  <2> SUFFICES ASSUME NEW i \in 1..(total + k)
               PROVE  /\ range.start + i - 1 \in Positions
                      /\ buf'[i] \in seen[range.start + i - 1]
    BY <1>3 DEF BufInv
  <2>1. CASE i <= total
    <3>1. i \in 1..total /\ buf'[i] = buf[i]
      BY <1>1, <1>8, <2>1
    <3> QED BY <3>1 DEF IInv, BufInv, InCall
  <2>2. CASE i > total
    <3>1. /\ i - total \in 1..k /\ P + (i - total) - 1 = range.start + i - 1
          /\ buf'[i] = chunk[i - total]
      BY <1>1, <1>2, <1>8, <2>2
    <3>2. \A o \in Positions : o < file_len => bytes[o] \in seen[o]
      BY DEF IInv, SeenInv
    <3>3. /\ range.start + i - 1 \in Positions /\ range.start + i - 1 < file_len
          /\ buf'[i] = bytes[range.start + i - 1]
      BY <1>5, <3>1
    <3> QED BY <3>2, <3>3
  <2> QED BY <1>1, <2>1, <2>2
<1>13. SeenInv'
  BY <1>3 DEF IInv, SeenInv, InCall, file
<1> QED BY <1>9, <1>10, <1>11, <1>12, <1>13 DEF IInv

(* One turn of pread_exact: the buffer is full, grows, or is dropped.      *)
LEMMA PreadExactKeeps == ASSUME IInv, PreadExact PROVE IInv'
<1>1. InCall /\ UNCHANGED <<fs, down, file, via, len>>
  BY DEF PreadExact
<1>2. CASE /\ total = RangeLen(range) /\ answer' = "ok"
           /\ UNCHANGED <<range, total, buf, seen>>
  <2>1. TypeOK'
    BY <1>1, <1>2 DEF IInv, TypeOK, Outcomes, file
  <2>2. ViaInv'
    BY <1>1, <1>2 DEF IInv, ViaInv, file
  <2>3. RangeInv'
    BY <1>1, <1>2 DEF IInv, RangeInv, RangeLen, IsizeMax
  <2>4. BufInv' /\ SeenInv'
    BY <1>1, <1>2, NoneApart DEF IInv, BufInv, SeenInv, InCall, Outcomes
  <2> QED BY <2>1, <2>2, <2>3, <2>4 DEF IInv
<1>3. CASE total < RangeLen(range) /\ \E k \in 1..MaxLen : ReadSome(k)
  BY <1>1, <1>3, ReadSomeKeeps
<1>4. CASE AtEof \/ Fail("Io")
  BY <1>1, <1>4, FailKeeps DEF AtEof, Outcomes
<1> QED BY <1>2, <1>3, <1>4 DEF PreadExact

(* Whatever becomes of the file, the call has seen it.                     *)
LEMMA FileChangeKeeps ==
  ASSUME IInv, NEW n \in 0..MaxLen, file_len' = n, bytes' \in [Positions -> Data],
         Remember(bytes', n), UNCHANGED <<fs, down, via, len, call>>
  PROVE  IInv'
<1>1. /\ seen' \in [Positions -> SUBSET Data]
      /\ \A o \in Positions : seen[o] \subseteq seen'[o]
      /\ InCall => \A o \in Positions : o < n => bytes'[o] \in seen'[o]
  BY DEF IInv, TypeOK, Remember
<1>2. TypeOK'
  BY <1>1 DEF IInv, TypeOK, call
<1>3. ViaInv'
  BY DEF IInv, ViaInv, call
<1>4. RangeInv'
  BY DEF IInv, RangeInv, RangeLen, IsizeMax, call
<1>5. BufInv'
  BY <1>1 DEF IInv, BufInv, call
<1>6. SeenInv'
  BY <1>1 DEF SeenInv, InCall, call
<1> QED BY <1>2, <1>3, <1>4, <1>5, <1>6 DEF IInv

(* Another process writes a byte.                                          *)
LEMMA OverwriteKeeps ==
  ASSUME IInv, NEW o \in Positions, NEW v \in Data, Overwrite(o, v) PROVE IInv'
<1>1. bytes' \in [Positions -> Data] /\ file_len' \in 0..MaxLen /\ file_len' = file_len
  BY DEF IInv, TypeOK, Overwrite
<1>2. Remember(bytes', file_len') /\ UNCHANGED <<fs, down, via, len, call>>
  BY <1>1 DEF Overwrite
<1> QED BY <1>1, <1>2, FileChangeKeeps

(* Another process truncates or extends the file.                          *)
LEMMA ResizeKeeps == ASSUME IInv, NEW n \in 0..MaxLen, Resize(n) PROVE IInv'
<1>1. bytes' \in [Positions -> Data]
  BY FallbackAssumption DEF IInv, TypeOK, Resize
<1> QED BY <1>1, FileChangeKeeps DEF Resize

(* The storage fails or recovers; no data changes.                         *)
LEMMA StorageFlipsKeeps == ASSUME IInv, StorageFlips PROVE IInv'
<1>1. TypeOK'
  BY DEF IInv, TypeOK, StorageFlips, file, call
<1>2. ViaInv'
  BY DEF IInv, ViaInv, StorageFlips, file, call
<1>3. RangeInv' /\ BufInv' /\ SeenInv'
  BY DEF IInv, RangeInv, BufInv, SeenInv, InCall, RangeLen, IsizeMax, StorageFlips, file, call
<1> QED BY <1>1, <1>2, <1>3 DEF IInv

(* The invariant of the reader: every step of the program, of the other    *)
(* processes and of the storage keeps it.                                  *)
THEOREM Inductive == Spec => []IInv
<1>1. IInv /\ [Next]_vars => IInv'
  <2> SUFFICES ASSUME IInv, [Next]_vars PROVE IInv'
    OBVIOUS
  <2>1. CASE UNCHANGED vars
    <3>1. TypeOK'
      BY <2>1 DEF IInv, TypeOK, vars, file, call
    <3>2. ViaInv'
      BY <2>1 DEF IInv, ViaInv, vars, file, call
    <3>3. RangeInv' /\ BufInv' /\ SeenInv'
      BY <2>1 DEF IInv, RangeInv, BufInv, SeenInv, InCall, RangeLen, IsizeMax,
                  vars, file, call
    <3> QED BY <3>1, <3>2, <3>3 DEF IInv
  <2>2. CASE Next
    BY <2>2, ChooseKeeps, OpenKeeps, BeginKeeps, MmapReadKeeps, PreadExactKeeps,
       OverwriteKeeps, ResizeKeeps, StorageFlipsKeeps DEF Next
  <2> QED BY <2>1, <2>2
<1> QED BY <1>1, InitInv, PTL DEF Spec

-----------------------------------------------------------------------------
(* Every variable has its type: the loop of pread_exact never fills more   *)
(* than the file can hold, and never counts other than it has filled.      *)
THEOREM TypeCorrect == Spec => []TypeOK
<1>1. IInv => TypeOK
  BY DEF IInv
<1> QED BY <1>1, Inductive, PTL

(* An Ok of PreadReader::read is the whole range in order, each byte with  *)
(* a value the file had during the call, whatever the kernel returns from  *)
(* pread and whoever writes; an inverted range is never answered with Ok.  *)
THEOREM OkIsWhole == Spec => []OkMeansAll
<1>1. IInv => OkMeansAll
  <2> SUFFICES ASSUME IInv, answer = "ok", range # None
               PROVE  /\ Len(buf) = range.end - range.start
                      /\ \A i \in 1..Len(buf) : buf[i] \in seen[range.start + i - 1]
    BY DEF OkMeansAll
  <2>1. /\ range \in Ranges /\ len \in 0..MaxLen /\ range.end <= len
        /\ RangeLen(range) <= IsizeMax /\ total = RangeLen(range)
        /\ total > 0 => range.start <= IsizeMax
        /\ Len(buf) = total /\ MaxLen \in Nat
    BY NoneApart, FallbackAssumption DEF IInv, TypeOK, RangeInv
  <2>2. range.start \in Nat /\ range.end \in Nat /\ range.end <= MaxLen /\ IsizeMax \in Int
    BY <2>1, FallbackAssumption DEF Ranges, Usize, IsizeMax
  <2>3. Len(buf) = range.end - range.start
    BY <2>1, <2>2, RangeFacts
  <2> QED BY <2>1, <2>3 DEF IInv, BufInv
<1> QED BY <1>1, Inductive, PTL

(* A program that asks FsType::detect first takes no SIGBUS on a network   *)
(* filesystem: detection maps each of them to a network type, and only a   *)
(* mapped reader, which it then does not use, can fault.                   *)
THEOREM NetworkIsSafe == Spec => []NetworkNeverSigbus
<1>1. IInv => NetworkNeverSigbus
  <2> SUFFICES ASSUME IInv, answer = "Sigbus",
                      fs \in {"NFS_SUPER_MAGIC", "CIFS_MAGIC", "EFS_SUPER_MAGIC", "nfs", "smbfs"}
               PROVE  FALSE
    BY DEF NetworkNeverSigbus
  <2>1. IsNetwork(Detect(fs))
    BY DEF IsNetwork, Detect, DetectLinux, DetectMacos
  <2> QED BY <2>1, NoneApart DEF IInv, ViaInv
<1> QED BY <1>1, Inductive, PTL

(* UnexpectedEof means that the file is shorter than when it was opened:   *)
(* the position at which pread found the end lies within the range, and    *)
(* the range within the length PreadReader took at open.                   *)
THEOREM EofMeansShrunk == Spec => EofOnlyIfShrunk
<1>1. IInv /\ [Next]_vars => [InCall /\ answer' = "UnexpectedEof" => file_len < len]_vars
  <2> SUFFICES ASSUME IInv, Next, InCall, answer' = "UnexpectedEof"
               PROVE  file_len < len
    BY DEF vars
  <2>1. answer' # answer /\ range # None
    BY NoneApart DEF InCall, Outcomes
  <2>2. ~(\E r \in Ranges : Begin(r) \/ MmapRead(r))
    BY DEF Begin, MmapRead, Fail
  <2>3. PreadExact
    BY <2>1, <2>2 DEF Next, Choose, Open, Overwrite, Resize, StorageFlips, call
  <2>4. total < RangeLen(range) /\ Position >= file_len
    BY <2>1, <2>3 DEF PreadExact, ReadSome, Fail
  <2>5. Position >= 0
    BY <2>4, InCallFacts
  <2> QED BY <2>4, <2>5, InCallFacts
<1> QED BY <1>1, Inductive, PTL DEF Spec, EofOnlyIfShrunk
==============================================================================
