------------------------------- MODULE Fallback -------------------------------
(***************************************************************************)
(* Reading one file the way the crate's documentation recommends: ask      *)
(* FsType::detect (sys/fs_detect.rs) what it lies on, then read it through *)
(* PreadReader (fallback/mod.rs, sys/pread.rs) on a network filesystem and *)
(* through SafeMmap elsewhere.  Meanwhile other processes overwrite and    *)
(* resize the file and its storage may fail.                               *)
(*                                                                         *)
(* A PreadReader has no mutable state, so calls of several threads do not  *)
(* meet: one call at a time is modelled, pread by pread.  The mmap path is *)
(* a protected read of one-byte pages that fails if the file has shrunk or *)
(* the storage is down (PageOps has the pages, SigbusProtection the fault).*)
(***************************************************************************)
EXTENDS Integers, Sequences

CONSTANTS
  MaxLen,     \* the largest length of the file
  Data,       \* the values of a byte
  Zero,       \* the value of a byte nobody has written
  UsizeMod,   \* 2^64
  None        \* not chosen, not opened, no call, no answer

Positions == 0..(MaxLen - 1)
Usize == 0..(UsizeMod - 1)

(* Range<usize>: any two values, inverted or not.                          *)
Ranges == [start : Usize, end : Usize]

(* What a call of read may end with.                                       *)
Outcomes == {"ok", "OutOfBounds", "panic", "Io", "UnexpectedEof", "Sigbus"}

ASSUME FallbackAssumption ==
  /\ MaxLen \in Nat /\ UsizeMod \in Nat
  /\ UsizeMod % 2 = 0 /\ MaxLen < UsizeMod \div 2
  /\ Zero \in Data
  /\ None \notin Nat \union Data \union Ranges
  /\ None \notin Outcomes \union {"pread", "mmap"}

VARIABLES
  fs,         \* what statfs says about the file
  down,       \* its storage does not answer
  file_len,
  bytes,      \* the content of the file
  via,        \* the reader the program has chosen
  len,        \* PreadReader.len, or the length of the mapping
  range,      \* the range of the call of read in progress or last ended
  total,      \* local of pread_exact
  buf,        \* the buffer, as far as it is filled
  answer,     \* what the last call returned; None while one is running
  seen        \* history: the values each byte had during the call

file == <<file_len, bytes>>
call == <<range, total, buf, answer>>
vars == <<fs, down, file, via, len, call, seen>>

AsI64(x) == IF x >= UsizeMod \div 2 THEN x - UsizeMod ELSE x
IsizeMax == UsizeMod \div 2 - 1
RangeLen(r) == (r.end - r.start) % UsizeMod

Smaller(m, n) == IF m < n THEN m ELSE n

InCall == range # None /\ answer = None

-----------------------------------------------------------------------------
(* Faulty variants of the definitions below.                               *)

(* Amazon EFS is not taken for a network filesystem.                       *)
IsNetworkNfsOnly(t) == t \in {"Nfs", "Cifs"}

(* Every pread of the loop reads from the start of the range.              *)
PositionFixed == AsI64(range.start)

(* The range is not compared with the length of the file.                  *)
InFileUnchecked(r) == TRUE

(* total = ret instead of total += ret.                                    *)
AdvanceForgets(k) == k

(* The loop goes on after the end of the file.                             *)
AtEofRetried == UNCHANGED <<call, seen>>

-----------------------------------------------------------------------------
(* FsType::detect_linux: f_type to FsType.                                 *)
DetectLinux == [NFS_SUPER_MAGIC |-> "Nfs", CIFS_MAGIC |-> "Cifs",
                FUSE_SUPER_MAGIC |-> "Fuse", EFS_SUPER_MAGIC |-> "Efs",
                other_magic |-> "Local"]

(* FsType::detect_macos: f_fstypename to FsType, one name for each arm.    *)
DetectMacos == [nfs |-> "Nfs", smbfs |-> "Cifs", macfuse |-> "Fuse",
                apfs |-> "Local", other_name |-> "Unknown"]

(* FsType::detect.                                                         *)
Detect(name) ==
  IF name \in DOMAIN DetectLinux THEN DetectLinux[name] ELSE DetectMacos[name]

(* FsType::is_network.                                                     *)
IsNetwork(t) == t \in {"Nfs", "Cifs", "Efs"}

Init ==
  /\ fs \in DOMAIN DetectLinux \union DOMAIN DetectMacos
  /\ down = FALSE
  /\ file_len \in 0..MaxLen
  /\ bytes = [o \in Positions |-> Zero]
  /\ via = None /\ len = None
  /\ range = None /\ total = 0 /\ buf = <<>> /\ answer = None
  /\ seen = [o \in Positions |-> {}]

(* The program asks what the file lies on; an error ends it.               *)
Choose ==
  /\ via = None
  /\ via' = IF IsNetwork(Detect(fs)) THEN "pread" ELSE "mmap"
  /\ UNCHANGED <<fs, down, file, len, call, seen>>

(* PreadReader::open, or SafeMmap::open, which refuses an empty file.      *)
Open ==
  /\ via # None /\ len = None
  /\ ~down
  /\ via = "mmap" => file_len > 0
  /\ len' = file_len
  /\ UNCHANGED <<fs, down, file, via, call, seen>>

(* read returns an error, and what it had of a buffer is dropped.          *)
Fail(a) ==
  /\ answer' = a
  /\ range' = None /\ total' = 0 /\ buf' = <<>>
  /\ seen' = [o \in Positions |-> {}]

(* PreadReader::read: range.end as u64 > self.len.                         *)
InFile(r) == r.end <= len

(* PreadReader::read of r.  For an inverted range the subtraction panics   *)
(* or wraps, by the build; a length no buffer can have panics.             *)
Begin(r) ==
  /\ via = "pread" /\ len # None /\ ~InCall
  /\ \/ r.start > r.end /\ Fail("panic")
     \/ ~InFile(r) /\ Fail("OutOfBounds")
     \/ InFile(r) /\ RangeLen(r) > IsizeMax /\ Fail("panic")
     \/ /\ InFile(r) /\ RangeLen(r) <= IsizeMax
        /\ range' = r
        /\ total' = 0 /\ buf' = <<>>
        /\ answer' = None
        /\ seen' = [o \in Positions |-> IF o < file_len THEN {bytes[o]} ELSE {}]
  /\ UNCHANGED <<fs, down, file, via, len>>

(* The offset pread_exact passes: offset + total as i64.                   *)
Position == AsI64(range.start) + total

(* total += ret                                                            *)
Advance(k) == total + k

(* pread returned k > 0 bytes.                                             *)
ReadSome(k) ==
  /\ ~down
  /\ Position >= 0
  /\ k <= Smaller(RangeLen(range) - total, file_len - Position)
  /\ buf' = buf \o [i \in 1..k |-> bytes[Position + i - 1]]
  /\ total' = Advance(k)
  /\ UNCHANGED <<range, answer, seen>>

(* pread returned 0: UnexpectedEof.                                        *)
AtEof == Fail("UnexpectedEof")

(* One turn of the loop of pread_exact; after the last one read calls f.   *)
PreadExact ==
  /\ InCall
  /\ \/ /\ total = RangeLen(range)
        /\ answer' = "ok"
        /\ UNCHANGED <<range, total, buf, seen>>
     \/ /\ total < RangeLen(range)
        /\ \/ \E k \in 1..MaxLen : ReadSome(k)
           \/ ~down /\ Position >= file_len /\ AtEof
           \/ (down \/ Position < 0) /\ Fail("Io")
  /\ UNCHANGED <<fs, down, file, via, len>>

(* SafeMmap::read of the other path.                                       *)
MmapRead(r) ==
  /\ via = "mmap" /\ len # None
  /\ \/ r.start > r.end /\ Fail("panic")
     \/ (r.start > r.end \/ r.end > len) /\ Fail("OutOfBounds")
     \/ /\ r.start <= r.end /\ r.end <= len
        /\ Fail(IF r.start < r.end /\ (down \/ r.end > file_len)
                  THEN "Sigbus" ELSE "ok")
  /\ UNCHANGED <<fs, down, file, via, len>>

-----------------------------------------------------------------------------
(* Other processes and the storage.                                        *)

(* During a call the history takes in what a byte becomes.                 *)
Remember(b, n) ==
  seen' = IF ~InCall THEN seen
          ELSE [o \in Positions |-> IF o < n THEN seen[o] \union {b[o]} ELSE seen[o]]

Overwrite(o, v) ==
  /\ o < file_len
  /\ bytes' = [bytes EXCEPT ![o] = v]
  /\ Remember(bytes', file_len)
  /\ UNCHANGED <<fs, down, file_len, via, len, call>>

Resize(n) ==
  /\ file_len' = n
  /\ bytes' = [o \in Positions |-> IF o < n /\ o < file_len THEN bytes[o] ELSE Zero]
  /\ Remember(bytes', n)
  /\ UNCHANGED <<fs, down, via, len, call>>

StorageFlips ==
  /\ down' = ~down
  /\ UNCHANGED <<fs, file, via, len, call, seen>>

Next ==
  \/ Choose
  \/ Open
  \/ \E r \in Ranges : Begin(r) \/ MmapRead(r)
  \/ PreadExact
  \/ \E o \in Positions, v \in Data : Overwrite(o, v)
  \/ \E n \in 0..MaxLen : Resize(n)
  \/ StorageFlips

(* The thread in a call of read keeps running, and pread returns.          *)
Spec == Init /\ [][Next]_vars /\ WF_vars(PreadExact)

-----------------------------------------------------------------------------
TypeOK ==
  /\ fs \in DOMAIN DetectLinux \union DOMAIN DetectMacos
  /\ down \in BOOLEAN
  /\ file_len \in 0..MaxLen
  /\ bytes \in [Positions -> Data]
  /\ via \in {None, "pread", "mmap"}
  /\ len \in (0..MaxLen) \union {None}
  /\ range \in Ranges \union {None}
  /\ total \in 0..MaxLen /\ buf \in Seq(Data) /\ Len(buf) = total
  /\ answer \in Outcomes \union {None}
  /\ seen \in [Positions -> SUBSET Data]

(* An Ok of PreadReader::read hands the closure exactly the bytes of the   *)
(* range, in order, each with a value the file had there during the call,  *)
(* however the kernel cuts the reads and whoever writes meanwhile; never   *)
(* for an inverted range, whose length wraps.                              *)
OkMeansAll ==
  answer = "ok" /\ range # None =>
    /\ Len(buf) = range.end - range.start
    /\ \A i \in 1..Len(buf) : buf[i] \in seen[range.start + i - 1]

(* UnexpectedEof is told apart from OutOfBounds: a call ends with it only  *)
(* if the file is shorter than it was when it was opened.                  *)
EofOnlyIfShrunk ==
  [][InCall /\ answer' = "UnexpectedEof" => file_len < len]_vars

(* A program that follows the recommendation takes no SIGBUS on NFS, CIFS  *)
(* or EFS, whatever happens to the file and the storage after detection.   *)
NetworkNeverSigbus ==
  answer = "Sigbus" => fs \notin {"NFS_SUPER_MAGIC", "CIFS_MAGIC", "EFS_SUPER_MAGIC",
                                  "nfs", "smbfs"}

(* A call of read ends although the file may shrink and grow in between:   *)
(* every turn of the loop fills some of the buffer or ends it.             *)
ReadReturns == InCall ~> ~InCall
=============================================================================
