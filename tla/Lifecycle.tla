------------------------------ MODULE Lifecycle ------------------------------
(***************************************************************************)
(* The life of SafeMmap values, from SafeMmapOptions::open (mmap/mod.rs)   *)
(* through MmapOptions::map (sys/mmap.rs) to the drop of the value and of  *)
(* its fields.  Opens and drops of different values run concurrently on    *)
(* different threads; the kernel may hand a range out again as soon as it  *)
(* is unmapped, and other processes may resize the files.                  *)
(*                                                                         *)
(* The region registry is the atomic set RegionRegistry implements.        *)
(* Mappings are made of pages, regions and lengths are bytes.              *)
(***************************************************************************)
EXTENDS Regions

CONSTANTS
  Values,     \* SafeMmap values, open, being opened, or not there
  Files,
  FileLens,   \* lengths a file may have
  Offsets,    \* SafeMmapOptions.offset
  Lens,       \* SafeMmapOptions.len, where it is Some
  PageSize,
  Pages,      \* the page numbers of the address space
  None        \* no length, no options, no page, nobody

ASSUME LifecycleAssumption ==
  /\ FileLens \subseteq Nat
  /\ Offsets \subseteq Nat
  /\ Lens \subseteq Nat
  /\ PageSize \in Nat \ {0}
  /\ Pages \subseteq Nat
  /\ None \notin Nat \union Values

VARIABLES
  file_len,    \* the length of each file
  stage,       \* how far the open or the drop of a value has come
  options,     \* the SafeMmapOptions of a value
  flocked,     \* the lock its file descriptor holds
  map_len,     \* its length, once open has computed it
  base,        \* the first page of its mapping
  pageOwner,   \* who has mapped a page of the address space
  registered   \* the regions the SIGBUS handler knows

vars == <<file_len, stage, options, flocked, map_len, base, pageOwner, registered>>

(* What a caller can set before open.  shared matters to PageOps only,     *)
(* max_sigbus and on_event to PoisonTracking, and populate to nobody: its  *)
(* pages may be resident anyway.                                           *)
Options == [file : Files, writable : BOOLEAN, flock : BOOLEAN,
            offset : Offsets, len : Lens \union {None}]

(* In the order they are passed through.                                   *)
Stages == {"absent", "opened", "locked", "sized", "mapped", "live",
           "unregistered", "unmapped"}

(* The pages mmap needs for n bytes from page b on.                        *)
PageSpan(b, n) == b..(b + (n - 1) \div PageSize)

StartOf(v) == base[v] * PageSize

(* Another descriptor of the file holds a lock that excludes this one.     *)
LockConflict(v, kind) ==
  \E u \in Values \ {v} :
    /\ flocked[u] # "none"
    /\ options[u].file = options[v].file
    /\ "LOCK_EX" \in {kind, flocked[u]}

Init ==
  /\ file_len \in [Files -> FileLens]
  /\ stage = [v \in Values |-> "absent"]
  /\ options = [v \in Values |-> None]
  /\ flocked = [v \in Values |-> "none"]
  /\ map_len = [v \in Values |-> None]
  /\ base = [v \in Values |-> None]
  /\ pageOwner = [p \in Pages |-> None]
  /\ registered = {}

Goto(v, s) == stage' = [stage EXCEPT ![v] = s]

-----------------------------------------------------------------------------
(* The steps of a drop, each from one stage to another.                    *)

(* Drop for SafeMmap: unregister_region(ptr).                              *)
UnregisterRegion(v, from, to) ==
  /\ stage[v] = from
  /\ registered' = Retain(registered, StartOf(v))
  /\ Goto(v, to)
  /\ UNCHANGED <<file_len, options, flocked, map_len, base, pageOwner>>

(* Drop for RawMmap: munmap.                                               *)
Munmap(v, from, to) ==
  /\ stage[v] = from
  /\ pageOwner' = [p \in Pages |-> IF pageOwner[p] = v THEN None ELSE pageOwner[p]]
  /\ Goto(v, to)
  /\ UNCHANGED <<file_len, options, flocked, map_len, base, registered>>

(* Drop for File: close, which releases the flock; nothing is left.        *)
CloseFile(v) ==
  /\ Goto(v, "absent")
  /\ options' = [options EXCEPT ![v] = None]
  /\ flocked' = [flocked EXCEPT ![v] = "none"]
  /\ map_len' = [map_len EXCEPT ![v] = None]
  /\ base' = [base EXCEPT ![v] = None]
  /\ UNCHANGED <<file_len, pageOwner, registered>>

(* An early return of open: the file, if any, is dropped.                  *)
Fail(v) == CloseFile(v)

-----------------------------------------------------------------------------
(* Faulty variants of the definitions below.                               *)

(* The mapping is gone before its region is unregistered.                  *)
DropUnmapsFirst(v) ==
  \/ Munmap(v, "live", "unregistered")
  \/ UnregisterRegion(v, "unregistered", "unmapped")
  \/ stage[v] = "unmapped" /\ CloseFile(v)

(* SafeMmap has no Drop: only its fields are dropped.                      *)
DropKeepsRegion(v) ==
  \/ Munmap(v, "live", "unmapped")
  \/ stage[v] = "unmapped" /\ CloseFile(v)

(* _file is declared before raw: the lock is released before munmap.       *)
DropClosesFirst(v) ==
  \/ UnregisterRegion(v, "live", "unregistered")
  \/ /\ stage[v] = "unregistered"
     /\ flocked' = [flocked EXCEPT ![v] = "none"]
     /\ Goto(v, "unmapped")
     /\ UNCHANGED <<file_len, options, map_len, base, pageOwner, registered>>
  \/ /\ stage[v] = "unmapped"
     /\ pageOwner' = [p \in Pages |-> IF pageOwner[p] = v THEN None ELSE pageOwner[p]]
     /\ Goto(v, "absent")
     /\ options' = [options EXCEPT ![v] = None]
     /\ map_len' = [map_len EXCEPT ![v] = None]
     /\ base' = [base EXCEPT ![v] = None]
     /\ UNCHANGED <<file_len, flocked, registered>>

(* Lengths of zero and offsets beyond the file are not refused.            *)
UsableUnchecked(v) == TRUE

-----------------------------------------------------------------------------
(* SafeMmapOptions::open.                                                  *)

(* OpenOptions::open succeeds; if it does not, nothing has happened.       *)
OpenFile(v, o) ==
  /\ stage[v] = "absent"
  /\ options' = [options EXCEPT ![v] = o]
  /\ Goto(v, "opened")
  /\ UNCHANGED <<file_len, flocked, map_len, base, pageOwner, registered>>

(* flock with LOCK_NB, exclusive for a writable mapping, if asked for; it  *)
(* fails on a conflict and may fail otherwise.                             *)
Flock(v) ==
  LET kind == IF options[v].writable THEN "LOCK_EX" ELSE "LOCK_SH"
  IN /\ stage[v] = "opened"
     /\ \/ /\ ~options[v].flock
           /\ Goto(v, "locked")
           /\ UNCHANGED <<file_len, options, flocked, map_len, base, pageOwner,
                          registered>>
        \/ /\ options[v].flock /\ ~LockConflict(v, kind)
           /\ flocked' = [flocked EXCEPT ![v] = kind]
           /\ Goto(v, "locked")
           /\ UNCHANGED <<file_len, options, map_len, base, pageOwner, registered>>
        \/ options[v].flock /\ Fail(v)

(* Neither EmptyFile nor OffsetBeyondFile.                                 *)
Usable(v) ==
  LET o == options[v]
  IN IF o.len # None THEN o.len # 0 ELSE o.offset < file_len[o.file]

(* metadata().len(), which may fail, and the length of the mapping:        *)
(* explicit or up to the end of the file.                                  *)
Measure(v) ==
  LET o == options[v]
      n == IF o.len # None THEN o.len ELSE file_len[o.file] - o.offset
  IN /\ stage[v] = "locked"
     /\ \/ /\ Usable(v)
           /\ map_len' = [map_len EXCEPT ![v] = n]
           /\ Goto(v, "sized")
           /\ UNCHANGED <<file_len, options, flocked, base, pageOwner, registered>>
        \/ Fail(v)

(* The MmapOptions open builds from them.                                  *)
RawOptions(v) == [len |-> map_len[v], offset |-> options[v].offset]

(* MmapOptions::map: refused for no bytes or an unaligned offset, and mmap *)
(* may fail; otherwise the kernel picks any free range.                    *)
Map(v) ==
  /\ stage[v] = "sized"
  /\ \/ /\ RawOptions(v).len > 0
        /\ RawOptions(v).offset % PageSize = 0
        /\ \E b \in Pages :
             LET span == PageSpan(b, RawOptions(v).len)
             IN /\ span \subseteq {p \in Pages : pageOwner[p] = None}
                /\ pageOwner' = [p \in Pages |-> IF p \in span THEN v ELSE pageOwner[p]]
                /\ base' = [base EXCEPT ![v] = b]
        /\ Goto(v, "mapped")
        /\ UNCHANGED <<file_len, options, flocked, map_len, registered>>
     \/ Fail(v)

(* register_region(ptr, len), and open returns.                            *)
RegisterRegion(v) ==
  /\ stage[v] = "mapped"
  /\ registered' = registered \union {RegisteredRegion(StartOf(v), map_len[v])}
  /\ Goto(v, "live")
  /\ UNCHANGED <<file_len, options, flocked, map_len, base, pageOwner>>

(* The drop of a SafeMmap: its own drop first, then its fields in the      *)
(* order they are declared, raw before _file.                              *)
Drop(v) ==
  \/ UnregisterRegion(v, "live", "unregistered")
  \/ Munmap(v, "unregistered", "unmapped")
  \/ stage[v] = "unmapped" /\ CloseFile(v)

(* Somebody truncates or extends a file.                                   *)
Resize(f, n) ==
  /\ file_len' = [file_len EXCEPT ![f] = n]
  /\ UNCHANGED <<stage, options, flocked, map_len, base, pageOwner, registered>>

Open(v) ==
  \/ \E o \in Options : OpenFile(v, o)
  \/ Flock(v)
  \/ Measure(v)
  \/ Map(v)
  \/ RegisterRegion(v)

Next ==
  \/ \E v \in Values : Open(v) \/ Drop(v)
  \/ \E f \in Files, n \in FileLens : Resize(f, n)

Spec == Init /\ [][Next]_vars

-----------------------------------------------------------------------------
TypeOK ==
  /\ file_len \in [Files -> FileLens]
  /\ stage \in [Values -> Stages]
  /\ options \in [Values -> Options \union {None}]
  /\ flocked \in [Values -> {"none", "LOCK_SH", "LOCK_EX"}]
  /\ map_len \in [Values -> (Nat \ {0}) \union {None}]
  /\ base \in [Values -> Pages \union {None}]
  /\ pageOwner \in [Pages -> Values \union {None}]
  /\ \A r \in registered : r.start \in Nat /\ r.end \in Nat

HasMapping(v) == \E p \in Pages : pageOwner[p] = v

(* As long as the program can read a SafeMmap the SIGBUS handler knows     *)
(* every byte of it, although other values are opened and dropped at the   *)
(* same addresses and unregister goes by start address alone.              *)
LiveIsCovered ==
  \A v \in Values : stage[v] = "live" =>
    \A a \in StartOf(v)..(StartOf(v) + map_len[v] - 1) : Covers(registered, a)

(* The handler claims only faults in SafeMmaps the program can read: no    *)
(* region outlives its value, on any path out of open or drop.             *)
CoveredIsLive ==
  \A p \in Pages : \A a \in (p * PageSize)..(p * PageSize + PageSize - 1) :
    Covers(registered, a) => pageOwner[p] # None /\ stage[pageOwner[p]] = "live"

(* "The lock is held for the lifetime of the SafeMmap": two values that    *)
(* asked for flock never map one file together if one of them is writable, *)
(* from the first page mapped to the last one unmapped.                    *)
LockGuardsMapping ==
  \A u, v \in Values :
    /\ u # v /\ HasMapping(u) /\ HasMapping(v)
    /\ options[u].file = options[v].file
    /\ options[u].flock /\ options[v].flock
    => ~options[u].writable /\ ~options[v].writable
==============================================================================
