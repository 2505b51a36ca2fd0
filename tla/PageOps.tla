------------------------------- MODULE PageOps -------------------------------
(***************************************************************************)
(* What the operations of one SafeMmap do to its pages (mmap/mod.rs) by    *)
(* way of RawMmap (sys/mmap.rs) and the kernel: reads, writes, probe,      *)
(* advice, flush, mincore, locking.  Meanwhile the kernel writes pages     *)
(* back and reclaims them, the storage comes and goes, and other processes *)
(* resize the file; nobody else writes to it.                              *)
(*                                                                         *)
(* Data is abstracted to where the latest value of each byte is: in the    *)
(* private copy of its page, in the page cache (or what a page-in would    *)
(* put there), on disk.  Poisoning only adds refusals (PoisonTracking), and *)
(* a fault under with_sigbus_protection is an Err (SigbusProtection).      *)
(***************************************************************************)
EXTENDS PageRange

CONSTANTS FileLens   \* lengths the file may have

ASSUME PageOpsAssumption == FileLens \subseteq Nat

VARIABLES
  protection,   \* Protection of the mapping
  visibility,   \* Visibility of the mapping
  file_len,
  down,         \* the storage does not answer
  resident,     \* pages in the page cache
  cow,          \* pages of which the mapping has a private copy
  locked,       \* pages mlock'ed
  inPrivate,    \* bytes whose latest value is in the private copy
  inCache,      \* ... in the page cache
  onDisk,       \* ... on disk
  kept,         \* history: bytes the program can rely on
  flushed,      \* history: bytes a blocking flush has reported as written
  pinned        \* history: pages lock_range has reported as locked

mode == <<protection, visibility>>
storage == <<file_len, down>>
content == <<cow, inPrivate, inCache, onDisk>>
history == <<kept, flushed, pinned>>
vars == <<mode, storage, resident, content, locked, history>>

(* The two builder options open turns into a Protection and a Visibility.  *)
ProtectionOf(writable) == IF writable THEN "ReadWrite" ELSE "Read"
VisibilityOf(shared) == IF shared THEN "Shared" ELSE "Private"

is_writable == protection = "ReadWrite"
Shared == visibility = "Shared"

Advices == {"Normal", "Sequential", "Random", "WillNeed", "DontNeed"}

BytesOf(pages) == {b \in Bytes : PageOf(b) \in pages}
BelowEof == {b \in Bytes : b < file_len}
Backed == {p \in Pages : p * PageSize < file_len}

(* The pages an access can touch without a SIGBUS.                         *)
Accessible == cow \union {p \in Backed : p \in resident \/ ~down}

Visible == {b \in Bytes : IF PageOf(b) \in cow THEN b \in inPrivate ELSE b \in inCache}

(* A page all of whose bytes below the end of the file are on disk.        *)
Clean(p) == inCache \intersect BytesOf({p}) \intersect BelowEof \subseteq onDisk

(* A new mapping, with pages populated or in the cache from earlier.       *)
Init ==
  /\ \E w, s \in BOOLEAN : protection = ProtectionOf(w) /\ visibility = VisibilityOf(s)
  /\ file_len \in FileLens
  /\ down = FALSE
  /\ resident \in SUBSET Backed
  /\ cow = {} /\ locked = {} /\ inPrivate = {}
  /\ inCache = BelowEof /\ onDisk = BelowEof
  /\ kept = BelowEof /\ flushed = {} /\ pinned = {}

-----------------------------------------------------------------------------
(* Faulty variants of the definitions below.                               *)

(* A failed msync is reported as a success.                                *)
MsyncUnchecked(range, pages, done) ==
  /\ done \subseteq pages
  /\ onDisk' = onDisk \union (inCache \intersect BytesOf(done) \intersect BelowEof)
  /\ flushed' = flushed \union (range \intersect kept)

(* The start of the mapping is locked, not the start of the range.         *)
LockFromStart(offset, len) == Overlapping(0, len)

-----------------------------------------------------------------------------
(* Kernel calls and memory accesses.                                       *)

(* Touching pages brings them in; a fault leaves after some of them.       *)
Touch(pages) ==
  \E seen \in SUBSET (pages \intersect Accessible) :
    /\ seen = pages \/ ~(pages \subseteq Accessible)
    /\ resident' = resident \union (seen \intersect Backed)

(* Stores to bytes w, which must be accessible: a private mapping first    *)
(* copies the pages it stores to.                                          *)
Store(w) ==
  LET copied == IF Shared THEN {} ELSE {PageOf(b) : b \in w}
  IN /\ resident' = resident \union ({PageOf(b) : b \in w} \intersect Backed)
     /\ cow' = cow \union copied
     /\ inPrivate' = IF Shared THEN {}
                     ELSE inPrivate \union w \union
                            (inCache \intersect BytesOf(copied \ cow))
     /\ inCache' = IF Shared THEN inCache \union w ELSE inCache \ w
     /\ onDisk' = onDisk \ w
     /\ flushed' = flushed \ w

(* MADV_DONTNEED drops private copies, page by page up to the first locked *)
(* one, where it fails; the page cache stays.  The caller knows that it    *)
(* gives up what the pages its range meets held.                           *)
DontNeed(pages, meets) ==
  LET gone == {p \in pages : \A q \in pages \intersect locked : p < q}
  IN /\ cow' = cow \ gone
     /\ inPrivate' = inPrivate \ BytesOf(gone)
     /\ kept' = IF Shared THEN kept ELSE kept \ BytesOf(meets)
     /\ UNCHANGED <<resident, inCache, onDisk, flushed, pinned>>

(* MADV_WILLNEED starts to read pages in.                                  *)
WillNeed(pages) ==
  /\ \E read \in SUBSET (IF down THEN {} ELSE pages \intersect Backed) :
       resident' = resident \union read
  /\ UNCHANGED <<content, history>>

(* MS_SYNC wrote the pages done; it fails if it could not write them all.  *)
Msync(range, pages, done) ==
  /\ done \subseteq pages /\ (done = pages <=> ~down)
  /\ onDisk' = onDisk \union (inCache \intersect BytesOf(done) \intersect BelowEof)
  /\ flushed' = IF done = pages THEN flushed \union (range \intersect kept) ELSE flushed

(* The pages mlock and munlock round a byte range to.                      *)
LockedPages(offset, len) == Overlapping(offset, len)

-----------------------------------------------------------------------------
(* The operations of SafeMmap.                                             *)

RangeBytes(offset, len) == offset..(offset + len - 1)
PagesUnder(offset, len) == {PageOf(b) : b \in RangeBytes(offset, len)}

(* ReadGuard::read.                                                        *)
GuardRead(offset, len) ==
  /\ ~Exceeds(offset, len)
  /\ Touch(PagesUnder(offset, len))

(* SafeMmap::read of start..end.                                           *)
Read(start, end) ==
  /\ GuardRead(start, RangeLen(start, end))
  /\ UNCHANGED <<mode, storage, content, locked, history>>

(* SafeMmap::read_into.                                                    *)
ReadInto(offset, len) ==
  /\ ~Exceeds(offset, len)
  /\ Touch(PagesUnder(offset, len))
  /\ UNCHANGED <<mode, storage, content, locked, history>>

(* SafeMmap::probe reads a byte of one page after the other until one      *)
(* faults.                                                                 *)
Probe(offset, len) ==
  LET pages == ProbedPages(offset, len)
  IN /\ ~Exceeds(offset, len)
     /\ resident' = resident \union
          {p \in pages \intersect Backed : \A q \in pages : q <= p => q \in Accessible}
     /\ UNCHANGED <<mode, storage, content, locked, history>>

(* SafeMmap::write, refused on a read-only mapping.  A fault in the middle *)
(* of the copy leaves any part of the accessible bytes written, and the    *)
(* rest of the range unknown to the caller.                                *)
Write(offset, len) ==
  LET w == RangeBytes(offset, len)
  IN /\ ~Exceeds(offset, len)
     /\ is_writable
     /\ \/ /\ PagesUnder(offset, len) \subseteq Accessible
           /\ Store(w)
           /\ kept' = IF Shared THEN kept \union (w \intersect BelowEof) ELSE kept \union w
        \/ /\ ~(PagesUnder(offset, len) \subseteq Accessible)
           /\ \E part \in SUBSET (w \intersect BytesOf(Accessible)) : Store(part)
           /\ kept' = kept \ w
     /\ UNCHANGED <<mode, storage, locked, pinned>>

(* RawMmap::advise_range, for advise, advise_range, evict and prefetch.    *)
AdviseRange(advice, offset, len) ==
  LET pages == AlignedPages(offset, len)
  IN /\ ~Exceeds(offset, len)
     /\ \/ advice = "DontNeed" /\ DontNeed(pages, Overlapping(offset, len))
        \/ advice = "WillNeed" /\ WillNeed(pages)
        \/ /\ advice \notin {"DontNeed", "WillNeed"}
           /\ UNCHANGED <<resident, content, history>>
     /\ UNCHANGED <<mode, storage, locked>>

(* SafeMmap::advise: the whole mapping.                                    *)
Advise(advice) == AdviseRange(advice, 0, MapLen)

(* SafeMmap::evict.                                                        *)
Evict(offset, len) == AdviseRange("DontNeed", offset, len)

(* SafeMmap::prefetch.                                                     *)
Prefetch(offset, len) == AdviseRange("WillNeed", offset, len)

(* RawMmap::flush.  MS_ASYNC and private mappings: nothing is written now. *)
Flush(offset, len, async_flush) ==
  /\ ~Exceeds(offset, len)
  /\ IF async_flush \/ ~Shared
     THEN UNCHANGED <<onDisk, flushed>>
     ELSE \E done \in SUBSET AlignedPages(offset, len) :
            Msync(RangeBytes(offset, len), AlignedPages(offset, len), done)
  /\ UNCHANGED <<mode, storage, resident, cow, inPrivate, inCache, locked, kept, pinned>>

(* RawMmap::mincore, and resident_pages: one answer per page of the range. *)
ResidentPages(offset, len) ==
  [p \in MincorePages(offset, len) |-> p \in resident \union cow]

(* SafeMmap::lock_range.  mlock may be refused altogether; otherwise it    *)
(* marks the pages and then reads them in, which may fail half way.        *)
LockRange(offset, len) ==
  LET pages == LockedPages(offset, len)
  IN /\ ~Exceeds(offset, len)
     /\ locked' = locked \union pages
     /\ Touch(pages)
     /\ pinned' = IF pages \subseteq Accessible
                  THEN pinned \union Overlapping(offset, len) ELSE pinned
     /\ UNCHANGED <<mode, storage, content, kept, flushed>>

(* SafeMmap::unlock_range: locks do not nest.                              *)
UnlockRange(offset, len) ==
  /\ ~Exceeds(offset, len)
  /\ locked' = locked \ LockedPages(offset, len)
  /\ pinned' = pinned \ Overlapping(offset, len)
  /\ UNCHANGED <<mode, storage, resident, content, kept, flushed>>

(* RawMmap::lock and RawMmap::unlock: the whole mapping.                   *)
Lock == LockRange(0, MapLen)
Unlock == UnlockRange(0, MapLen)

Operation ==
  \E offset, len \in Usize :
    \/ Read(offset, len)
    \/ ReadInto(offset, len)
    \/ Probe(offset, len)
    \/ Write(offset, len)
    \/ \E advice \in Advices : AdviseRange(advice, offset, len)
    \/ Evict(offset, len)
    \/ Prefetch(offset, len)
    \/ \E async_flush \in BOOLEAN : Flush(offset, len, async_flush)
    \/ LockRange(offset, len)
    \/ UnlockRange(offset, len)

-----------------------------------------------------------------------------
(* The kernel, the storage and other processes.                            *)

(* A page is written back; what lies beyond the end of the file is zeroed. *)
Writeback(p) ==
  /\ ~down
  /\ onDisk' = onDisk \union (inCache \intersect BytesOf({p}) \intersect BelowEof)
  /\ inCache' = inCache \ (BytesOf({p}) \ BelowEof)
  /\ UNCHANGED <<mode, storage, resident, cow, inPrivate, locked, history>>

(* A clean, unlocked page leaves the page cache.                           *)
Reclaim(p) ==
  /\ p \in resident \ locked /\ Clean(p)
  /\ resident' = resident \ {p}
  /\ inCache' = inCache \ (BytesOf({p}) \ BelowEof)
  /\ UNCHANGED <<mode, storage, cow, inPrivate, onDisk, locked, history>>

(* Truncation drops pages and private copies beyond the new end; what an   *)
(* extension uncovers reads as zero.                                       *)
Resize(n) ==
  LET lost == {b \in Bytes : b >= n \/ b >= file_len}
      gone == {p \in Pages : p * PageSize >= n}
  IN /\ file_len' = n
     /\ resident' = resident \ gone
     /\ cow' = cow \ gone
     /\ inPrivate' = inPrivate \ BytesOf(gone)
     /\ inCache' = inCache \ lost
     /\ onDisk' = onDisk \ lost
     /\ kept' = {b \in kept : b < n}
     /\ flushed' = {b \in flushed : b < n}
     /\ pinned' = pinned \ gone
     /\ UNCHANGED <<mode, down, locked>>

StorageFlips ==
  /\ down' = ~down
  /\ UNCHANGED <<mode, file_len, resident, content, locked, history>>

Environment ==
  \/ \E p \in Pages : Writeback(p) \/ Reclaim(p)
  \/ \E n \in FileLens : Resize(n)
  \/ StorageFlips

Next ==
  \/ Operation
  \/ \E advice \in Advices : Advise(advice)
  \/ Lock
  \/ Unlock
  \/ Environment

Spec == Init /\ [][Next]_vars

-----------------------------------------------------------------------------
TypeOK ==
  /\ protection \in {"Read", "ReadWrite"} /\ visibility \in {"Private", "Shared"}
  /\ file_len \in FileLens /\ down \in BOOLEAN
  /\ resident \subseteq Backed /\ cow \subseteq Backed
  /\ locked \subseteq Pages /\ pinned \subseteq locked
  /\ inPrivate \subseteq BytesOf(cow)
  /\ inCache \subseteq Bytes /\ onDisk \subseteq BelowEof
  /\ kept \subseteq Bytes /\ flushed \subseteq Bytes

(* Whatever range a caller passes, each of the two alignment formulas      *)
(* hands the kernel exactly the pages of the mapping that the range meets: *)
(* none is missed, none next to the range or beyond the mapping is hit,    *)
(* and mincore fills exactly the vector it was given.                      *)
CallsCoverRange ==
  \A offset, len \in Usize :
    ~Exceeds(offset, len) =>
      /\ AlignedPages(offset, len) = Overlapping(offset, len)
      /\ ResidentPages(offset, len) =
           [p \in Overlapping(offset, len) |-> p \in resident \union cow]

(* An inverted range given to read is refused by the bounds check although *)
(* its length has wrapped: no page of the mapping is touched for it.       *)
InvertedRefused ==
  [][\A start, end \in Usize : start > end => ~Read(start, end)]_vars

(* A probe that would succeed promises that a read of its range does: all  *)
(* but the last page of a range that starts further into its first page    *)
(* than it ends into its last one, which probe does not touch.             *)
ProbeMissesOnlyLast ==
  \A offset, len \in Usize :
    ~Exceeds(offset, len) /\ ProbedPages(offset, len) \subseteq Accessible =>
      \A b \in RangeBytes(offset, len) :
        \/ PageOf(b) \in Accessible
        \/ /\ PageOf(b) = PageOf(offset + len - 1)
           /\ (offset + len - 1) % PageSize < offset % PageSize

(* What write() has stored, and what was in the file, is what read() sees, *)
(* through copies on write, page-outs and flushes, until the file is       *)
(* truncated, a write to it faults or, on a private mapping, the caller    *)
(* evicts a range that meets its page.                                     *)
WritesKept == kept \subseteq Visible

(* What a blocking flush() reported as written is on disk, although the    *)
(* range need not be aligned and the storage may fail in between.          *)
FlushPersists == flushed \subseteq onDisk

(* A page that lock_range() reported as locked does not fault, whatever    *)
(* the storage does, until the file is truncated below it or a range that  *)
(* meets the page is unlocked.                                             *)
PinnedNeverFaults == pinned \subseteq Accessible
==============================================================================
