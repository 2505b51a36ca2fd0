------------------------------ MODULE PageRange ------------------------------
(***************************************************************************)
(* The byte ranges a caller passes to a mapping and the pages the kernel   *)
(* is asked about: bounds checks (mmap/mod.rs, mmap/guard.rs), alignment   *)
(* (sys/mmap.rs) and the stride of probe.  Numbers are usize: sums are     *)
(* modulo UsizeMod unless the code uses checked_add.                       *)
(***************************************************************************)
EXTENDS Integers

CONSTANTS
  PageSize,   \* page_size()
  MapLen,     \* RawMmap.len
  UsizeMod    \* 2^64

(* The mapping lies in the address space with the rest of its last page.   *)
ASSUME PageRangeAssumption ==
  /\ PageSize \in Nat \ {0}
  /\ MapLen \in Nat \ {0}
  /\ UsizeMod \in Nat /\ UsizeMod % PageSize = 0
  /\ MapLen + PageSize <= UsizeMod

Usize == 0..(UsizeMod - 1)
Bytes == 0..(MapLen - 1)
PageOf(b) == b \div PageSize
Pages == 0..PageOf(MapLen - 1)

-----------------------------------------------------------------------------
(* Faulty variants of the definitions below.                               *)

(* offset + len instead of checked_add: the sum wraps.                     *)
ExceedsWrapped(offset, len) == (offset + len) % UsizeMod > MapLen

(* The bytes between the aligned and the given offset are not added.       *)
AlignedLenShort(offset, len) ==
  LET n == (len + PageSize - 1) % UsizeMod IN n - (n % PageSize)

(* Rounded to the next page even where the end is aligned.                 *)
AlignedLenLong(offset, len) ==
  LET n == len + (offset % PageSize) + PageSize IN n - (n % PageSize)

(* The loop runs while pos + page < offset + len.                          *)
ProbedShort(offset, len) ==
  {PageOf(pos) : pos \in {q \in Bytes : q >= offset /\ q + PageSize < offset + len
                                        /\ (q - offset) % PageSize = 0}}

-----------------------------------------------------------------------------
(* check_bounds, and the same test in ReadGuard::read and in every range   *)
(* operation: checked_add fails, or its sum is beyond the mapping.         *)
Exceeds(offset, len) ==
  \/ offset + len >= UsizeMod
  \/ offset + len > MapLen

(* SafeMmap::read: range.end - range.start, which wraps for an inverted    *)
(* range where overflow checks are off and panics where they are on.       *)
RangeLen(start, end) == (end - start) % UsizeMod

(* x & !(page - 1)                                                         *)
AlignDown(x) == x - (x % PageSize)

(* aligned_len of advise_range and of flush.                               *)
AlignedLen(offset, len) ==
  AlignDown((len + (offset - AlignDown(offset)) + PageSize - 1) % UsizeMod)

(* The pages madvise and msync are given: aligned_offset and aligned_len.  *)
AlignedPages(offset, len) ==
  PageOf(offset)..(PageOf(offset) + AlignedLen(offset, len) \div PageSize - 1)

(* The pages mincore is asked about: from aligned_offset to aligned_end.   *)
MincorePages(offset, len) ==
  PageOf(offset)..(PageOf(AlignDown((offset + len + PageSize - 1) % UsizeMod)) - 1)

(* The pages probe reads a byte of: pos = offset, offset + page, ...       *)
ProbedPages(offset, len) ==
  {PageOf(pos) : pos \in {q \in Bytes : q >= offset /\ q < offset + len
                                        /\ (q - offset) % PageSize = 0}}

-----------------------------------------------------------------------------
(* The pages with an address strictly inside the range, or around its      *)
(* start if it is empty.                                                   *)
Overlapping(offset, len) ==
  {p \in Pages : p * PageSize < offset + len /\ (p + 1) * PageSize > offset}
==============================================================================
