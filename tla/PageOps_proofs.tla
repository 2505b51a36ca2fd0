---------------------------- MODULE PageOps_proofs ----------------------------
(***************************************************************************)
(* The properties of PageOps for every page size, mapping length, width of *)
(* usize and set of file lengths.                                          *)
(*                                                                         *)
(* The argument: a byte the program relies on is in the private copy of    *)
(* its page, or below the end of the file and in the page cache (KeptInv   *)
(* with WritesKept); the page cache is what msync saves, of all pages the  *)
(* range meets (AlignedPagesExact); and a pinned page is in memory, from   *)
(* where only an unlocked page is taken (PinInv).                          *)
(***************************************************************************)
EXTENDS PageOps, TLAPS

-----------------------------------------------------------------------------
(* The page arithmetic of PageRange: what the alignment formulas of        *)
(* sys/mmap.rs compute and which pages the stride of probe reaches.        *)

(* The page of a byte.                                                     *)
LEMMA PageOfBounds ==
  ASSUME NEW b \in Nat
  PROVE  /\ PageOf(b) \in Nat
         /\ PageOf(b) * PageSize <= b
         /\ b < PageOf(b) * PageSize + PageSize
         /\ b % PageSize = b - PageOf(b) * PageSize
         /\ b % PageSize \in 0..(PageSize - 1)
<1> USE PageRangeAssumption DEF PageOf
<1>1. PageOf(b) \in Nat OBVIOUS
<1>2. PageOf(b) * PageSize <= b /\ b < PageOf(b) * PageSize + PageSize OBVIOUS
<1>3. b % PageSize = b - PageOf(b) * PageSize OBVIOUS
<1>4. b % PageSize \in 0..(PageSize - 1) OBVIOUS
<1> QED BY <1>1, <1>2, <1>3, <1>4

(* Multiples of the page size are ordered as their factors.                *)
LEMMA PageOrder ==
  ASSUME NEW j \in Nat, NEW k \in Nat
  PROVE  /\ j * PageSize <= k * PageSize <=> j <= k
         /\ j < k => j * PageSize + PageSize <= k * PageSize
         /\ j * PageSize \in Nat
         /\ (j + 1) * PageSize = j * PageSize + PageSize
<1> USE PageRangeAssumption
<1>1. j * PageSize <= k * PageSize <=> j <= k OBVIOUS
<1>2. j < k => j * PageSize + PageSize <= k * PageSize OBVIOUS
<1>3. j * PageSize \in Nat OBVIOUS
<1>4. (j + 1) * PageSize = j * PageSize + PageSize OBVIOUS
<1> QED BY <1>1, <1>2, <1>3, <1>4

(* A page starts at or before a byte exactly if it is not after its page.  *)
LEMMA PageStartsBefore ==
  ASSUME NEW p \in Nat, NEW b \in Nat
  PROVE  p * PageSize <= b <=> p <= PageOf(b)
<1>1. PageOf(b) \in Nat /\ PageOf(b) * PageSize <= b /\ b < PageOf(b) * PageSize + PageSize
  BY PageOfBounds
<1>2. p <= PageOf(b) => p * PageSize <= PageOf(b) * PageSize BY <1>1, PageOrder
<1>3. PageOf(b) < p => PageOf(b) * PageSize + PageSize <= p * PageSize
  BY <1>1, PageOrder
<1>4. PageSize \in Nat /\ p * PageSize \in Nat /\ PageOf(b) * PageSize \in Nat
  BY <1>1, PageOrder, PageRangeAssumption
<1> QED BY <1>1, <1>2, <1>3, <1>4

(* A page is the page of the bytes in it.                                  *)
LEMMA PageOfUnique ==
  ASSUME NEW p \in Nat, NEW b \in Nat, p * PageSize <= b, b < p * PageSize + PageSize
  PROVE  PageOf(b) = p
BY PageRangeAssumption DEF PageOf

(* x & !(page - 1) is the start of the page of x.                          *)
LEMMA AlignDownIsStart ==
  ASSUME NEW x \in Nat
  PROVE  AlignDown(x) = PageOf(x) * PageSize
<1>1. x % PageSize = x - PageOf(x) * PageSize BY PageOfBounds
<1>2. PageOf(x) * PageSize \in Nat BY PageOfBounds, PageOrder
<1> QED BY <1>1, <1>2 DEF AlignDown

(* A range that passes the bounds check lies in the mapping, and so does   *)
(* not overflow, the slack of one page included.                           *)
LEMMA InBounds ==
  ASSUME NEW offset \in Usize, NEW len \in Usize, ~Exceeds(offset, len)
  PROVE  /\ offset \in Nat /\ len \in Nat /\ offset + len <= MapLen
         /\ offset + len + PageSize - 1 < UsizeMod
         /\ offset + len + PageSize - 1 \in Nat
BY PageRangeAssumption DEF Usize, Exceeds

(* A reduction modulo 2^64 that reduces nothing.                           *)
LEMMA NoWrap ==
  ASSUME NEW x \in Nat, x < UsizeMod
  PROVE  x % UsizeMod = x
BY PageRangeAssumption

(* The pages a range meets, by number: from the page of its first byte to  *)
(* the page before the first one that starts at or after its end.          *)
LEMMA OverlappingByNumber ==
  ASSUME NEW offset \in Usize, NEW len \in Usize, ~Exceeds(offset, len)
  PROVE  Overlapping(offset, len) =
           PageOf(offset)..(PageOf(offset + len + PageSize - 1) - 1)
<1> USE PageRangeAssumption
<1> DEFINE e == offset + len + PageSize - 1
<1>1. offset \in Nat /\ len \in Nat /\ offset + len <= MapLen /\ e \in Nat
  BY InBounds
<1>2. PageOf(offset) \in Nat /\ PageOf(e) \in Nat /\ MapLen - 1 \in Nat
  BY <1>1, PageOfBounds
<1>3. ASSUME NEW p \in Nat
      PROVE  (p + 1) * PageSize > offset <=> PageOf(offset) <= p
  <2>1. (p + 1) * PageSize <= offset <=> p + 1 <= PageOf(offset)
    BY <1>1, PageStartsBefore
  <2>2. (p + 1) * PageSize \in Nat BY PageOrder
  <2> QED BY <1>1, <1>2, <2>1, <2>2
<1>4. ASSUME NEW p \in Nat
      PROVE  p * PageSize < offset + len <=> p + 1 <= PageOf(e)
  <2>1. (p + 1) * PageSize <= e <=> p + 1 <= PageOf(e)
    BY <1>1, PageStartsBefore
  <2>2. (p + 1) * PageSize = p * PageSize + PageSize /\ p * PageSize \in Nat
    BY PageOrder
  <2> QED BY <1>1, <2>1, <2>2
<1>5. ASSUME NEW p \in Nat, p * PageSize < offset + len PROVE p \in Pages
  <2>1. p * PageSize <= MapLen - 1
    <3>1. p * PageSize \in Nat BY PageOrder
    <3> QED BY <1>1, <1>5, <3>1
  <2>2. p <= PageOf(MapLen - 1) BY <1>2, <2>1, PageStartsBefore
  <2> QED BY <1>2, <2>2, PageOfBounds DEF Pages
<1>6. Overlapping(offset, len) \subseteq PageOf(offset)..(PageOf(e) - 1)
  <2> SUFFICES ASSUME NEW p \in Overlapping(offset, len)
               PROVE  p \in PageOf(offset)..(PageOf(e) - 1)
    OBVIOUS
  <2>1. /\ p \in Pages /\ p * PageSize < offset + len
        /\ (p + 1) * PageSize > offset
    BY DEF Overlapping
  <2>2. p \in Nat BY <2>1 DEF Pages
  <2> QED BY <1>2, <1>3, <1>4, <2>1, <2>2
<1>7. PageOf(offset)..(PageOf(e) - 1) \subseteq Overlapping(offset, len)
  <2> SUFFICES ASSUME NEW p \in PageOf(offset)..(PageOf(e) - 1)
               PROVE  p \in Overlapping(offset, len)
    OBVIOUS
  <2>1. p \in Nat /\ PageOf(offset) <= p /\ p + 1 <= PageOf(e) BY <1>2
  <2> QED BY <1>3, <1>4, <1>5, <2>1 DEF Overlapping
<1> QED BY <1>6, <1>7

(* madvise and msync are given exactly the pages the range meets.          *)
THEOREM AlignedPagesExact ==
  ASSUME NEW offset \in Usize, NEW len \in Usize, ~Exceeds(offset, len)
  PROVE  AlignedPages(offset, len) = Overlapping(offset, len)
<1> USE PageRangeAssumption
<1> DEFINE q == PageOf(offset)
           e == offset + len + PageSize - 1
           n == len + (offset - AlignDown(offset)) + PageSize - 1
<1>1. offset \in Nat /\ len \in Nat /\ e \in Nat /\ e < UsizeMod BY InBounds
<1>2. q \in Nat /\ q * PageSize \in Nat /\ q * PageSize <= offset
  BY <1>1, PageOfBounds, PageOrder
<1>3. AlignDown(offset) = q * PageSize BY <1>1, AlignDownIsStart
<1>4. n \in Nat /\ n < UsizeMod /\ n = e - q * PageSize BY <1>1, <1>2, <1>3
<1> HIDE DEF q, e, n
<1>5. AlignedLen(offset, len) = PageOf(n) * PageSize
  BY <1>4, NoWrap, AlignDownIsStart DEF AlignedLen, n
<1>6. PageOf(n) \in Nat /\ PageOf(n) * PageSize <= n /\ n < PageOf(n) * PageSize + PageSize
  BY <1>4, PageOfBounds
<1>7. AlignedLen(offset, len) \div PageSize = PageOf(n)
  <2>1. PageOf(PageOf(n) * PageSize) = PageOf(n)
    BY <1>6, PageOfUnique, PageOrder
  <2> QED BY <1>5, <2>1 DEF PageOf
<1>8. PageOf(e) = q + PageOf(n)
  <2>1. (q + PageOf(n)) * PageSize = q * PageSize + PageOf(n) * PageSize
    BY <1>2, <1>6
  <2>2. PageOf(n) * PageSize \in Nat BY <1>6, PageOrder
  <2>3. /\ (q + PageOf(n)) * PageSize <= e
        /\ e < (q + PageOf(n)) * PageSize + PageSize
    BY <1>1, <1>2, <1>4, <1>6, <2>1, <2>2
  <2> QED BY <1>1, <1>2, <1>6, <2>3, PageOfUnique
<1>9. AlignedPages(offset, len) = q..(PageOf(e) - 1)
  BY <1>2, <1>6, <1>7, <1>8 DEF AlignedPages, q
<1> QED BY <1>9, OverlappingByNumber DEF q, e

(* mincore answers for exactly the pages the range meets.                  *)
THEOREM MincorePagesExact ==
  ASSUME NEW offset \in Usize, NEW len \in Usize, ~Exceeds(offset, len)
  PROVE  MincorePages(offset, len) = Overlapping(offset, len)
<1> DEFINE e == offset + len + PageSize - 1
<1>1. e \in Nat /\ e < UsizeMod BY InBounds
<1>2. PageOf(e) \in Nat BY <1>1, PageOfBounds
<1>3. AlignDown(e % UsizeMod) = PageOf(e) * PageSize
  BY <1>1, NoWrap, AlignDownIsStart
<1>4. PageOf(PageOf(e) * PageSize) = PageOf(e)
  BY <1>2, PageOfUnique, PageOrder, PageRangeAssumption
<1> QED BY <1>3, <1>4, OverlappingByNumber DEF MincorePages

(* The length of an inverted range wraps, but with its start it exceeds    *)
(* every mapping.                                                          *)
THEOREM InvertedExceeds ==
  ASSUME NEW start \in Usize, NEW end \in Usize, start > end
  PROVE  Exceeds(start, RangeLen(start, end))
<1> USE PageRangeAssumption DEF Usize
<1>1. (end - start) % UsizeMod = end - start + UsizeMod OBVIOUS
<1> QED BY <1>1 DEF Exceeds, RangeLen

(* Bytes a whole number of pages apart are at the same place in theirs.    *)
LEMMA SamePlace ==
  ASSUME NEW b \in Nat, NEW j \in Nat
  PROVE  /\ PageOf(b + j * PageSize) = PageOf(b) + j
         /\ (b + j * PageSize) % PageSize = b % PageSize
<1> DEFINE c == b + j * PageSize
<1>1. PageOf(b) \in Nat /\ PageOf(b) * PageSize <= b /\ b < PageOf(b) * PageSize + PageSize
  BY PageOfBounds
<1>2. j * PageSize \in Nat /\ PageOf(b) * PageSize \in Nat /\ PageSize \in Nat
  BY <1>1, PageOrder, PageRangeAssumption
<1>3. (PageOf(b) + j) * PageSize = PageOf(b) * PageSize + j * PageSize
  BY <1>1, PageRangeAssumption
<1>4. PageOf(c) = PageOf(b) + j BY <1>1, <1>2, <1>3, PageOfUnique
<1>5. /\ c \in Nat /\ c % PageSize = c - PageOf(c) * PageSize
      /\ b % PageSize = b - PageOf(b) * PageSize
  <2>1. c \in Nat BY <1>2
  <2> HIDE DEF c
  <2> QED BY <2>1, PageOfBounds
<1>6. c % PageSize = b % PageSize BY <1>2, <1>3, <1>4, <1>5
<1> QED BY <1>4, <1>6

(* The byte probe reads on or before b, in steps of a page from offset.    *)
LEMMA StepBefore ==
  ASSUME NEW offset \in Nat, NEW b \in Nat, offset <= b
  PROVE  \E j \in Nat : /\ offset + j * PageSize <= b
                        /\ b < offset + j * PageSize + PageSize
<1> DEFINE j == PageOf(b - offset)
<1>1. b - offset \in Nat OBVIOUS
<1>2. /\ j \in Nat /\ j * PageSize <= b - offset
      /\ b - offset < j * PageSize + PageSize
  BY <1>1, PageOfBounds
<1>3. j * PageSize \in Nat /\ PageSize \in Nat BY <1>2, PageOrder, PageRangeAssumption
<1> HIDE DEF j
<1>4. offset + j * PageSize <= b /\ b < offset + j * PageSize + PageSize
  BY <1>2, <1>3
<1> QED BY <1>2, <1>4

(* A page probe passes in its range is a page it reads a byte of.          *)
LEMMA StepProbed ==
  ASSUME NEW offset \in Usize, NEW len \in Usize, ~Exceeds(offset, len),
         NEW j \in Nat, offset + j * PageSize < offset + len
  PROVE  PageOf(offset + j * PageSize) \in ProbedPages(offset, len)
<1> USE PageRangeAssumption
<1> DEFINE q == offset + j * PageSize
<1>1. offset \in Nat /\ len \in Nat /\ offset + len <= MapLen BY InBounds
<1>2. j * PageSize \in Nat BY PageOrder
<1>3. q \in Bytes /\ q >= offset /\ q - offset = j * PageSize
  BY <1>1, <1>2 DEF Bytes
<1>4. (j * PageSize) % PageSize = 0
  <2>1. (0 + j * PageSize) % PageSize = 0 % PageSize
    <3>1. 0 \in Nat OBVIOUS
    <3> QED BY <3>1, SamePlace
  <2>2. 0 % PageSize = 0 OBVIOUS
  <2> QED BY <1>2, <2>1, <2>2
<1>5. (q - offset) % PageSize = 0 BY <1>3, <1>4
<1>6. q < offset + len OBVIOUS
<1> HIDE DEF q
<1>7. PageOf(q) \in ProbedPages(offset, len) BY <1>3, <1>5, <1>6 DEF ProbedPages
<1> QED BY <1>7 DEF q

(* Every byte of the range is on a page that probe reads a byte of, except *)
(* those on the last page of a range that starts further into its first    *)
(* page than it ends into its last.                                        *)
THEOREM ProbeReaches ==
  ASSUME NEW offset \in Usize, NEW len \in Usize, ~Exceeds(offset, len),
         NEW b \in offset..(offset + len - 1)
  PROVE  \/ PageOf(b) \in ProbedPages(offset, len)
         \/ /\ PageOf(b) = PageOf(offset + len - 1)
            /\ (offset + len - 1) % PageSize < offset % PageSize
<1> USE PageRangeAssumption
<1>1. /\ offset \in Nat /\ len \in Nat /\ offset + len <= MapLen
      /\ b \in Nat /\ offset <= b /\ b <= offset + len - 1
  BY InBounds
<1>2. PICK j \in Nat : /\ offset + j * PageSize <= b
                       /\ b < offset + j * PageSize + PageSize
  BY <1>1, StepBefore
<1> DEFINE q == offset + j * PageSize
           e == offset + len - 1
           k == PageOf(q)
<1>3. /\ j * PageSize \in Nat /\ (j + 1) * PageSize = j * PageSize + PageSize
      /\ j + 1 \in Nat /\ q \in Nat /\ e \in Nat
  BY <1>1, PageOrder
<1>4. k \in Nat /\ k * PageSize <= q /\ q < k * PageSize + PageSize
  BY <1>3, PageOfBounds
<1>5. /\ k * PageSize \in Nat /\ (k + 1) * PageSize = k * PageSize + PageSize
      /\ k + 1 \in Nat
  BY <1>4, PageOrder
<1>6. k \in ProbedPages(offset, len)
  BY <1>1, <1>2, <1>3, StepProbed
<1> HIDE DEF k
<1>7. CASE b < k * PageSize + PageSize
  <2>1. PageOf(b) = k BY <1>1, <1>2, <1>4, <1>5, <1>7, PageOfUnique
  <2> QED BY <1>6, <2>1
<1>8. CASE b >= k * PageSize + PageSize
  <2>1. PageOf(b) = k + 1
    BY <1>1, <1>2, <1>3, <1>4, <1>5, <1>8, PageOfUnique
  <2>2. CASE q + PageSize < offset + len
    <3>1. PageOf(offset + (j + 1) * PageSize) \in ProbedPages(offset, len)
      <4>1. offset + (j + 1) * PageSize < offset + len BY <1>1, <1>3, <2>2
      <4> QED BY <1>3, <4>1, StepProbed
    <3>2. PageOf(q + 1 * PageSize) = PageOf(q) + 1 BY <1>3, SamePlace
    <3>3. q + 1 * PageSize = offset + (j + 1) * PageSize BY <1>1, <1>3
    <3> QED BY <2>1, <3>1, <3>2, <3>3 DEF k
  <2>3. CASE q + PageSize >= offset + len
    <3>1. (k + 1) * PageSize <= e /\ e < (k + 1) * PageSize + PageSize
      BY <1>1, <1>3, <1>4, <1>5, <1>8, <2>3
    <3>2. PageOf(e) = k + 1 BY <1>3, <1>5, <3>1, PageOfUnique
    <3>3. e % PageSize = e - (k + 1) * PageSize BY <1>3, <3>2, PageOfBounds
    <3>4. q % PageSize = q - k * PageSize BY <1>3, PageOfBounds DEF k
    <3>5. q % PageSize = offset % PageSize BY <1>1, SamePlace
    <3>6. e % PageSize < q % PageSize
      <4>1. e < q + PageSize BY <1>1, <1>3, <2>3
      <4> HIDE DEF e, q
      <4> QED BY <1>3, <1>5, <3>3, <3>4, <4>1
    <3> QED BY <2>1, <3>2, <3>5, <3>6
  <2> QED BY <1>1, <1>3, <2>2, <2>3
<1> QED BY <1>1, <1>5, <1>7, <1>8

-----------------------------------------------------------------------------
(* A byte that is relied on is backed by the file or by a private copy.    *)
KeptInv == \A b \in kept : b < file_len \/ PageOf(b) \in cow

(* Only private mappings copy pages.                                       *)
SharedInv == Shared => cow = {}

(* A pinned page is in memory.                                             *)
PinInv == pinned \subseteq resident \union cow

IInv ==
  /\ TypeOK
  /\ KeptInv
  /\ SharedInv
  /\ PinInv
  /\ WritesKept
  /\ FlushPersists

-----------------------------------------------------------------------------
(* The bytes of a range in bounds are bytes of the mapping, on the pages   *)
(* that the kernel calls are given.                                        *)
LEMMA RangeOnItsPages ==
  ASSUME NEW offset \in Usize, NEW len \in Usize, ~Exceeds(offset, len)
  PROVE  /\ RangeBytes(offset, len) \subseteq Bytes
         /\ RangeBytes(offset, len) \subseteq BytesOf(Overlapping(offset, len))
<1> USE PageRangeAssumption
<1>1. offset \in Nat /\ len \in Nat /\ offset + len <= MapLen
  BY InBounds
<1>2. ASSUME NEW b \in RangeBytes(offset, len)
      PROVE  b \in Bytes /\ PageOf(b) \in Overlapping(offset, len)
  <2>1. b \in Nat /\ offset <= b /\ b < offset + len /\ b \in Bytes
    BY <1>1 DEF RangeBytes, Bytes
  <2>2. /\ PageOf(b) \in Nat /\ PageOf(b) * PageSize <= b
        /\ b < PageOf(b) * PageSize + PageSize
    BY <2>1, PageOfBounds
  <2>3. /\ PageOf(b) * PageSize \in Nat
        /\ (PageOf(b) + 1) * PageSize = PageOf(b) * PageSize + PageSize
    BY <2>2, PageOrder
  <2>4. PageOf(b) \in Pages
    <3>1. MapLen - 1 \in Nat /\ PageOf(b) * PageSize <= MapLen - 1
      BY <1>1, <2>1, <2>2, <2>3
    <3>2. PageOf(b) <= PageOf(MapLen - 1) BY <2>2, <3>1, PageStartsBefore
    <3> QED BY <2>2, <3>1, <3>2, PageOfBounds DEF Pages
  <2>5. PageOf(b) * PageSize < offset + len /\ (PageOf(b) + 1) * PageSize > offset
    BY <1>1, <2>1, <2>2, <2>3
  <2> QED BY <2>1, <2>4, <2>5 DEF Overlapping
<1> QED BY <1>2 DEF BytesOf

(* What is accessible is in the file or copied.                            *)
LEMMA AccessibleBacked ==
  ASSUME TypeOK
  PROVE  Accessible \subseteq Backed
BY DEF TypeOK, Accessible

(* A page with a byte below the end of the file is backed.                 *)
LEMMA BackedPage ==
  ASSUME TypeOK, NEW b \in Bytes, NEW n \in Nat, b < n
  PROVE  PageOf(b) * PageSize < n
<1>1. b \in Nat BY PageRangeAssumption DEF Bytes
<1>2. PageOf(b) \in Nat /\ PageOf(b) * PageSize <= b BY <1>1, PageOfBounds
<1>3. PageOf(b) * PageSize \in Nat BY <1>2, PageOrder
<1> QED BY <1>1, <1>2, <1>3

(* A new mapping shows the file.                                           *)
LEMMA InitIInv == Init => IInv
<1> SUFFICES ASSUME Init PROVE IInv
  OBVIOUS
<1> USE DEF Init
<1>1. protection \in {"Read", "ReadWrite"} /\ visibility \in {"Private", "Shared"}
  BY DEF ProtectionOf, VisibilityOf
<1>2. TypeOK BY <1>1 DEF TypeOK, BelowEof, BytesOf
<1>3. KeptInv BY DEF KeptInv, BelowEof
<1>4. SharedInv /\ PinInv BY DEF SharedInv, PinInv
<1>5. WritesKept BY DEF WritesKept, Visible, BelowEof
<1>6. FlushPersists BY DEF FlushPersists
<1> QED BY <1>2, <1>3, <1>4, <1>5, <1>6 DEF IInv

(* Accesses and MADV_WILLNEED only bring pages in.                         *)
LEMMA PagesComeIn ==
  ASSUME IInv, resident \subseteq resident', resident' \subseteq Backed,
         UNCHANGED <<mode, storage, content, locked, history>>
  PROVE  IInv'
<1> USE DEF IInv, mode, storage, content, history
<1>1. Backed' = Backed /\ BelowEof' = BelowEof BY DEF Backed, BelowEof
<1>2. TypeOK' BY <1>1 DEF TypeOK, BytesOf
<1>3. KeptInv' /\ SharedInv' BY DEF KeptInv, SharedInv, Shared
<1>4. PinInv' BY DEF PinInv
<1>5. WritesKept' BY DEF WritesKept, Visible
<1>6. FlushPersists' BY DEF FlushPersists
<1> QED BY <1>2, <1>3, <1>4, <1>5, <1>6

(* A touch brings in pages of the file.                                    *)
LEMMA TouchBringsIn ==
  ASSUME TypeOK, NEW pages, Touch(pages)
  PROVE  /\ resident \subseteq resident' /\ resident' \subseteq Backed
         /\ pages \subseteq Accessible => pages \intersect Backed \subseteq resident'
BY DEF TypeOK, Touch

(* read, read_into, probe and WillNeed advice only bring pages in.         *)
LEMMA ReadStep ==
  ASSUME IInv, NEW offset \in Usize, NEW len \in Usize,
         \/ Read(offset, len) \/ ReadInto(offset, len) \/ Probe(offset, len)
         \/ \E pages \in SUBSET Pages : WillNeed(pages) /\ UNCHANGED <<mode, storage, locked>>
  PROVE  IInv'
<1>1. TypeOK BY DEF IInv
<1>2. CASE Read(offset, len) BY <1>1, <1>2, TouchBringsIn, PagesComeIn DEF Read, GuardRead
<1>3. CASE ReadInto(offset, len) BY <1>1, <1>3, TouchBringsIn, PagesComeIn DEF ReadInto
<1>4. CASE Probe(offset, len)
  <2>1. resident \subseteq resident' /\ resident' \subseteq Backed
    BY <1>1, <1>4 DEF Probe, TypeOK
  <2> QED BY <1>4, <2>1, PagesComeIn DEF Probe
<1>5. ASSUME NEW pages \in SUBSET Pages, WillNeed(pages),
             UNCHANGED <<mode, storage, locked>>
      PROVE  IInv'
  <2>1. resident \subseteq resident' /\ resident' \subseteq Backed
    BY <1>1, <1>5 DEF WillNeed, TypeOK
  <2> QED BY <1>5, <2>1, PagesComeIn DEF WillNeed
<1> QED BY <1>2, <1>3, <1>4, <1>5

(* Stores put the bytes written where reads see them.                      *)
LEMMA StoreStep ==
  ASSUME IInv, NEW w \in SUBSET Bytes, \A b \in w : PageOf(b) \in Accessible,
         Store(w), UNCHANGED <<mode, storage, locked, pinned>>,
         \A b \in kept' : \/ b \in kept \ w
                          \/ b \in w /\ (Shared => b < file_len)
  PROVE  IInv'
<1> USE DEF IInv, mode, storage
<1>1. Backed' = Backed /\ BelowEof' = BelowEof /\ (Shared' <=> Shared)
  BY DEF Backed, BelowEof, Shared
<1>2. Accessible \subseteq Backed BY AccessibleBacked
<1>3. /\ resident \subseteq resident' /\ resident' \subseteq Backed
      /\ cow \subseteq cow' /\ cow' \subseteq Backed
  BY <1>2 DEF TypeOK, Store
<1>4. CASE Shared
  <2>1. cow = {} /\ cow' = {} BY <1>4 DEF SharedInv, Store
  <2>2. inPrivate' = {} /\ inCache' = inCache \union w BY <1>4 DEF Store
  <2>3. TypeOK'
    <3>1. onDisk' \subseteq BelowEof /\ flushed' \subseteq Bytes BY DEF Store, TypeOK
    <3>2. kept' \subseteq Bytes BY DEF TypeOK
    <3> QED BY <1>1, <1>3, <2>2, <3>1, <3>2 DEF TypeOK
  <2>4. KeptInv' BY <1>4, <2>1 DEF KeptInv
  <2>5. SharedInv' BY <2>1 DEF SharedInv
  <2>6. WritesKept'
    <3> SUFFICES ASSUME NEW b \in kept' PROVE b \in Visible'
      BY DEF WritesKept
    <3>1. b \in Bytes BY <2>3 DEF TypeOK
    <3>2. b \in inCache' BY <2>1, <2>2 DEF WritesKept, Visible
    <3> QED BY <2>1, <3>1, <3>2 DEF Visible
  <2>7. PinInv' BY <1>3 DEF PinInv
  <2>8. FlushPersists' BY DEF FlushPersists, Store
  <2> QED BY <2>3, <2>4, <2>5, <2>6, <2>7, <2>8
<1>5. CASE ~Shared
  <2> DEFINE copied == {PageOf(b) : b \in w}
  <2>1. /\ cow' = cow \union copied
        /\ inPrivate' = inPrivate \union w \union (inCache \intersect BytesOf(copied \ cow))
        /\ inCache' = inCache \ w
    BY <1>5 DEF Store
  <2>2. \A b \in w : PageOf(b) \in copied OBVIOUS
  <2> HIDE DEF copied
  <2>3. TypeOK'
    <3>1. onDisk' \subseteq BelowEof /\ flushed' \subseteq Bytes BY DEF Store, TypeOK
    <3>2. kept' \subseteq Bytes BY DEF TypeOK
    <3>3. inPrivate' \subseteq BytesOf(cow') BY <2>1, <2>2 DEF TypeOK, BytesOf
    <3>4. inCache' \subseteq Bytes BY <2>1 DEF TypeOK
    <3>5. (inPrivate \subseteq BytesOf(cow))' BY <3>3 DEF BytesOf
    <3> QED BY <1>1, <1>3, <3>1, <3>2, <3>4, <3>5 DEF TypeOK
  <2>4. KeptInv' BY <2>1, <2>2 DEF KeptInv
  <2>5. SharedInv' BY <1>1, <1>5 DEF SharedInv
  <2>6. WritesKept'
    <3> SUFFICES ASSUME NEW b \in kept' PROVE b \in Visible'
      BY DEF WritesKept
    <3>1. b \in Bytes BY <2>3 DEF TypeOK
    <3>2. CASE b \in w BY <2>1, <2>2, <3>1, <3>2 DEF Visible
    <3>3. CASE b \notin w
      <4>1. b \in kept BY <3>3
      <4>2. CASE PageOf(b) \in cow
        BY <2>1, <3>1, <4>1, <4>2 DEF WritesKept, Visible
      <4>3. CASE PageOf(b) \in copied \ cow
        <5>1. b \in inCache BY <4>1, <4>3 DEF WritesKept, Visible
        <5>2. b \in inPrivate' BY <2>1, <3>1, <4>3, <5>1 DEF BytesOf
        <5> QED BY <2>1, <3>1, <4>3, <5>2 DEF Visible
      <4>4. CASE PageOf(b) \notin cow \union copied
        <5>1. b \in inCache BY <4>1, <4>4 DEF WritesKept, Visible
        <5> QED BY <2>1, <3>1, <3>3, <4>4, <5>1 DEF Visible
      <4> QED BY <4>2, <4>3, <4>4
    <3> QED BY <3>2, <3>3
  <2>7. PinInv' BY <1>3 DEF PinInv
  <2>8. FlushPersists' BY DEF FlushPersists, Store
  <2> QED BY <2>3, <2>4, <2>5, <2>6, <2>7, <2>8
<1> QED BY <1>4, <1>5

(* write puts the bytes into the cache or into private copies.             *)
LEMMA WriteStep ==
  ASSUME IInv, NEW offset \in Usize, NEW len \in Usize, Write(offset, len)
  PROVE  IInv'
<1> DEFINE w == RangeBytes(offset, len)
<1>1. w \subseteq Bytes BY RangeOnItsPages DEF Write
<1>2. UNCHANGED <<mode, storage, locked, pinned>> BY DEF Write
<1>3. Shared => \A b \in kept : b < file_len BY DEF IInv, KeptInv, SharedInv
<1>4. CASE /\ PagesUnder(offset, len) \subseteq Accessible
           /\ Store(w)
           /\ kept' = IF Shared THEN kept \union (w \intersect BelowEof) ELSE kept \union w
  <2>1. \A b \in w : PageOf(b) \in Accessible BY <1>4 DEF PagesUnder
  <2>2. \A b \in kept' : b \in kept \ w \/ (b \in w /\ (Shared => b < file_len))
    BY <1>3, <1>4 DEF BelowEof
  <2> QED BY <1>1, <1>2, <1>4, <2>1, <2>2, StoreStep
<1>5. ASSUME NEW part \in SUBSET (w \intersect BytesOf(Accessible)), Store(part),
             kept' = kept \ w
      PROVE  IInv'
  <2>1. part \in SUBSET Bytes BY <1>1
  <2>2. \A b \in part : PageOf(b) \in Accessible BY DEF BytesOf
  <2>3. \A b \in kept' : b \in kept \ part BY <1>5
  <2> QED BY <1>2, <1>5, <2>1, <2>2, <2>3, StoreStep
<1> QED BY <1>4, <1>5 DEF Write

(* MADV_DONTNEED throws away private copies of pages the range meets, and  *)
(* of no locked page.                                                      *)
LEMMA DontNeedStep ==
  ASSUME IInv, NEW offset \in Usize, NEW len \in Usize, ~Exceeds(offset, len),
         DontNeed(AlignedPages(offset, len), Overlapping(offset, len)),
         UNCHANGED <<mode, storage, locked>>
  PROVE  IInv'
<1> USE DEF IInv, mode, storage
<1> DEFINE pages == Overlapping(offset, len)
           gone == {p \in pages : \A q \in pages \intersect locked : p < q}
<1>1. AlignedPages(offset, len) = pages BY AlignedPagesExact
<1>2. /\ cow' = cow \ gone
      /\ inPrivate' = inPrivate \ BytesOf(gone)
      /\ kept' = IF Shared THEN kept ELSE kept \ BytesOf(pages)
      /\ UNCHANGED <<resident, inCache, onDisk, flushed, pinned>>
  BY <1>1 DEF DontNeed
<1>3. gone \subseteq pages OBVIOUS
<1>4. gone \intersect locked = {}
  <2> SUFFICES ASSUME NEW p \in gone \intersect locked PROVE FALSE
    OBVIOUS
  <2>1. p < p OBVIOUS
  <2> HIDE DEF gone
  <2>2. p \in Pages BY DEF TypeOK
  <2>3. p \in Nat BY <2>2 DEF Pages
  <2> QED BY <2>1, <2>3
<1> HIDE DEF gone, pages
<1>5. Backed' = Backed /\ BelowEof' = BelowEof /\ (Shared' <=> Shared)
  BY DEF Backed, BelowEof, Shared
<1>6. TypeOK'
  <2>1. (inPrivate \subseteq BytesOf(cow))' BY <1>2 DEF TypeOK, BytesOf
  <2> QED BY <1>2, <1>5, <2>1 DEF TypeOK
<1>7. \A b \in kept' : PageOf(b) \in cow => PageOf(b) \in cow'
  <2> SUFFICES ASSUME NEW b \in kept', PageOf(b) \in cow PROVE PageOf(b) \in cow'
    OBVIOUS
  <2>1. ~Shared BY DEF SharedInv
  <2>2. b \in Bytes /\ b \notin BytesOf(pages) BY <1>2, <2>1 DEF TypeOK
  <2> QED BY <1>2, <1>3, <2>2 DEF BytesOf
<1>8. kept' \subseteq kept BY <1>2
<1>9. KeptInv' BY <1>7, <1>8 DEF KeptInv
<1>10. SharedInv' BY <1>2, <1>5 DEF SharedInv
<1>11. PinInv' BY <1>2, <1>4 DEF PinInv, TypeOK
<1>12. WritesKept'
  <2> SUFFICES ASSUME NEW b \in kept' PROVE b \in Visible'
    BY DEF WritesKept
  <2>1. b \in Visible /\ b \in Bytes BY <1>8 DEF WritesKept, TypeOK
  <2>2. CASE PageOf(b) \in cow
    <3>1. PageOf(b) \in cow' BY <1>7, <2>2
    <3>2. b \in inPrivate' BY <1>2, <2>1, <2>2, <3>1 DEF Visible, BytesOf
    <3> QED BY <2>1, <3>1, <3>2 DEF Visible
  <2>3. CASE PageOf(b) \notin cow BY <1>2, <2>1, <2>3 DEF Visible
  <2> QED BY <2>2, <2>3
<1>13. FlushPersists' BY <1>2 DEF FlushPersists
<1> QED BY <1>6, <1>9, <1>10, <1>11, <1>12, <1>13

(* advise_range may drop pages, and with them private copies.              *)
LEMMA AdviseRangeStep ==
  ASSUME IInv, NEW advice \in Advices, NEW offset \in Usize, NEW len \in Usize,
         AdviseRange(advice, offset, len)
  PROVE  IInv'
<1>1. CASE DontNeed(AlignedPages(offset, len), Overlapping(offset, len))
  BY <1>1, DontNeedStep DEF AdviseRange
<1>2. CASE WillNeed(AlignedPages(offset, len))
  <2>1. AlignedPages(offset, len) \in SUBSET Pages
    BY AlignedPagesExact DEF AdviseRange, Overlapping
  <2> QED BY <1>2, <2>1, ReadStep DEF AdviseRange
<1>3. CASE UNCHANGED <<resident, content, history>>
  BY <1>3, PagesComeIn DEF AdviseRange, IInv, TypeOK
<1> QED BY <1>1, <1>2, <1>3 DEF AdviseRange

(* A blocking flush that succeeds has saved every byte of its range that   *)
(* is relied on, because those are in the page cache and in the file.      *)
LEMMA FlushStep ==
  ASSUME IInv, NEW offset \in Usize, NEW len \in Usize, NEW async_flush \in BOOLEAN,
         Flush(offset, len, async_flush)
  PROVE  IInv'
<1> USE DEF IInv, mode, storage
<1> DEFINE range == RangeBytes(offset, len)
           pages == AlignedPages(offset, len)
<1>1. UNCHANGED <<mode, storage, resident, cow, inPrivate, inCache, locked, kept, pinned>>
  BY DEF Flush
<1>2. Backed' = Backed /\ BelowEof' = BelowEof /\ (Shared' <=> Shared) /\ Visible' = Visible
  BY <1>1 DEF Backed, BelowEof, Shared, Visible
<1>3. /\ onDisk' \subseteq BelowEof /\ flushed' \subseteq Bytes
      /\ flushed' \subseteq onDisk'
  <2>1. CASE UNCHANGED <<onDisk, flushed>> BY <2>1 DEF TypeOK, FlushPersists
  <2>2. ASSUME Shared, NEW done \in SUBSET pages, Msync(range, pages, done)
        PROVE  /\ onDisk' \subseteq BelowEof /\ flushed' \subseteq Bytes
               /\ flushed' \subseteq onDisk'
    <3>1. range \subseteq BytesOf(pages)
      BY RangeOnItsPages, AlignedPagesExact DEF Flush
    <3> HIDE DEF range, pages
    <3>2. onDisk' = onDisk \union (inCache \intersect BytesOf(done) \intersect BelowEof)
      BY <2>2 DEF Msync
    <3>3. kept \subseteq inCache \intersect BelowEof
      BY <2>2 DEF KeptInv, SharedInv, WritesKept, Visible, TypeOK, BelowEof
    <3>4. CASE done = pages
      <4>1. flushed' = flushed \union (range \intersect kept) BY <2>2, <3>4 DEF Msync
      <4> QED BY <3>1, <3>2, <3>3, <3>4, <4>1 DEF TypeOK, FlushPersists
    <3>5. CASE done # pages
      <4>1. flushed' = flushed BY <2>2, <3>5 DEF Msync
      <4> QED BY <3>2, <4>1 DEF TypeOK, FlushPersists
    <3> QED BY <3>4, <3>5
  <2> QED BY <2>1, <2>2 DEF Flush
<1>4. TypeOK' BY <1>1, <1>2, <1>3 DEF TypeOK, BytesOf
<1>5. KeptInv' /\ SharedInv' BY <1>1, <1>2 DEF KeptInv, SharedInv
<1>6. PinInv' BY <1>1 DEF PinInv
<1>7. WritesKept' BY <1>1, <1>2 DEF WritesKept
<1>8. FlushPersists' BY <1>3 DEF FlushPersists
<1> QED BY <1>4, <1>5, <1>6, <1>7, <1>8

(* mlock marks the pages and reads them in before it reports success.      *)
LEMMA LockRangeStep ==
  ASSUME IInv, NEW offset \in Usize, NEW len \in Usize, LockRange(offset, len)
  PROVE  IInv'
<1> USE DEF IInv, mode, storage, content
<1> DEFINE pages == Overlapping(offset, len)
<1>1. /\ locked' = locked \union pages /\ Touch(pages)
      /\ pinned' = IF pages \subseteq Accessible THEN pinned \union pages ELSE pinned
      /\ UNCHANGED <<mode, storage, content, kept, flushed>>
  BY DEF LockRange, LockedPages
<1>2. /\ resident \subseteq resident' /\ resident' \subseteq Backed
      /\ pages \subseteq Accessible => pages \intersect Backed \subseteq resident'
  BY <1>1, TouchBringsIn
<1>3. pages \subseteq Pages /\ Accessible \subseteq Backed
  BY AccessibleBacked DEF Overlapping
<1> HIDE DEF pages
<1>4. Backed' = Backed /\ BelowEof' = BelowEof BY <1>1 DEF Backed, BelowEof
<1>5. TypeOK' BY <1>1, <1>2, <1>3, <1>4 DEF TypeOK, BytesOf
<1>6. KeptInv' /\ SharedInv' BY <1>1 DEF KeptInv, SharedInv, Shared
<1>7. PinInv' BY <1>1, <1>2, <1>3 DEF PinInv
<1>8. WritesKept' BY <1>1 DEF WritesKept, Visible
<1>9. FlushPersists' BY <1>1 DEF FlushPersists
<1> QED BY <1>5, <1>6, <1>7, <1>8, <1>9

(* unlock_range ends the promise for the pages it rounds out to.           *)
LEMMA UnlockRangeStep ==
  ASSUME IInv, NEW offset \in Usize, NEW len \in Usize, UnlockRange(offset, len)
  PROVE  IInv'
<1> USE DEF IInv, UnlockRange, LockedPages, mode, storage, content
<1>1. Backed' = Backed /\ BelowEof' = BelowEof BY DEF Backed, BelowEof
<1>2. TypeOK' BY <1>1 DEF TypeOK, BytesOf
<1>3. KeptInv' /\ SharedInv' BY DEF KeptInv, SharedInv, Shared
<1>4. PinInv' BY DEF PinInv
<1>5. WritesKept' BY DEF WritesKept, Visible
<1>6. FlushPersists' BY DEF FlushPersists
<1> QED BY <1>2, <1>3, <1>4, <1>5, <1>6

(* What leaves the page cache lies beyond the end of the file, where only  *)
(* private copies are relied on; a locked page stays.                      *)
LEMMA KernelStep ==
  ASSUME IInv, NEW p \in Pages, Writeback(p) \/ Reclaim(p)
  PROVE  IInv'
<1> USE DEF IInv, mode, storage, content, history
<1>1. /\ resident' \subseteq resident
      /\ inCache' = inCache \ (BytesOf({p}) \ BelowEof)
      /\ onDisk \subseteq onDisk' /\ onDisk' \subseteq BelowEof
      /\ UNCHANGED <<mode, storage, cow, inPrivate, locked, history>>
  BY DEF Writeback, Reclaim, TypeOK
<1>2. Backed' = Backed /\ BelowEof' = BelowEof /\ (Shared' <=> Shared)
  BY <1>1 DEF Backed, BelowEof, Shared
<1>3. TypeOK'
  <2>1. (inPrivate \subseteq BytesOf(cow))' BY <1>1 DEF TypeOK, BytesOf
  <2> QED BY <1>1, <1>2, <2>1 DEF TypeOK
<1>4. KeptInv' /\ SharedInv' BY <1>1, <1>2 DEF KeptInv, SharedInv
<1>5. PinInv'
  <2>1. CASE Writeback(p) BY <2>1 DEF Writeback, PinInv
  <2>2. CASE Reclaim(p) BY <2>2 DEF Reclaim, PinInv, TypeOK
  <2> QED BY <2>1, <2>2
<1>6. WritesKept'
  <2> SUFFICES ASSUME NEW b \in kept' PROVE b \in Visible'
    BY DEF WritesKept
  <2>1. b \in Visible /\ b \in Bytes /\ (b < file_len \/ PageOf(b) \in cow)
    BY <1>1 DEF WritesKept, TypeOK, KeptInv
  <2>2. CASE PageOf(b) \in cow BY <1>1, <2>1, <2>2 DEF Visible
  <2>3. CASE PageOf(b) \notin cow
    <3>1. b \in inCache /\ b \in BelowEof BY <2>1, <2>3 DEF Visible, BelowEof
    <3> QED BY <1>1, <2>1, <2>3, <3>1 DEF Visible
  <2> QED BY <2>2, <2>3
<1>7. FlushPersists' BY <1>1 DEF FlushPersists
<1> QED BY <1>3, <1>4, <1>5, <1>6, <1>7

(* Truncation takes only what is no longer promised.                       *)
LEMMA ResizeStep ==
  ASSUME IInv, NEW n \in FileLens, Resize(n)
  PROVE  IInv'
<1> USE DEF IInv, mode
<1> DEFINE lost == {b \in Bytes : b >= n \/ b >= file_len}
           gone == {p \in Pages : p * PageSize >= n}
<1>1. n \in Nat /\ file_len \in Nat BY PageOpsAssumption DEF TypeOK
<1>2. /\ file_len' = n
      /\ resident' = resident \ gone /\ cow' = cow \ gone
      /\ inPrivate' = inPrivate \ BytesOf(gone)
      /\ inCache' = inCache \ lost /\ onDisk' = onDisk \ lost
      /\ kept' = {b \in kept : b < n} /\ flushed' = {b \in flushed : b < n}
      /\ pinned' = pinned \ gone
      /\ UNCHANGED <<mode, down, locked>>
  BY DEF Resize
<1>3. Backed' = Pages \ gone
  <2>1. \A p \in Pages : p * PageSize \in Nat
    BY PageRangeAssumption, PageOrder DEF Pages
  <2> QED BY <1>1, <1>2, <2>1 DEF Backed
<1>4. \A b \in Bytes : b \in Nat BY PageRangeAssumption DEF Bytes
<1>5. \A b \in Bytes : b < n => PageOf(b) \notin gone
  <2> SUFFICES ASSUME NEW b \in Bytes, b < n, PageOf(b) * PageSize >= n PROVE FALSE
    OBVIOUS
  <2>1. PageOf(b) * PageSize < n BY <1>1, BackedPage
  <2>2. PageOf(b) * PageSize \in Nat BY <1>4, PageOfBounds, PageOrder
  <2> QED BY <1>1, <2>1, <2>2
<1>6. \A b \in Bytes \ lost : b < n /\ b < file_len BY <1>1, <1>4
<1>7. \A b \in Bytes : b < n /\ b < file_len => b \notin lost BY <1>1, <1>4
<1> HIDE DEF lost, gone
<1>8. TypeOK'
  <2>1. onDisk' \subseteq BelowEof'
    BY <1>2, <1>6 DEF TypeOK, BelowEof
  <2>2. (inPrivate \subseteq BytesOf(cow))' BY <1>2 DEF TypeOK, BytesOf
  <2>3. resident' \subseteq Backed' /\ cow' \subseteq Backed'
    BY <1>2, <1>3 DEF TypeOK, Backed
  <2> QED BY <1>2, <2>1, <2>2, <2>3 DEF TypeOK
<1>9. KeptInv' BY <1>2 DEF KeptInv
<1>10. SharedInv' BY <1>2 DEF SharedInv, Shared
<1>11. PinInv' BY <1>2 DEF PinInv
<1>12. WritesKept'
  <2> SUFFICES ASSUME NEW b \in kept' PROVE b \in Visible'
    BY DEF WritesKept
  <2>1. /\ b \in Visible /\ b \in Bytes /\ b < n
        /\ b < file_len \/ PageOf(b) \in cow
    BY <1>2 DEF WritesKept, TypeOK, KeptInv
  <2>2. PageOf(b) \notin gone BY <1>5, <2>1
  <2>3. CASE PageOf(b) \in cow
    <3>1. b \in inPrivate' BY <1>2, <2>1, <2>2, <2>3 DEF Visible, BytesOf
    <3> QED BY <1>2, <2>1, <2>2, <2>3, <3>1 DEF Visible
  <2>4. CASE PageOf(b) \notin cow
    <3>1. b \in inCache' BY <1>2, <1>7, <2>1, <2>4 DEF Visible
    <3> QED BY <1>2, <2>1, <2>4, <3>1 DEF Visible
  <2> QED BY <2>3, <2>4
<1>13. FlushPersists'
  <2> SUFFICES ASSUME NEW b \in flushed' PROVE b \in onDisk'
    BY DEF FlushPersists
  <2>1. b \in onDisk /\ b < n /\ b \in Bytes /\ b < file_len
    BY <1>2 DEF FlushPersists, TypeOK, BelowEof
  <2> QED BY <1>2, <1>7, <2>1
<1> QED BY <1>8, <1>9, <1>10, <1>11, <1>12, <1>13

(* The storage going away takes nothing that is in memory.                 *)
LEMMA StorageStep ==
  ASSUME IInv, StorageFlips \/ UNCHANGED vars
  PROVE  IInv'
<1> USE DEF IInv, StorageFlips, vars, mode, storage, content, history
<1>1. down' \in BOOLEAN BY DEF TypeOK
<1>2. Backed' = Backed /\ BelowEof' = BelowEof BY DEF Backed, BelowEof
<1>3. TypeOK' BY <1>1, <1>2 DEF TypeOK, BytesOf
<1>4. KeptInv' /\ SharedInv' /\ PinInv' BY DEF KeptInv, SharedInv, Shared, PinInv
<1>5. WritesKept' BY DEF WritesKept, Visible
<1>6. FlushPersists' BY DEF FlushPersists
<1> QED BY <1>3, <1>4, <1>5, <1>6

(* Every operation, and what the kernel and others do, keeps the           *)
(* invariant.                                                              *)
LEMMA NextStep == IInv /\ [Next]_vars => IInv'
<1> SUFFICES ASSUME IInv, [Next]_vars PROVE IInv'
  OBVIOUS
<1>1. 0 \in Usize /\ MapLen \in Usize BY PageRangeAssumption DEF Usize
<1>2. CASE Operation
  <2>1. "DontNeed" \in Advices /\ "WillNeed" \in Advices BY DEF Advices
  <2> QED BY <1>2, <2>1, ReadStep, WriteStep, AdviseRangeStep, FlushStep,
             LockRangeStep, UnlockRangeStep DEF Operation, Evict, Prefetch
<1>3. CASE \E advice \in Advices : Advise(advice)
  BY <1>1, <1>3, AdviseRangeStep DEF Advise
<1>4. CASE Lock \/ Unlock
  BY <1>1, <1>4, LockRangeStep, UnlockRangeStep DEF Lock, Unlock
<1>5. CASE Environment \/ UNCHANGED vars
  BY <1>5, KernelStep, ResizeStep, StorageStep DEF Environment
<1> QED BY <1>2, <1>3, <1>4, <1>5 DEF Next

(* The invariant of every use of a mapping.                                *)
THEOREM Inductive == Spec => []IInv
BY InitIInv, NextStep, PTL DEF Spec

(* Every variable keeps its type.                                          *)
THEOREM TypeCorrect == Spec => []TypeOK
<1>1. IInv => TypeOK BY DEF IInv
<1> QED BY Inductive, <1>1, PTL

(* Reads see what was written and what was in the file.                    *)
THEOREM WritesAreKept == Spec => []WritesKept
<1>1. IInv => WritesKept BY DEF IInv
<1> QED BY Inductive, <1>1, PTL

(* What flush reported as written is on disk.                              *)
THEOREM FlushesPersist == Spec => []FlushPersists
<1>1. IInv => FlushPersists BY DEF IInv
<1> QED BY Inductive, <1>1, PTL

(* Locked pages do not fault, whatever the storage does.                   *)
THEOREM PinnedPagesStay == Spec => []PinnedNeverFaults
<1>1. IInv => PinnedNeverFaults
  BY DEF IInv, TypeOK, PinInv, PinnedNeverFaults, Accessible
<1> QED BY Inductive, <1>1, PTL

(* Both alignment formulas hand the kernel exactly the pages meant, for    *)
(* every page size, mapping length and range.                              *)
THEOREM CallsAreExact == Spec => []CallsCoverRange
<1>1. CallsCoverRange
  <2> SUFFICES ASSUME NEW offset \in Usize, NEW len \in Usize, ~Exceeds(offset, len)
               PROVE  /\ AlignedPages(offset, len) = Overlapping(offset, len)
                      /\ ResidentPages(offset, len) =
                           [p \in Overlapping(offset, len) |-> p \in resident \union cow]
    BY DEF CallsCoverRange
  <2>1. MincorePages(offset, len) = Overlapping(offset, len) BY MincorePagesExact
  <2>2. ResidentPages(offset, len) =
          [p \in Overlapping(offset, len) |-> p \in resident \union cow]
    BY <2>1, Zenon DEF ResidentPages
  <2> QED BY <2>2, AlignedPagesExact
<1> QED BY <1>1, PTL

(* A successful probe vouches for every page of its range but the last.    *)
THEOREM ProbeVouches == Spec => []ProbeMissesOnlyLast
<1>1. ProbeMissesOnlyLast
  BY ProbeReaches DEF ProbeMissesOnlyLast, RangeBytes
<1> QED BY <1>1, PTL

(* No read of an inverted range gets past the bounds check.                *)
THEOREM InvertedNeverRead == Spec => InvertedRefused
<1>1. \A start, end \in Usize : start > end => ~Read(start, end)
  BY InvertedExceeds DEF Read, GuardRead
<1> QED BY <1>1, PTL DEF InvertedRefused
===============================================================================
