# A TLA+ model of mmap-shield

mmap-shield lets a Rust program read memory-mapped files without dying of
SIGBUS when the file is truncated or its network filesystem goes away.  A
process-wide signal handler decides, from a lock-free registry of mapped
regions and a per-thread record, whether a fault belongs to a protected access;
if so it jumps back into that access, which returns an error.  On top of that,
a mapping counts its faults and is *poisoned* after too many, a range can be
prefetched by a worker thread under a deadline, ranges can be advised, flushed,
queried and locked page by page, and files on network filesystems can be read
with `pread` instead.

The modules here model that core step by step, TLC checks them on small
instances, and TLAPS proves all the safety properties of the passing runs for
every instance.  Paths below are relative to the repository root; in
`PROJECT.json` the same files carry one more leading `src/`.

Running:

    tlc -workers 2 -config MCRegionRegistry_overtaken.cfg MCRegionRegistry
    tlapm RegionRegistry_proofs.tla

A component's proofs are in the module named after it with `_proofs` appended.

## Inventory

### Components, their state and operations

| component | source | state | operations |
|---|---|---|---|
| region registry | `src/signal/registry.rs` | `REGION_SNAPSHOT` (atomic pointer to an immutable vector of regions), `REGION_MUTEX`, `RetiredTracker` (two generations of retired snapshots) | `register`, `unregister`, `rotate_retired`, `contains` |
| SIGBUS handler | `src/signal/handler.rs` | the process's SIGBUS disposition, `INSTALL` once | `install`, `sigbus_handler`, `restore_default_and_reraise` |
| per-thread recovery state | `src/signal/thread_state.rs` | `THREAD_STATE_KEY`, `KEY_INIT`, one `ThreadState` per thread (`jmp_buf`, `in_protected`, `fault_addr`) | `get_or_init`, `get`, `key`, `destroy_thread_state` |
| protected call | `src/signal/mod.rs`, `csrc/sigsetjmp_shim.c` | the `CallCtx` on the stack, the checkpoint in `jmp_buf` | `with_sigbus_protection`, `trampoline`, `mmap_guard_protected_call`, `mmap_guard_siglongjmp` |
| fault counting and poisoning | `src/mmap/mod.rs` | `poisoned`, `sigbus_count`, `max_sigbus`, `on_event` | `check_poisoned`, `record_sigbus_from`, `emit_event`, `reset_poison`, `with_max_sigbus`, and `read`, `write`, `read_into`, `probe`, `prefetch_with_timeout` that use them |
| read guard | `src/mmap/guard.rs` | none of its own | `ReadGuard::read` |
| timed prefetch | `src/mmap/prefetch.rs` | a mutex with the result, a condition variable, a cancellation flag, the worker thread | `prefetch_with_deadline`, `probe_pages` |
| life cycle | `src/mmap/mod.rs` | the file, its `flock`, the mapping | `SafeMmapOptions::open`, `Drop` |
| byte and page operations | `src/mmap/mod.rs`, `src/sys/{mmap,page,advice}.rs` | pointer, length, protection; behind them page cache, private copies, locked pages, disk | `read`, `read_into`, `write`, `probe`, `advise`, `advise_range`, `evict`, `prefetch`, `flush`, `resident_pages`, `lock_range`, `unlock_range` |
| pread fallback | `src/fallback/mod.rs`, `src/sys/pread.rs` | a file and the length it had when opened | `PreadReader::open`, `PreadReader::read`, `pread_exact` |
| filesystem detection | `src/sys/fs_detect.rs` | none | `FsType::detect`, `FsType::is_network` |

### How they interact

* `open` maps the file, installs the handler and registers the region; `Drop`
  unregisters it and then unmaps.
* Every access runs its closure inside `with_sigbus_protection`, which arms the
  thread's `ThreadState` and lets the C shim set the checkpoint.
* A fault enters `sigbus_handler` on the faulting thread.  The handler reads the
  thread's state, asks `registry::contains`, and either re-raises or jumps.  It
  shares memory with mutators of the registry on other threads and may take no
  lock.
* An access that gets `Err(Sigbus)` back records it in the mapping's counter and
  flag, which all threads share, and runs the user's callback in the middle of
  that.
* `prefetch_with_timeout` has a worker touch the pages.  The worker knows the
  mapping only as an integer address; nothing but the join keeps it from
  outliving the mapping.
* The range operations check a byte range against the mapping, round it out to
  pages and hand it to the kernel, which does to those pages what it likes as
  long as it keeps its promises; other processes resize the file underneath.
* A program asks `FsType::detect` where its file lies and reads it through
  `PreadReader` or `SafeMmap`, which check ranges against a length that may be
  out of date.

### What is hard

* A handler preempted between its load of the snapshot and its scan, while other
  threads retire and free snapshots.
* One jump buffer and one `in_protected` flag per thread, but nested protected
  calls; a checkpoint whose frame is gone; a handler that runs before the
  pthread key exists.
* Counting and poisoning in separate atomic steps with Relaxed ordering, resets
  in between, user code called in between that may access the mapping again or
  panic.
* Ranges that are inverted, overflow or start inside a page; page operations that
  reach beyond the bytes they were given; storage that fails half way.
* A file that shrinks, grows or changes between the partial reads of one call.
* A timeout that races with the result, spurious wakeups, a worker that stalls in
  a page fault, a cancelled worker that reports success.

Every such point is listed under `hazards` in `PROJECT.json` with the line where
it bites and the properties that watch it.

### What makes each component correct

* Registry: each snapshot has one owner; garbage is bounded; a handler scans
  only live memory; a concurrent question sees the registry before or after a
  mutation.
* Handler and protected call: jumps only to a live checkpoint of the call that
  faulted; that call reports its own fault; faults that are not the library's
  keep their default effect; faults in a protected closure never do.
* Poisoning: set exactly when the counter is exhausted; bounded overshoot; one
  announcement per count; resets that neither lose nor resurrect it; a callback
  that panics costs the fault it was told of and no other.
* Prefetch: success means every page; the worker ends before the call; timeouts
  are real; the call returns.
* Pages: the kernel is asked about exactly the pages a range meets; writes stay
  readable, flushed bytes are on disk, locked pages do not fault.
* pread: success means every byte of the range, an unexpected end means the file
  shrank, the call ends; a network filesystem that detection recognises never
  delivers a SIGBUS.

## The modules

### `Regions`, `RegionSet`, `RegionRegistry`: the registry

`Regions` holds what the abstract and the detailed specification share: a region
is `[start, end)`, `Covers` is the handler's scan, `Retain` the filter of
`unregister`.  A snapshot's vector is a set of regions: no result depends on the
order, and `unregister` removes every region with its start, so neither does one
on multiplicity.

`RegionSet` is the promise: a set of regions, changed atomically by `Register`
and `Unregister` and asked atomically by `Contains`.

`RegionRegistry` is the code.  Its state is `REGION_SNAPSHOT` (`snapshot`), the
heap of snapshot boxes (`heap`, `allocated`), the two generations of
`RetiredTracker`, the mutex, and the locals of whoever is inside `register`,
`unregister` or `contains`.  A mutation is `Lock`, `RotateRetired`,
`BuildSnapshot` (or `NothingToUnregister`, the early return), `SwapSnapshot`,
`RetirePrevious`; a question is `LoadSnapshot` (or `LoadNull`) and
`ScanSnapshot`.  Any thread may be anywhere in any of them.  Freed pointers are
handed out again; the scan of a freed box is undefined behaviour and may answer
anything.  `begun` counts the mutations that began since a handler's load and
`dangling` names the handlers whose snapshot is gone; both are history.

`MaxOverlap` bounds how many mutations may begin during one handler's scan.  It
is the model's statement of the assumption the comments of `rotate_retired` make
informally, and it is a parameter so that both sides of it can be checked.

### `SigbusProtection`: handler, thread state, protected call

Each thread has a `ThreadState` (`hasState`, `in_protected`, `fault_addr`,
`jmp_buf`) and a stack of protected calls, `frames[t][1..depth[t]]`; frame 0 is
the thread's own code.  `jmp_buf` is the depth of the frame the checkpoint was
taken in, 0 if it was never taken or that frame has returned.  `Enter`,
`Checkpoint`, `Complete` and `Return` are the stages of one
`with_sigbus_protection`; user code (`Top(t).at = "running"`) may open and drop
mappings, make a nested protected call, panic (the process aborts at the
`extern "C"` trampoline), or touch an address that faults.  `Fault` is
`sigbus_handler` with its four outcomes: default disposition, re-raise, jump,
and `FaultMisread`, the handler reading another library's data because key 0 is
not yet its own (only with `ForeignKeyZero`).  A jump to depth 0 is a wild jump:
the process state is undefined from there on and the model stops (`outcome`).

The registry appears as the plain set `registered`; that this is what
`contains` answers is the refinement shown in `RegionRegistry`, and that the
answer fits the mappings, while they come and go, is shown in `LiveFaults`.

A fault only happens in user code.  The handler's own code does not touch mapped
memory, so there are no nested SIGBUSes, and the signal mask (`SA_NODEFER`,
`sigsetjmp` with a saved mask) is not part of the state.

### `PoisonTracking`: counting, poisoning, resets

One mapping shared by several threads.  `record_sigbus_from` is `Count`
(`fetch_add`), `EmitSigbus` (the callback), `Compare`, `Poison` (the store),
`Announce`.  `check_poisoned` is the guard of `Begin` and `Reject`.  Relaxed
ordering is modelled in two places: a load of `poisoned` may return any value the
thread has not yet seen overwritten (`mayRead`), and the two stores of
`reset_poison` may take effect in either order (`reordered` records that they
did not keep theirs).  A store delayed beyond the end of `reset_poison` is not
modelled.  `reset_poison` may be called between accesses or by the callback, in
the middle of a recording.  `guard().read()` neither asks nor records.

A callback may also access the mapping again, while the recording it was called
from waits: `EnterAccess` pushes that recording on `outer[t]`, and `Return`
resumes it with its own local `count`.  The code does not bound this recursion;
`MaxDepth` does in the model, and appears in the bound on the overshoot.

And a callback may panic.  `Unwind` is a panic on a `Sigbus` event: it leaves
`record_sigbus_from` after the fault was counted and before the count is
compared, and the access with it, and arrives in the code that made the access,
which may be another callback; that one goes on if it catches the panic, and
takes `Unwind` itself if not.  No mapping state is restored on the way: what is
lost is the comparison, so the fault neither poisons nor is announced.  `panics`
counts these and `unjudged` collects the counts concerned, as history, and the
properties say exactly what such a panic costs.  A panic on the `Poisoned` event
comes after everything is recorded and is not told apart from a return
(`Announce`).  A panic inside an access's closure does not get this far: it aborts
the process (`SigbusProtection`).

`WithMaxSigbus` is `with_max_sigbus`, which takes the mapping by value and so
finds no access in progress.  It sets `max_sigbus` and nothing else: faults that were
counted before are not compared with the new limit, and a poisoned mapping stays
poisoned.

### `Lifecycle`: open and drop

Each value of `Values` is a `SafeMmap` at some `stage` of being opened or dropped,
so that opens and drops on different threads interleave.  `OpenFile`, `Flock`,
`Measure`, `Map` and `RegisterRegion` are the body of `SafeMmapOptions::open` in
order; `Fail` is each of its early returns, where the drop of the `File` closes the descriptor and
with it releases the lock.  `Drop` is the value's own `drop` (unregister), then
its fields in declaration order: `raw` (munmap), `_file` (close).  The kernel may
hand out any free range, at once; `Resize` is another process.  The registry is
the atomic set that `RegionRegistry` is shown to implement, down to `unregister`
going by start address alone; `LiveFaults` puts the real one in its place.
Visibility is in `PageOps`; population changes
nothing, since pages may be resident anyway.

### `LiveFaults`: values, registry and handler together

`LiveFaults` extends `RegionRegistry` and instantiates `Lifecycle` with the
published snapshot's regions as its `registered`.  A thread that opens a value
gets as far as `mmap` by `Lifecycle`'s own actions (`OpenOrClose`) and then runs
`register` step by step (`BeginRegister`, `Mutating`, `Finish`); a drop runs
`unregister` the same way (`BeginDrop`) and then `Lifecycle`'s `Munmap` and
`CloseFile`.  The stage of a value changes with the swap, where `Lifecycle` has
its one step; until the call returns the value is `Busy` and nothing else happens
to it.  Waiting for the mutex changes nothing and is part of `BeginRegister` and
`BeginDrop`.

Meanwhile any thread may fault: `FaultInValue` at a byte of a live value it reads,
`FaultElsewhere` in memory that is in no mapping of the library; both load the
snapshot, and `Answer` is the scan.  `about` records, as history, which value the
fault was in.  A value is not dropped while a read borrows it, which is Rust's
rule and the guard of `BeginDrop`.  What the handler does with the answer is
`SigbusProtection`'s.

### `Prefetch`: the timed prefetch

One call of `prefetch_with_deadline` and its worker, over byte positions so that
the loop of `probe_pages` is the code's own arithmetic.  A touch is two steps:
the storage answers when it answers.  `Wake` is `wait_timeout` returning: after
a notification, after the timeout, or spuriously.  The model is of one call
because calls share nothing: each creates its own pair and flag.

### `PageRange`, `PageOps`: bytes and pages

`PageRange` holds the arithmetic as operators: the bounds check all operations
share (`Exceeds`), the length of a range (`RangeLen`, which wraps), the two
formulas that round to pages (`AlignedLen` of `advise_range` and `flush`,
`MincorePages` of `mincore`) and the stride of `probe`.  Sums are modulo
`UsizeMod` exactly where the code does not use `checked_add`.  `Overlapping` is
the reference they are compared with: the pages that a range meets.  `CallsCoverRange`
and `ProbeMissesOnlyLast` are about this arithmetic alone: they relate the last call
to its reference and do not depend on what the pages do around it.

`PageOps` is one mapping in use.  Each operation of `SafeMmap` is an action, with
every range of `Usize` as its argument; a refused call changes nothing and is a
stutter.  The data is abstracted to where the latest value of each byte is: in a
private copy of its page (`inPrivate`, `cow`), in the page cache (`inCache`), on
disk (`onDisk`).  `resident` are the pages in memory, `locked` the ones `mlock`
marked.  `Writeback`, `Reclaim`, `Resize` and `StorageFlips` are the kernel, other
processes and the storage, and what the system calls do is modelled from how
the code uses them.  `kept`, `flushed` and `pinned` are history: what the caller was
told it can rely on.  Accesses take a SIGBUS exactly on pages outside
`Accessible`; that this comes back as an error is `SigbusProtection`'s subject,
and that it is counted is `PoisonTracking`'s.

### `Fallback`: detection and pread

A program that follows the crate's own example (`src/lib.rs`): `Choose` asks
`Detect` and `IsNetwork`, `Open` remembers the length of the file, and calls of
`PreadReader::read` run one `pread` at a time (`PreadExact`), with any number of
bytes delivered each time.  `MmapRead` is the other path, reduced to whether it
takes a fault.  Other processes overwrite and resize the file and the storage
fails at any point; `seen` records, as history, the values each byte had during
the call.  Arguments are all of `Ranges`: any two values of `usize`, inverted or
not.  The offset is a 64-bit signed number and the length an unsigned one, as in
the code (`AsI64`, `RangeLen`).

## Runs

"violation" runs state what a comment or doc of the repository says and show a
behaviour of the code in which it is false; `findings` in `PROJECT.json` quotes
the lines.

| run | expects | what it shows |
|---|---|---|
| `registry_overtaken` | pass | ownership, bounded garbage and the two-generation guarantee with handlers overtaken by up to three mutations |
| `registry_freed` | violation | `NoDanglingScan` fails when two mutations may overtake a handler |
| `sigbus_nested` | pass | jumps go to the faulting call's own live checkpoint, errors report their own fault, a closure that made no protected call of its own is always caught, foreign data is read only before the first protected call |
| `sigbus_nested_killed` | violation | after a nested call the outer closure is unprotected |
| `poison_faults` | pass | with callbacks that reset, access the mapping again or panic, and a limit that may change: bounded overshoot, poisoned iff a fault that was judged exhausted the counter, exact announcements, resets in program order never hide an exhausted counter |
| `poison_reset_race` | violation | a reset during a recording leaves the mapping poisoned with a counter of zero |
| `lifecycle_values` | pass | the handler knows exactly the bytes of live values despite address reuse, and a lock covers the whole life of its mapping |
| `live_faults` | pass | with at most one mutation per scan, no dangling scan and refinement of `RegionSet`; open and drop with the real registry still are what `Lifecycle` says, and the handler claims every fault in a live value and no other, while values come and go at the same addresses |
| `prefetch_aligned` | pass | success means every page, worker never outlives the mapping, timeouts are real, the call returns |
| `prefetch_stalled` | violation | with stalled storage the caller stays in `join` past its deadline |
| `page_ops` | pass | alignment hits exactly the pages meant, inverted ranges are refused, writes are kept, flushes persist, locked pages do not fault, a successful probe has at most missed the last page |
| `fallback_reads` | pass | an Ok read is the whole range, network filesystems never deliver a SIGBUS, an unexpected end means the file shrank, every read ends |

Each property of a passing run has a mutant: a plausible bug in one modelled
definition (kept in the module under "Faulty variants") that TLC must notice.

### Bounds, and why they are enough

* `registry_overtaken`: three threads, so that one handler, one mutator and one
  waiting for the mutex (or a second handler) coexist; four pointers: at most three boxes are
  allocated at a time (the older generation is freed before a new box is
  built), so a freed pointer may be reused at once or later; `MaxOverlap = 3`, one more than the two mutations that free a
  snapshot.  One region start and one address: these properties do not read
  the contents.
* `sigbus_*`: two threads share the installed handler, the key and the
  registry; two mappings, so that a nested call can read another one; depth 2 is
  one nesting, and each level depends only on the one above.
* `lifecycle_values`: two values are enough for one to reuse the other's address;
  three pages of two bytes hold two mappings of one or two pages; lengths and
  offsets cover zero, aligned, unaligned, beyond the end and up to the end.
* `live_faults`: two threads, so that a handler is overtaken by a mutation at any
  point of both; two values on two pages, one or two pages long, so that a start
  comes back with another length; address 4 is a byte of one value, of the other,
  or of neither; three pointers force reuse; `MaxOverlap = 1`,
  the most that leaves every scan safe.  One file: locks and resizes are the
  subject of `lifecycle_values`.  The registry gets the calls of `open` and `drop`
  only; `Refinement` is proved for calls in any order.
* `poison_faults`: two threads, a `max_sigbus` of zero or two, counter modulo eight,
  one reset or change of the limit, one panic and one level of callback: counts
  below, at and beyond the threshold on both threads, inside and outside a
  callback, and a reset or a panic at any point of it.  The largest threshold, the
  overshoot and the panic together are seven, so the counter does not wrap before
  a reset; `Room` says so for the proofs.  Further panics, such as one that unwinds
  several callbacks, repeat the same step and are covered by the proofs.
* `prefetch_*`: a page of four bytes; the range starts on a page and covers two
  and a half.
* `page_ops`: two pages of two bytes, of which the mapping has three, so that the
  last page is partial; `usize` modulo 8, so that sums overflow, and every pair
  of numbers as a range; files that end before the mapping, in its first page,
  with it, and after it.  Pages interact only through ranges that span several.
* `fallback_reads`: files of up to three bytes, so that a call takes one, two or
  three preads; `usize` modulo 8, so that inverted ranges wrap to short and to
  long lengths; two byte values.

`CHECK_DEADLOCK FALSE` appears where the system does stop: the process has
ended, or the call has returned and the mapping is gone.

### Fairness

In `Prefetch` weak fairness is assumed of the worker's own
steps, of the caller's own steps, of the wakeup once notified or expired, and
of the clock: the operating system schedules runnable threads, the standard
library's condition variable delivers notifications and timeouts, and time
passes.  A spurious wakeup has no fairness.  A page access completes only if
`StorageAnswers`; with it `CallReturns` holds, without it `DeadlineHonoured`
fails, because the code waits for the worker unconditionally.

In `Fallback` weak fairness of `PreadExact` says that the calling thread runs and
that each `pread` returns, with data or an error.  On a hard-mounted NFS whose
server never comes back `pread` may not return, and the code has no timeout for
it; `ReadReturns` is about the loop, not about that.

## Proofs

Every theorem holds for all values of the constants that satisfy the named
assumptions of the modules, which TLC evaluates on every run.  They say what the
code takes for granted: sizes are natural numbers, a page is not empty, `usize`
is a multiple of the page size, "nothing" is not one of the values it stands
beside.  Nothing is assumed finite but the set of threads of `PoisonTracking`,
whose bound counts them.  Six theorems have a hypothesis of their own; it is
named below.

Hardly any property is inductive by itself.  Each proof module defines an
inductive invariant `IInv`, a conjunction of named parts, which TLC has also
checked on the instances of the runs; there is a lemma for each action, or for
actions that do the same to the invariant, with a step for each part it can
disturb; `Inductive` combines them, and the theorems follow from `IInv`.

### `RegionRegistry_proofs`

For any sets of threads, pointers, regions and addresses:

* `TypeCorrect`, `Ownership` (`OwnedOnce`), `GarbageIsBounded`
  (`GarbageBounded`);
* `TwoGenerations` (`FreedAfterTwoBegun`): however often handlers are overtaken,
  a snapshot is freed under one only after two mutations began since its load;
* `PromptHandlerIsSafe` (`NoDanglingScan`) and `Refinement`
  (`ImplementsRegionSet`), assuming `MaxOverlap <= 1`; the run `registry_freed`
  shows that this is needed.

`IInv` is the conjunction of

* `TypeOK`;
* `MutexInv`: a thread is between lock and unlock exactly if it holds the mutex,
  and the mutators' locals are null wherever the code has not set them, so that at most one
  thread's steps touch the mutable state;
* `OwnedOnce` and `GarbageBounded`;
* `ReaderInv`: where the box of a scanning handler is, as a function of how many
  mutations have begun since the load: published or just swapped out if none has,
  in the older generation only after one, about to be freed only after two.  This
  is what makes `FreedAfterTwoBegun` go through;
* `OverlapInv`: no handler is overtaken more often than `MaxOverlap`;
* `BuiltInv`: the box a mutator has built holds exactly the regions its call
  makes of the published ones, which is what the swap must publish for the
  refinement.

The refinement maps a mutation to its swap and a question to its load;
`RetirePrevious`, `RotateRetired` and the scan are stutters of the abstract set,
the scan because a box that is not dangling has not been rewritten since the load.

### `SigbusProtection_proofs`

For any threads, mappings and depth of nesting: `JumpsAreSafe` (`NoWildJump`),
`LeavesAreProtected` (`LeafFaultCaught`), `ErrorsAreOwn` (`ErrReportsOwnFault`),
`MisreadWindow` (`MisreadOnlyBeforeFirstCall`) and the action property
`FramesAreKept` (`FaultKeepsFrames`).

The heart is `ArmedInv`: while user code runs with the flag set, the checkpoint
is in the innermost call.  Nested calls overwrite the one `jmp_buf`, and what
saves the outer call from a jump into a dead frame is that the nested call also
clears the one flag on its way out, the very thing that leaves the outer closure
unprotected (`sigbus_nested_killed`).  `StackInv` says which stacks of calls there
are, `HitInv` that only the innermost call can have faulted and that its address
is still in the thread's record, and `KeyInv` that whoever has made a protected
call has created the key.

### `PoisonTracking_proofs`

For any finite set of threads, any limits, width of the counter, number of
resets, changes of the limit and panics, and any depth of callbacks:

* `OvershootIsBounded` (`OvershootBounded`);
* `ExhaustedIsPoisoned` (`ExhaustedMeansPoisoned`), with any number of resets in
  program order racing with the recordings, and for every count that was compared
  with the limit in force;
* `PoisonedExactly` (`PoisonedIffExhausted`) and `AnnouncedOnce`
  (`AnnouncedExactly`), assuming `Room`: the counter can hold the threshold and
  the overshoot, `Threshold + |Threads| * (MaxDepth + 1) + MaxPanics <= 2^32` for
  each limit.  Without it the counter may wrap to zero with the flag set, and both
  are false.  A `max_sigbus` of `u32::MAX`, which the documentation offers to
  disable poisoning, has no room.  (A build with overflow checks panics where the
  counter would wrap, between the `fetch_add` and the callback; the model wraps, as
  a release build does.)

A thread is seen as a row of levels, one for each callback depth; each action
changes one level (`OnlyAt`), which is proved once for pushing and once for
popping a suspended recording.  On these levels

* `ExhaustedInv`: if the counter is at the threshold the flag is set, or the level
  that brought the counter to just this value is still to compare or store, or
  this value is one of `unjudged`, or some reset has cleared the flag and is about to
  clear the counter;
* `SightInv`: a thread in an access that will be counted has not seen the flag, and
  one that has set it sees it ever after, as Relaxed loads of one location
  do not go back;
* `SpentInv`: the counter exceeds the threshold by no more than the number of
  spent levels, those that have counted a fault from the threshold on or whose
  thread sees the flag, and of panics.  A fault is counted only on a level that is
  not spent and spends it, a level is given back only by a panic, and there are
  `|Threads| * (MaxDepth + 1)` of them;
* `LedgerInv`, under `Room`: the counts of recordings in progress are different and
  not above the counter (`CountsInv`, `UniqueInv`), each count from the threshold
  on is announced, being recorded or in `unjudged`, and no two of these
  (`AnnounceInv`), and the flag is set exactly if one of them has got as far as the
  store (`FlagInv`).

### `Prefetch_proofs`

For any page size, offset and length: `WorkerIsConfined` (`WorkerTouchesMapped`),
`TimeoutsAreReal` (`TimeoutIsReal`), and `OkIsComplete` (`OkMeansAllTouched`)
assuming that the range starts on a page, `Offset % PageSize = 0`; for other
ranges it is false, as `ProbeMissesOnlyLast` says of the same loop.  `WorkerInv` says what
the worker has to report and from when on it is in the pair, `CallerInv` what the
caller has decided (an Ok is never one of a cancelled worker, and the call returns
only after the worker has exited), `LoopInv` that the loop has touched the page of
every byte it has passed.

### `Lifecycle_proofs`

For any values, files, pages and options: `LiveCovered` (`LiveIsCovered`),
`CoveredLive` (`CoveredIsLive`), `LocksGuardMappings` (`LockGuardsMapping`).
`RegionInv` says that the handler knows the regions of the live values and
nothing else; that `unregister` of one start removes no other value's region
needs `MappedInv`: a page has one owner, so no two values start at the same
address, and a value is unregistered before its pages are free.  `LockInv` says who
holds a lock, from `flock` to the close of the descriptor, and that exclusive
locks exclude; `StageInv` what `open` has computed by each stage.

### `LiveFaults_proofs`

For any threads, values, files, pages and addresses:

* `UsesRegistry`: the composed system is a behaviour of `RegionRegistry`, so that all
  theorems about the registry hold in it;
* `ComposedLifecycle` (`ImplementsLifecycle`): it implements `Lifecycle`, so that all
  theorems about the life cycle hold with the real registry too;
* `HandlerClaimsExactlyLive` (`ClaimsExactlyLive`), assuming `MaxOverlap <= 1`.

The two refinements need each other: that a call is one the registry knows
follows from what `Lifecycle` has computed by then, and that the swap is
`Lifecycle`'s update follows from what the registry has built.  `JInv` therefore
joins the inductive invariants of both, each cited from its own proof module
together with its step lemma, with `DriveInv` (a thread between lock and unlock
works for one value, with the call its stage asks for) and `LensInv` (lengths that
`open` computes are lengths the registry may be given).  For the verdict
`VerdictInv` adds that the answer is settled by the load: at that moment the published
regions are those of the live values, by `Lifecycle`'s `RegionInv`, and a scan that
does not dangle reads what was loaded.

### `PageOps_proofs`

The first part compares the code's arithmetic with its reference for every page
size, mapping length and width of `usize`: `AlignedPagesExact` and
`MincorePagesExact` (both formulas give exactly the pages that the range meets),
`InvertedExceeds` (the bounds check refuses every inverted range although its
length wraps) and `ProbeReaches` (the stride of `probe` misses at most the last
page).  A range that passes the check has sums that do not wrap (`NoWrap`), and
rounding down is the start of a page (`AlignDownIsStart`); the rest is that every
byte has one page.

The second part proves `WritesAreKept` (`WritesKept`), `FlushesPersist`
(`FlushPersists`), `PinnedPagesStay` (`PinnedNeverFaults`), `CallsAreExact`
(`CallsCoverRange`) and `ProbeVouches` (`ProbeMissesOnlyLast`) from `KeptInv` (a byte
that is relied on is in the file or in a private copy), `SharedInv` (only private
mappings copy) and `PinInv` (pinned pages are in memory).  The action property
`InvertedNeverRead` (`InvertedRefused`) follows from the arithmetic.

### `Fallback_proofs`

For any length of the file and width of `usize`: `OkIsWhole` (`OkMeansAll`),
`NetworkIsSafe` (`NetworkNeverSigbus`) and the action property `EofMeansShrunk`
(`EofOnlyIfShrunk`).  `BufInv` says that the buffer holds, each in its place,
values the file had during the call, which needs `SeenInv`, that the history is up
to date with every write and resize.  `RangeInv` says what the checks of `read` let
through: by `RangeFacts` a wrapped length that fits in a buffer belongs either to
a straight range or to an inverted one that is not empty and begins at a
negative offset, of which `pread` never delivers a byte.  `ViaInv` ties the reader
to what detection said.

### Only model-checked

* `CallReturns` and `ReadReturns`: liveness under fairness is out of the prover's
  reach.
* The properties of the violation runs, which are false.

## Where code and text disagree without a run of its own

* `registry.rs` lines 44-45 promise "two full mutex-guarded operations" before a
  free.  The handler may load in the middle of one mutation and lose its
  snapshot at the start of the next but one: one full operation.  The trace of
  `registry_freed` shows it.
* `registry.rs` lines 9-10 speak of retired snapshots being freed "on the next
  mutation"; it is the one after.
* `mmap/mod.rs` line 252 says the callback hears of SIGBUS faults; a fault in
  `guard().read()` is not reported.
* `mmap/mod.rs` line 228 says `u32::MAX` disables poisoning; the comparison has
  no special case, so the fault that brings the counter there poisons.
* `mmap/mod.rs` lines 106-108 say that once poisoned "all subsequent access
  attempts return `AccessError::Poisoned` without touching memory";
  `guard().read()` does not ask (`BeginGuard`).
* `guard.rs` lines 19-20 say that reads of a guard "share a single sigsetjmp
  checkpoint"; each read makes its own protected call.
* If the two Relaxed stores of `reset_poison` take effect in the opposite order
  (weakly ordered hardware), a concurrent recording can leave an exhausted
  counter unpoisoned; `ExhaustedMeansPoisoned` excludes those resets.
* `handler.rs` lines 8-10 say that outside a protected block the handler
  re-raises.  It is installed by `open`, while the pthread key is created by the
  first protected call; in between `key()` is 0 (`thread_state.rs` line 54), which
  may be another library's key, whose value is then read as a `ThreadState`
  (`FaultMisread`).  `MisreadOnlyBeforeFirstCall` shows that this window closes for
  every thread with the first protected call of any.
* `mmap/mod.rs` line 739 says that `prefetch_with_timeout` "touches every page in
  the range", and `probe` pre-touches "pages in the specified range".  Both advance by
  whole pages from an offset that need not be aligned and may leave the last
  page untouched.  `ProbeMissesOnlyLast` says exactly when; `OkMeansAllTouched` holds for
  aligned ranges.
* A callback that panics on a `Sigbus` event takes the comparison with it, so
  `max_sigbus` is not "the maximum number of SIGBUS faults before poisoning"
  (`mmap/mod.rs` line 226): if the callback always panics the mapping is never
  poisoned, however often it faults.  `tests/adversarial_tests.rs` line 569 says that
  a callback that panics "should not corrupt the mapping", but its test provokes no fault.
  `OvershootBounded`, `PoisonedIffExhausted`, `AnnouncedExactly` and
  `ExhaustedMeansPoisoned` are stated with this loss: one count for each such
  panic, and nothing else.
* `with_max_sigbus` below the present counter does not poison until the next fault,
  and above it does not lift a poisoning.
* The callback may recurse: an access it makes on a `Sigbus` event faults and
  calls it again, before the flag is set for the first fault.  `max_sigbus` does
  not bound the depth; only counting beyond it does, one level at a time.
* `evict` and `advise_range` round out to pages, so `evict(1, 0)` releases a whole
  page, with the private writes next to the range.
* `flush` reports success for bytes beyond the end of the file in the last page,
  which are never saved.
* `unlock_range` unpins a page that another `lock_range` still wants, as `mlock`
  does not nest; truncation ends a lock's effect as well.
* `fallback/mod.rs` lines 3-5 promise the interface of the mmap path and proper
  errors; `PreadReader::read` of an inverted range panics, in release builds
  too when the wrapped length is too large for a buffer (`SafeMmap::read` returns
  `OutOfBounds` there).
* `fs_detect.rs` line 46 has `Unknown` for unrecognised types; on Linux every
  magic number that is not in the table is `Local`, so a network filesystem the
  table lacks is read through `mmap`.  `NetworkNeverSigbus` is about the types that
  detection recognises: that its table and that of `is_network` fit together.

## Not modelled

* The unsafe `as_slice` and `as_mut_slice`: accesses by the caller, outside every
  protected call; they fault as `FaultReraised` does.
* `RawMmap::anonymous`, `contains_addr` and `Protection::None`, which `SafeMmap`
  does not use, and `mmap_guard_sigjmp_buf_size`.
* Error types and messages, and `src/bin/sigbus_victim.rs`, a test driver.
* A `pread` or `mlock` that never returns, and the failure of allocations and of
  `thread::spawn`, which end the process.
* System calls beyond the outcomes the code distinguishes, and the contents of
  mapped bytes beyond where their latest value is.

## Plan

Done, in order of importance:

1. registry, with its abstract set, refinement and proofs;
2. handler, thread state and protected call;
3. poisoning;
4. timed prefetch;
5. life cycle;
6. page arithmetic and the page operations of a mapping;
7. detection and the pread fallback;
8. accesses from inside event callbacks, callbacks that panic, changes of the limit;
9. proofs of the safety properties of every component;
10. the composition of registry, life cycle and handler, and its proof.

Left: `SigbusProtection` takes the registry to be an atomic set and `PageOps` takes
a fault to come back as an error.  That these are the verdict of `LiveFaults` and
the jump of `SigbusProtection` is argued in this file and not proved.
