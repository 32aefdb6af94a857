# Nikka in TLA+

Nikka is a small x86-64 operating system kernel in Rust, with a support library
(`ku`) shared by the kernel and user programs, and a few driver crates. This
directory holds TLA+ models of it: processes and their scheduling, physical and
virtual memory from the frame allocator up to the heap and the ELF loader, the
start of the processors, interrupts, locks, clocks, the user log, the console, the
disk driver, and the pure algorithms these rest on. TLC checks the models on small
instances. For every size, TLAPS proves the process table, the scheduler's safety
properties, the frame allocator, the heap, the clocks, the locks, the start of the
processors, the disk driver, the user log and the handling of traps correct.

The source belongs to a course: some parts are left as `unimplemented!()` or as
TODOs. A part that has no code has no model.

Contents: [inventory](#inventory), [plan](#plan), [the modules](#the-modules),
[runs](#runs), [findings](#findings), [proofs](#proofs), [what is only
model-checked](#what-is-only-model-checked), [not modelled](#not-modelled).

## Inventory

### Components that carry the core logic

**Process table** (`kernel/src/process/table.rs`, `ku/src/process/pid.rs`).
State: an array of slots, each free or used; the free slots are linked in a
LIFO list through pids; a count of processes. A pid is a slot and an epoch, and
the epoch of a slot grows when its process is freed. Operations: `allocate`,
`free`, `get`. Correct when: the free list visits every free slot once, the
table refuses a process only when it is full, a pid names at most one process
over the whole life of the system, stale pids are not found.

**Scheduler, system calls and user mode switches** (`kernel/src/process/`,
`kernel/src/trap/mod.rs`, `kernel/src/smp/cpu.rs`). State: one queue of pids, a
spinlock for the table, one for each process and one for the base address space;
for each CPU the current process, the saved user context, the loaded page table
root and the kernel stack. Operations: `run_one`, entering user mode, preemption
by the timer, the system calls `exit`, `log_value` and `sched_yield`, fatal
traps, creating and freeing a process. Hard: CPUs interleave at the locks, a
process is unlocked while it runs, some paths out of the kernel never return to
their caller (so what is on the stack is not dropped), and `Table::get()` spins
on a process while it holds the table. Correct when: a process is in one place
at a time and is not lost, user mode is entered with no kernel lock held, a
kernel entry completes, a queued process runs, freed page tables are not loaded.

**Physical frame allocator** (`kernel/src/memory/frame_allocator.rs`,
`frame_guard.rs`). State: a descriptor for each frame (absent, free with a link,
used with a reference count), the head of the free list, a count of free frames.
It starts with a small static descriptor array and moves to a large one
(`resize`) when the kernel has enough memory to allocate it. Operations:
initialization from the boot loader's memory map, `allocate`, `reference`,
`deallocate`, `resize`. Correct when: a reference count is the number of
owners, only frames without an owner are handed out, the free list and the
counter agree with the descriptors, and moving the descriptors forgets nobody.

**Page tables and address spaces** (`kernel/src/memory/mapping.rs`, `path.rs`,
`address_space.rs`, `mmu.rs`, `ku/src/memory/mmu.rs`). State: trees of physical
frames, the root in CR3, the TLB of the processor, and guards of frames on the
stacks of running operations. Operations: map a page to a new or a given frame,
unmap, remap with other flags, duplicate a mapping, drop it, remove unused
nodes, switch. Hard: every operation is many steps of which one may run out of
memory, pages are shared between mappings, and the TLB may reload between any
two memory accesses. Correct when: nothing leaks and nothing is released twice,
a copy is faithful and independent, a cached translation never outlives its
mapping, rights asked for are granted and rights taken away are gone.

**Heap allocators** (`ku/src/allocator/`, `ku/src/collections/`). State of each
size class: a bitmap of its blocks, the slabs of pages that hold them, a clip
that caches pointers, statistics; the allocator and the clip have a lock each.
Operations: `alloc`, `dealloc`, `realloc`, growth when the bitmap is full
(`stock_up`), `unmap` of everything. Hard: CPUs meet in the clip and in the
allocator in different orders, and growth takes several steps that may fail.
Correct when: a block has one owner and is mapped, null means that memory is
exhausted, statistics are exact, `unmap` returns everything.

**Virtual memory above the page tables** (`kernel/src/memory/page_allocator.rs`,
`address_space.rs`, `kernel/src/allocator/`, `ku/src/allocator/big.rs`). State: for
each address space the range of pages that are still free, and what is mapped.
Operations: reserve pages, with alignment and guard pages, or given ones; map and
unmap blocks and slices; grow a block in place or by moving its frames, shrink it,
copy it to another address space; check memory that a process passes to the
kernel. Hard: each of them may run out of frames at any page. Correct when: blocks
are disjoint and mapped, their contents survive a move, what was given can be given
back, and memory is accepted from a process only if the process may use it.

**ELF loader** (`ku/src/process/elf.rs`). Copies the segments of a file one by one
into the kernel's space and moves their frames into the new process; neighbours
may share a page. Correct when: the process sees exactly its file, or is not made.

**Heap statistics** (`ku/src/allocator/info.rs`). Counters that CPUs update without
a common lock, each `AtomicInfo` with a sequence number for its readers. Correct
when: they add up when nobody is inside, and a reader gets a state that existed.

**SMP start** (`kernel/src/smp/`). The boot CPU starts each application CPU through
one page of low memory, hands it a `Cpu` and a stack, and waits with a timeout. A
late start is the hard case.

**Time** (`kernel/src/time/`, `ku/src/time/`). The RTC and PIT interrupt handlers
publish points that correlate a clock with the TSC; readers on other CPUs and in
user mode load them without a lock and compute the time from them. The RTC goes on
while it is read.

**Interrupts** (`kernel/src/trap/mod.rs`, `pic8259/`, `kernel/src/memory/gdt.rs`,
`tss.rs`, `stack.rs`). Stubs that build one frame for vectors with and without an
error code, nested traps, double faults of several CPUs, and two cascaded interrupt
controllers that want an end of interrupt.

**Locks** (`ku/src/sync/`). Spinlocks with two strategies after a panic, spinlocks
that keep interrupts off, and a cell that is set once.

**User log** (`ku/src/log/`, `kernel/src/log/`). A user program writes events into a
pipe of limited capacity; when it is full they are tried again after a flush, then
recorded in part, then counted, and the counts go through the same pipe.

**Console** (`text/`), **disk driver** (`kernel/src/fs/disk.rs`), **PCI** (`pci/`),
**bitmaps**, **backtraces**, **typed addresses and blocks** (`ku/src/memory/`), the
**linear mapping** of physical memory (`kernel/src/memory/phys2virt.rs`).

### How the components interact

    user programs
        | system calls, traps, timer interrupts
    Scheduling ----- uses -----> process table          (TABLE, process locks)
        | owns a mapping for each process
    page tables ---- uses -----> frame allocator        (FRAME_ALLOCATOR lock)
        ^                               ^
        | map and unmap pages           | frames for page table nodes
    heap allocators, ELF loader, BigPair

Locks are taken in the order TABLE, process, then BASE_ADDRESS_SPACE or
SCHEDULER; the frame allocator's is innermost. Nothing is persisted: the file
system stops at `unimplemented!()`. The log, the clocks and the start of the
processors are the places where parties talk without a lock.

Hazards are listed in `PROJECT.json`, each at the line where it bites and with
the properties that would catch it.

## Plan

Done, in this order: the process table and its proofs; scheduling over it; the
frame allocator and its proofs; page tables over the abstract frame allocator; one
size class of the heap; then, in a second round, addresses and blocks, the virtual
page allocator with mapped blocks, the ELF loader, the statistics of the heap, the
machines around the processors and the devices, and the remaining pure algorithms.

The proofs followed: the scheduler over the proofs of the table, the clocks, the locks,
the start of the processors, the disk driver, the heap, the user log, the traps, and the page tables, first
their shape and their reference counts, then what they map.

Next, proofs: exact reference counts also while `duplicate()` fails, up to the frames that it leaks.

Next, models: the heap variant without a cache, the windows of PCI bridges, the
calibration of the APIC timer.

## The modules

| module | what it is | code |
|---|---|---|
| `PidRegistry` | abstract: a pid is issued at most once | promise of `pid.rs`, `table.rs` |
| `ProcessTable` | the table with its free list and epochs | `table.rs`, `pid.rs` |
| `Scheduling` | CPUs, locks, user mode, system calls, traps; extends `ProcessTable` | `scheduler.rs`, `process.rs`, `syscall.rs`, `registers.rs`, `trap/mod.rs`, `smp/cpu.rs` |
| `SchedulingProofs` | the theorems about `ProcessTable` and `Scheduling` | |
| `FrameOwnership` | abstract: how many owners a frame has | promise of `frame_allocator.rs` |
| `FrameGrants` | adds the frame last handed out | |
| `FrameAllocator` | descriptors, free list, counter, two arrays | `frame_allocator.rs`, `frame_guard.rs` |
| `FrameAllocatorProofs` | its theorems | |
| `PageTables` | trees of frames, operations step by step, TLB; extends `FrameOwnership` | `mapping.rs`, `path.rs`, `address_space.rs`, `mmu.rs`, `range.rs` |
| `PageTablesProofs` | the tree and its reference counts | |
| `MappingsProofs` | what is mapped, with which rights, and the TLB; extends `PageTablesProofs` | |
| `Heap` | one size class: bitmap, slabs, clip, statistics | `dispatcher.rs`, `fixed_size.rs`, `quarry.rs`, `cache.rs`, `bitmap.rs`, `dynamic_bitmap.rs` |
| `HeapProofs` | its theorems | |
| `AllocatorInfo` | the counters of all size classes, field by field | `info.rs`, `dispatcher.rs` |
| `Addresses` | addresses, pages, frames, blocks, the split of the space; pure | `ku/src/memory/*.rs`, `range.rs` |
| `VirtualMemory` | page allocator, blocks and slices of an address space, BigAllocator; pure, with sets of outcomes; extends `Addresses` | `page_allocator.rs`, `address_space.rs`, `kernel/src/allocator/*.rs`, `ku/src/allocator/big.rs`, `dry.rs` |
| `MappedBlocks` | clients that hold blocks; extends `VirtualMemory` | `memory_allocator.rs`, `big_pair.rs` |
| `ElfLoader` | loading a file; extends `VirtualMemory` | `elf.rs`, `process/mod.rs` |
| `ApStart` | the start of the application processors | `smp/ap_init.rs`, `cpu.rs`, `mod.rs`, `local_apic.rs` |
| `Clock` | chips, handlers, lock-free readers | `time/rtc.rs`, `pit8254.rs`, `correlation_point.rs`, `correlation_interval.rs` |
| `Interrupts` | stacks of traps, double faults, PIC | `trap/mod.rs`, `pic8259/src/lib.rs` |
| `InterruptsProofs` | its theorems | |
| `Locks` | spinlocks, interrupts, OnceLock | `ku/src/sync/*.rs` |
| `SynchronizationProofs` | the theorems about `Locks` and `Clock` | |
| `UserLog` | events, fallbacks, counters, printing | `ku/src/log/mod.rs`, `kernel/src/log/mod.rs` |
| `TypedPaper` | abstract: a typewriter on a roll of paper | promise of `text/` |
| `Console` | the grid, the cursor, the serial log; implements `TypedPaper` | `text/src/*.rs` |
| `Disk` | the driver over two drives that may fail | `fs/disk.rs` |
| `DevicesProofs` | the theorems about `ApStart`, `Disk` and `UserLog` | |
| `Phys2Virt`, `DescriptorTables`, `Backtrace`, `Pci`, `Bitmap`, `Datetime` | pure algorithms | `phys2virt.rs`, `mapped_block.rs`; `gdt.rs`, `stack.rs`; `backtrace/mod.rs`; `pci/src/`; `bitmap.rs`; `correlation_interval.rs` |
| `Algorithms` | inputs of the pure algorithms and their reference definitions | |
| `MC...` | instances for TLC | |

`PROJECT.json` maps each definition to its lines. Definitions placed just before
a definition with a name like `UnmapKeepsLastSlab` are mutants: plausible mistakes that
no specification uses, kept to show that the properties notice them.

### ProcessTable

`free`, `process_count` and `table` are the fields of `Table`; a slot is
`FreeSlot(pid, next)` or `UsedSlot(pid)`, as in the enum `Slot`. `Allocate`
pops the free list, `Free` pushes a slot back with the next epoch, and
`EpochOverflow` is the panic of `Pid::next_epoch()`. `Found` is the check of
`Table::get()`. `MaxEpoch` stands for the largest epoch of the machine word.

### Scheduling

A CPU's `pc` names a point between two atomic stretches of code: it can be
interfered with at the acquisition of a spinlock and in user mode. `op` tells
on whose behalf a CPU calls `Table::get()` or `Table::free()`, so the two are
each modelled once. A process that is looked up is locked by that CPU until the
code drops the guard or `core::mem::drop`s it; where the code leaves by a
function that never returns, the guard stays and so does the lock (`ReturnUnknown`).
A trap of a process that still has the pid `Pid::Current` (`trap/mod.rs:483`), which it has
only until it is in the table, is part of `Interrupts`.
`user_context` is whose registers `Cpu::user_context` holds, `page_table_root`
is CR3, `rsp` tells the kernel stack that `switch_to()` saved from the stack of
a trap. `UserOps` and `KernelOps` choose what the user programs and the
boot CPU do. The SCHEDULER lock covers single queue operations, which are atomic
anyway.

Application processors do not reach the scheduler in this source (their
trampoline is a TODO), so runs with several CPUs check the code as it is written
for them: it takes locks and keeps its state per CPU.

### FrameOwnership, FrameGrants and FrameAllocator

`FrameOwnership` counts owners: `Acquire` (of a frame nobody owns), `Share`,
`Release`. `FrameGrants` adds `granted`, the frame that the last allocation
returned. `FrameAllocator` has `frame_info`, `free_frame`, `free_count` and `len`
(how many frames the current array describes) like the code, `pending` (regions of the memory map that are still to be
initialized), and the history variables `owners` and `granted`, which the code
does not have: callers are assumed to release only what they own, and the
history is what the counts are compared with. `EarlyReferences` lets a caller
reference, before `resize()`, a frame that only the large array will describe.

### PageTables

`memory[f]` is the content of frame `f` read as a page table node. `op` is the
running operation with what it has on its stack: the path of `map`, the stack of
recursive calls of `duplicate_subtree` and `drop_subtree`, the frame guards that
are still to be dropped. Each call of the frame allocator and each visited entry
is a step. Kernel operations on mappings are serialized by the locks of their
callers, so there is one `op`; the processor's TLB is the concurrent party.
`tlb` holds one translation: every property about it speaks of one
translation at a time, and which one it is, is nondeterministic. A block is a
sequence of pages, so `map_block` and its like are repetitions of the operations
on pages. The frame allocator appears as `FrameOwnership`;
`FrameAllocatorProofs!FramesAreExclusive` is why it may.

### Heap

Size classes share nothing but the fallback and the total statistics, so one class
is modelled. `bitmap_len`, `free` and `used` are its `DynamicBitmap`; `slabs` and `mapped`
are what the `Quarry` has reserved and mapped; a pointer is the index of its block.
`ClipPop`, `ClipIsEmpty`, `CountAllocation`, `RefillFromBitmap`, the `StockUp`
actions and `FillClip` are `fixed_size_allocate()`, cut at the acquisitions of the
two locks; the deallocation is cut in the same way. `FrameSupply` is how many
frames the fallback may have when `stock_up()` asks for some: each step of it that
maps memory may fail, after the earlier ones have taken effect. `shortage`
remembers that this has happened. Address space is not exhausted in the model,
and a clip holds fewer blocks than a slab, as in the code. `Unmap` is called when no
CPU uses the heap, which is what its assertions require.

### VirtualMemory, MappedBlocks and ElfLoader

An address space is a function from pages to `Pte(frame, flags)` and the free range
of its page allocator. Operations run under the lock of their space, so each is one
step, and what may fail in the middle is a set of outcomes: at every page the frame
for a page table node may be missing (`MaxMisses` bounds how often). The tables
themselves are `PageTables`. `AndThen` and `Then` are the `?` of Rust.
`held` is what clients own; `BlocksKeepContents` compares frames of a block before and
after, since a frame stands for its contents. In `ElfLoader` memory is a function on
bytes, each of them stale, zero or a byte of the file.

### AllocatorInfo

A call of the heap takes its memory and leaves the rest of its body as a sequence
of steps: atomic additions, critical sections, locks. `load` is a reader that
retries on an odd or changed sequence. `load.alone` remembers that no two updates
overlapped during the load, the condition under which `LoadedInfoWasTheState`
holds; without it the run `statistics_snapshot` finds a torn value.

### The machines

`ApStart`, `Clock`, `Locks`, `UserLog`, `Console`, `Disk` and `Interrupts` follow the code
access by access where nothing excludes the other party (registers of a chip,
atomics, words on a stack) and call by call under a lock. What is not code of the
repository is external: the processor's pushes and `iretq`, the drives, the RTC
chip, the pipe of the log (its own operations are `unimplemented!()`), the 16-bit boot
code (left out in the repository).

### Pure algorithms

`usize` has 256 values: pages of 2 bytes, two levels of 8 entries, halves of
64 bytes with a hole between them, so the ends of halves, of the kernel part and of
physical memory are all different and all near. A state of the part `algorithms` is one
input; the invariants compare operators with reference definitions on sets. Overflow
is checked, as the profiles of `Cargo.toml` build it, so it is a panic.

## Runs

| run | shows | bounds |
|---|---|---|
| `scheduling_one_cpu` | a freed root is not loaded, no starvation, every kernel entry completes | 1 CPU, 2 slots, 3 creations: reuse of a slot while its old pid is queued |
| `scheduling_faults` | nobody waits in a circle, no panic but the two of the findings, user mode entered cleanly, a process in one place, none lost, locks protect, contexts fresh, with unknown calls and fatal traps too | 3 CPUs, 2 slots: a CPU holding TABLE, one holding a process and one waiting |
| `page_tables` | nothing leaks or is released twice, copies faithful and independent, no stale translation | 2 mappings, 2 levels of 3 entries, 3 free frames, 3 sets of rights |
| `page_tables_oom` | memory in use is never released and nodes are never mapped, when `duplicate()` fails anywhere, with device memory, a huge page and remaps; rights are effective | 2 free frames |
| `machines` | one machine per behaviour, see below | see below |
| `memory` | one part per behaviour, see below | see below |

`machines` and `memory` join models that share no state: the variable `active` chooses
one in the initial state, the others keep their first state, so the reachable states
are the union of those of the parts and not their product.

| part of `machines` | shows | bounds |
|---|---|---|
| frames | counts exact, list exact, no panic, honest refusals, implements `FrameGrants` | 5 frames in a memory map with all kinds of regions, 4 described after `resize()`, 2 before, up to 3 owners |
| console | the screen is the end of the typed roll, the cursor follows, the boot text is logged where it stood | 3 rows of 4, tab stops every 3 columns: a tab that fits and one cut by the edge; 3 calls of texts that scroll |
| clock | dates and points are never torn, an interval is usable | 3 ticks, minutes of 2 seconds: a carry during a read |
| processors | starts do not share a page, a Cpu or a stack; the page is restored | 3 processors that start or not, one that may not; each may be late |
| log | lost events are counted, printed once or waiting | pipe of 6, events of 1, 3 and 7 (never fits), 4 events |
| locks, once | mutual exclusion, interrupts and guards, one value set | 2 CPUs with handlers, 2 nested locks; 3 setters |
| disk | success is honest, one drive works | 2 drives of 1 and 2 sectors, 3 calls, each failing or timing out |
| traps | arguments, return, one double fault, lines served | 2 CPUs, 4 vectors, 2 nested traps, a line of the second controller |
| heap | blocks have one owner and are mapped, null is honest, statistics are exact, `unmap` returns everything | 2 CPUs (the theorems are for any number), 2 slabs of 2 pages with 3 blocks (one straddles the pages), clip of 2; the fallback has 0, 1, 2 or enough frames |
| statistics | balances add up, a load is a state that was | 2 CPUs, one of 2 classes and the fallback, 3 allocations |

| part of `memory` | shows | bounds |
|---|---|---|
| processes | free list intact, refuses only when full, no pid twice | 3 slots, 2 epochs: a middle element of the list, and reuse up to overflow |
| blocks | blocks disjoint, mapped and kept; deallocation succeeds; a copied state skips what was taken | 2 spaces, 4 frames, 2 blocks held, 1 missing node |
| elf | the image is exact, or the file is refused | up to 3 segments over 3 pages, 1 missing node |
| algorithms | operators equal their definitions (`AddressesAreExact`, `TablesAreExact`, `BitmapSearchIsExact`, `DatetimeIsExact`, `BarsAreDecoded`); memory of a process is accepted only if the process may use it (`CheckedIsAccessible`); a backtrace over damaged frames ends (`BacktraceEnds`) | every byte and page of the scaled space, or those around its borders |

The other six runs are violations, described below.

A property that is a conjunction of named parts is checked under one name:

| property | parts |
|---|---|
| `EachProcessIsInOnePlace` | `AtMostOnce`, `NoProcessIsLost` |
| `ProcessesAreProtected` | `LocksProtect`, `ContextIsFresh`, types |
| `TlbIsCurrent` | `TlbIsFresh`, `TlbGrantsNoMore` |
| `MemoryIsSafe` | `ReferencesAreCovered`, `NodesAreNotMapped`, types |
| `BlocksAreUsable` | `BlocksAreExclusive`, `HandedOutIsMapped`, types |
| `HeapIsReturned` | `UnmapReleasesAll`, `NoHeapPanic` |
| `TableIsSound` | `FreeListIntact`, `RefusesOnlyWhenFull`, types |
| `AllocatorIsSound` | `CountsAreExact`, `FramesAreListed`, `NoFrameIsHonest`, `NeverPanics`, types |
| `MappedBlocksAreSound` | `MappedBlocksAreExclusive`, `DeallocationSucceeds`, `CopiedStateSkipsTaken`, the action property `BlocksKeepContents` |
| `ElfIsExact` | `ImageIsExact`, `ElfIsLoadedOrRefused` |
| `StatisticsAreHonest` | `StatisticsAddUp`, the action property `LoadedInfoWasTheState` |
| `ProcessorsStartApart` | `ApsStartApart`, `OnlyOwnCpuIsStarted`, `BootPageIsRestored` |
| `ReadersSeeWhatWas` | `DateWasShown`, `LoadedPointsWereStored`, `IntervalIsUsable` |
| `TrapsAreExact` | `TrapArgumentsAreRight`, `TrapsReturnToTheirContext`, `OneDoubleFaultIsReported`, `LinesReachTheirHandlers` |
| `LocksAreSafe` | `LocksExclude`, `HandlerNeverWaitsForItsCpu`, the action property `InterruptsFollowGuards` |
| `LogAddsUp` | `LostEventsAreCounted`, `BackupPlansAreCounted`, `EventsArePrintedOnce` |
| `ConsoleIsATypewriter` | `CursorFollowsText`, the refinement `ScreenIsTypedPaper`, the action property `BootTextIsLogged` |
| `DiskIsHonest` | `SuccessIsHonest`, `OnlySelectedDriveWorks` |
| `AddressesAreExact` | `AddressArithmeticIsExact`, `PageTableIndexesInvert`, `PageStepsAreExact`, `BlockAlgebraIsExact`, `EnclosingIsMinimal`, `SpaceIsPartitioned` |
| `TablesAreExact` | `LinearMapIsExact`, `DumpKeepsEveryPage`, `SegmentsAreApart`, `StacksAreGuarded` |

Two levels of tables are enough for every case of the recursive walks: a node
that is a root, a leaf table, an inner entry, a huge page; the code treats the
middle levels alike. Two mappings suffice because an operation deals with
at most two. Three free frames let a copy be complete while a page is mapped, and
two make every allocation fail in some behaviour. Free frames are symmetric: the
model never compares or orders them. So are the CPUs other than the boot CPU in
`scheduling_faults`, and those of the heap in `machines`. The view in `MCPageTables` leaves out the
content of frames that are in no page table; a frame is zeroed when it becomes
one, so that content is never read.

`machines`, `memory` and `scheduling_faults` turn deadlock checking off, since
there the system may stop: a part has done all its bounded calls, an epoch overflow
panics, a fatal trap, a panic in `log_value()` or a leaked lock stops CPUs (see the findings), and an assertion of
the heap fails after a shortage. That no CPU of the scheduler waits for one that waits
for it is `NobodyWaitsInACircle`.

### Fairness

For each CPU: weak fairness of its steps in the kernel (it executes
instructions), weak fairness of waking from `hlt` (the APIC timer is
periodic), strong fairness of `Preempt` (the timer interrupts user mode
repeatedly, and user code cannot mask it) and strong fairness of `Dequeue`
(`Scheduler::run()` is a loop that returns to `run_one()` and takes the head of
the queue whenever there is one; competing CPUs may empty the queue in between).
Nothing is assumed of what user programs do: they may compute forever, and the
boot CPU may never create another process.

## Findings

Each has a run in which TLC finds the violation.

* `unknown_syscall`: `syscall()` answers an unknown or unimplemented call by
  `sysret()` while the guard of the process is alive (`syscall.rs:203`). The
  process stays locked, and its next kernel entry spins forever with TABLE held.
* `fatal_trap_stack`: `generic_trap()` ends a fatal user mode trap with
  `Process::sched_yield()` (`trap/mod.rs:512`), which does not reload RSP: the
  kernel goes on on the trap's stack and fails the assertion of `switch_to()`.
* `log_value_panics`: `log_value()` passes the block that the user names to `check_permission()`
  (`syscall.rs:327`), which calls `enclosing()` (`address_space.rs:633`); for a block that ends with the
  lower half its `end_address().unwrap()` panics (`block.rs:439`), where the doc knows of `NoPage` and
  `PermissionDenied` only.
* `early_reference`: `resize()` asserts a flag that `reference()` and
  `deallocate()` never set (`frame_allocator.rs:371`), so referencing a frame
  beyond the small array before `resize()` goes unnoticed, and the frame is
  free afterwards.
* `duplicate_drops_frame_zero`: a `duplicate()` that runs out of memory drops a
  mapping whose root is frame 0 (`mapping.rs:141`).
* `statistics_snapshot`: two CPUs in `AtomicInfo::allocation()` make its sequence number
  even while both are writing (`info.rs:249`), and `load()` takes a value for which its own
  assertion `is_valid()` fails.

More behaviours that TLC finds when the constants or a condition are changed:

* with `DuplicateMayFail = TRUE`, `ReferencesAreExact` fails: a child that
  `duplicate_subtree()` has completed before the failure is never released. This
  is why `page_tables_oom` checks `ReferencesAreCovered` (in `MemoryIsSafe`), which is
  the half that protects memory in use.
* with `Remaps = {"narrow"}` and a TLB, `TlbGrantsNoMore` fails: `remap_block()`
  does not flush, so the processor may go on using rights that were taken away.
* with `Remaps = {"widen"}`, `RightsAreEffective` fails: `remap_block()` changes
  the leaf only, and rights that an inner entry denies are not granted.
* without the condition `~shortage`, `HandedOutIsMapped` fails: `stock_up()` grows the
  bitmap before it maps the blocks (`fixed_size.rs:234`), and when mapping fails
  the first allocation returns null, but later ones return blocks without memory.
* without it, `NoHeapPanic` fails: when the first `map()` of a bitmap fails, the next
  allocation calls `DynamicBitmap::reserve()` again, whose assertion fails
  (`dynamic_bitmap.rs:87`).
* with two CPUs, `LoadedRootIsLive` fails: the root of a preempted process stays in CR3
  of an idle CPU while another one destroys the process (`mapping.rs:377` looks at the
  current CPU only).

Five properties say in an antecedent of their own for which inputs the code keeps its promise. Beyond it the code
differs from its docs, and nothing is claimed of it:

| property | claimed for | beyond it |
|---|---|---|
| `ConsoleIsATypewriter` | what is shown: texts of characters up to 0xFF, of which those that are not printable show `?`; the cursor: every text | a character above 0xFF shows its low octet (`grid.rs:343`), the doc says `?` (`grid.rs:334`) |
| `ElfIsExact` | refused or loaded without a panic: files with segments in order; the image: every file | a segment out of order may panic in `extend_mapping()` (`elf.rs:283`) before `validate_order()` refuses it |
| `AddressesAreExact` | `enclosing()`: blocks that do not end with their half; `is_disjoint()`: blocks of one half | `enclosing()` panics (`block.rs:439`); `contains_address()` of a block at the end of the lower half holds for every address of the higher one (`block.rs:309`), and so does `is_user_page()` |
| `CheckedIsAccessible` | blocks that do not end with their half | the finding `log_value_panics` |
| `DatetimeIsExact` | ticks whose product fits `i64`, one tick of the clock per second | the product overflows after about 15 hours at 3 GHz (`correlation_interval.rs:82`); a fraction of a tick is added as one of a second (line 93) |

Also seen while modelling:

* memory: `unmap_one()` fails unless the element fills its pages
  (`address_space.rs:566`), `map_slice()` leaves pages mapped when it fails
  (`address_space.rs:443`), and so do `grow()` and `dry_allocate()` (`ku/src/allocator/big.rs`).
  `remap_block()` on a page that is not mapped would map it to frame 0 (`address_space.rs:398`); its contract
  (`ku/src/allocator/big.rs:183`) asks for mapped pages and its caller (`big_pair.rs:139`) keeps to it, so
  `PageTables!Remap` and `VirtualMemory!RemapBlock` are calls on mapped pages.
* ELF: the source block stays mapped after the transfer (`elf.rs:310`); a page shared by executable and writable
  segments is both.
* start: after a timeout the boot page is restored while the late processor may run in
  it (`cpu.rs:321`), and `time::delay()` ignores its duration (`ku/src/time/mod.rs:88`). All
  processors have one double fault stack.
* log: without a flush function a lost message is counted twice (`ku/src/log/mod.rs:606`), and a
  malformed event makes the kernel print the ones before it again.
* locks: `Dispatcher::unmap()` takes the clip and then the allocator (`dispatcher.rs:132`),
  `fixed_size_allocate()` the other way round; `unmap()` is called when nobody else uses the
  heap, so the two never meet. Guards of `IrqSpinlock` that are dropped out of order enable
  interrupts too early; the test of it is disabled and no code does it.
* page tables: the kernel half of a process is a snapshot of the base mapping
  (`mapping.rs:217`), and `unmap_unused_intermediate()` frees nodes without a flush
  (`mapping.rs:281`), which matters only to the paging structure caches.
* disk: after an error `wait_ready()` fails for good (`disk.rs:200`), the status is that of the
  drive selected last, an empty range means 256 sectors, and the error of the last
  written sector appears in the next call.
* PCI: a bridge's second register, if it holds a 64-bit region, makes the probe write the bus
  numbers (`device.rs:345`, the constant for bridges is unused).

## Proofs

The theorems are about every value of the constants that satisfies the
`ASSUME`s of the modules, which TLC evaluates in every run.

### The process table (`SchedulingProofs`)

The inductive invariant `TableInv` is the conjunction of `TableTypeOK`,
`SlotPids` (the pid in a slot names that slot) and `FreeListIntact`.
`FreeListIntact` says that there is a sequence without repetitions of all the
free slots, from the bottom of the list to its head `free`, in which each links
to the one below. It is stated with an existential so that it can be proved
without recursion: each action gives the witness, the old sequence without its
top for `Allocate` and with the freed slot on top for `Free`. `SlotPids` is needed because the
list is linked by pids while the table is indexed by slots.

* `TableTypeCorrect`, `FreeListAlwaysIntact`: parts of the invariant.
* `RefusalIsHonest`: an empty list means that no slot is free.
* `TableAlwaysSound`: these together, the property `TableIsSound` of the run `memory`.
* `PidsAreNeverReused`: `ProcessTable` implements `PidRegistry`. The live pids
  are those in used slots; the retired pids are those whose epoch is below
  that of their slot. Freeing increments the epoch, so a retired pid stays
  retired.

### The frame allocator (`FrameAllocatorProofs`)

The inductive invariant `AllocatorInv` is the conjunction of `AllocatorTypes`,
`Described` (which descriptors exist at which stage of initialization, and that
nobody owns what is not described), `CountsAreExact`, `FramesAreListed` and
`NeverPanics`. `FramesAreListed` again names the list as a sequence. `resize()`
is the delicate step: it keeps the descriptors and makes the rest `pending`, from
which frames are pushed one by one.

All these theorems assume `~EarlyReferences`: with early references
`CountsAreExact` is false, as the run `early_reference` shows.

* `AllocatorTypeCorrect`, `CountsAlwaysExact`, `FreeFramesAlwaysListed`,
  `AllocatorNeverPanics`: parts of the invariant.
* `RefusalIsHonest`: `NoFrame` is answered only when all described memory is
  owned.
* `AllocatorAlwaysSound`: these together, the property `AllocatorIsSound` of the run
  `machines`.
* `FramesAreExclusive`: `FrameAllocator` implements `FrameGrants`, so the page
  tables may be modelled over `FrameOwnership`.

### The scheduler (`SchedulingProofs`)

The argument has three layers, each an inductive invariant on top of the one before.

* `ControlInv`: where a CPU is in the code tells which locks it owns and which
  process it deals with. It contains `TableInv`, because a step that finds a process under
  the lock of the table relies on what the table is.
* `TokenInv`: a pid is a token that exists at most once, in the queue or in the hands of
  a CPU; only issued pids are tokens, and every live process has one. The proof first shows
  that every step does one of four things (`OnlyDeadTokensDropped`, `TakesToken`, `PutsToken`,
  `GetsNewToken`), then that each keeps the invariant.
* `UserInv`: every token is of a live process, every lock has an owner that is on its way
  to release it, user code runs with its own page tables, and nobody has panicked.

From these follow:

* `ProcessesAlwaysProtected` and `EachProcessAlwaysInOnePlace`, without any hypothesis:
  also while the kernel destroys processes that are queued or executed.
* `SchedulerUsesTable`: a behaviour of the scheduler is one of the table, so the theorems
  about the table (pids are never reused) hold under it.
* `NeverPanics`: the property `NoPanic`, which names the two panics that there are: on the stack of a fatal trap, and
  in `enclosing()` under `log_value()` (the runs `fatal_trap_stack` and `log_value_panics`). No other assertion,
  `expect()` or `unwrap()` of these paths fails. It has the hypothesis of the next two.
* `UserModeAlwaysClean` and `NobodyEverWaitsInACircle`, with the hypothesis
  `"free" \notin KernelOps`: the kernel does not itself call `Table::free()` on processes of others.
  TLC shows that `NoPanic` and `UserModeIsClean` fail with such calls: the process may be executed by another CPU meanwhile,
  which then does not find it. `NobodyWaitsInACircle` fails with such calls together with unknown system calls, whose leaked
  lock is then of a slot that has another owner. Only tests of the repository call it so; `exit()` and
  fatal traps free the process that they belong to.
* `LoadedRootAlwaysLive`, with the hypothesis `Cpus = {BootCpu}`: on two CPUs a preempted one may keep the root of
  a process that the other destroys.

`NobodyEverWaitsInACircle` is an order of the locks: the owner of
BASE_ADDRESS_SPACE waits for nobody, the owner of a process at most for BASE_ADDRESS_SPACE, the owner
of TABLE at most for a process.

### The page tables (`PageTablesProofs`)

The inductive invariant `TablesInv` names the nodes of the tables level by level (`AreLevels`) and says:

* `IsTree`: a node is a frame of main memory with exactly one owner, no node is on two levels, and the entries of
  leaf nodes are not huge.
* `Covers`: a frame has at least as many owners as users, that is entries of nodes, live mappings and guards of the
  operation in progress. Together with `IsTree` it gives the fact on which everything rests: a node has one user, so
  what a step does to a node is seen by one parent only (`NodesHaveOneUser`).
* `OpInv`: where the operation in progress is. `Path::map()` is at the node of its page; the frames on the stacks of
  `duplicate_subtree()` and `drop_subtree()` are linked by the entries they are at; the copy is empty beyond the entry it
  is at; behind the entry that `Mapping::drop()` is at nothing is linked.

`NodeLevels` and `Path` are recursive functions over the levels, about which nothing can be proved before they
are shown to exist. The library's induction theorems cannot be used for that; the least level from which no such
function exists can (lemmas `Least`, `LevelsExist`, `PathExists`). After that only their equations are used: a step
names the levels after it and they are checked against the equations (`LevelsUnique`), and a statement about all
levels is proved at the topmost level where it fails (`Topmost`).

How a step changes the number of users of a frame is a sum over what it stores, acquires and drops (`Balanced`); a
balanced step keeps `Covers`, and exactness too.

* `MemoryStaysSafe`: the property `MemoryIsSafe`, for behaviours that satisfy `FrameZeroIsUnharmed`. A
  `duplicate()` that fails drops a mapping with frame 0 as its root, as the run `duplicate_drops_frame_zero` shows;
  `FrameZeroIsUnharmed` says that at such a step frame 0 holds no entries. The contents of frame 0 are not
  assumed: on a PC the BIOS keeps data there, the first such drop releases the frames that they name, and the theorem
  speaks of the behaviour up to that step. It covers every failure of `map()`, and a failed `duplicate()` up to the
  drop of its result.
* `EmptyFrameZeroIsUnharmed`: if the boot loader leaves frame 0 empty, nothing writes to it, and every
  behaviour satisfies the condition.
* `ReferencesStayExact`: the property `ReferencesAreExact`, under the same condition and as long as no `duplicate()`
  runs out of memory half way: the error path leaks the children that were already linked.

`BootTreeAssumption` says that what the boot loader leaves is such a tree.

### What the page tables map (`MappingsProofs`)

`WalkKept` says of a page that it keeps its leaf entry and does not lose rights. A step stores to one node. A walk
that does not pass the entry stays the same, one that passes it to the same node with wider flags too
(`EditOffWalk`, `WidenedKept`). Two walks that meet in a node come from the same mapping and agree above it, since every
node on the way has one user (`Climb`); hence a leaf entry belongs to one page of one mapping
(`LeafEntriesAreApart`). `StepSpares` sums up what a step may change: nothing, one page (`map`, `unmap`, `remap_block`), or
pages of the mapping that `drop()` walks.

* `MappingsStayIndependent`: the property `MappingsAreIndependent`.
* `TlbStaysFresh`: `TlbIsFresh`, whatever `remap_block()` does, for it keeps the frame.
* `TlbStaysCurrent`: the property `TlbIsCurrent`, with the hypothesis `Remaps = {}`: `remap_block()` does not flush, so
  that the TLB may keep a right that it has taken away.
* `DuplicateStaysFaithful`: the property `DuplicateIsFaithful`. The invariant `Twin` of `duplicate_subtree()` has two
  witnesses, the nodes of the copy on each level and the original of each. Every node of the copy is on
  the stack or hangs under another one, and every entry that was dealt with is a copy of the entry of the original: a page
  of the kernel is the same, a page of the user is absent, a link goes to the copy of the child. At the end the walk of
  a page over the copy is the copy of its walk over the original (`CopiedWalk`). The code tells user pages by the flag and
  the property by the address; so the theorem has the hypothesis `FlagsAreValid` of the initial state, that
  `range::validate_page_flags()` would accept what the boot loader has mapped, and shows that this stays so.
* `RightsStayEffective`: the property `RightsAreEffective`, if it holds initially, from the
  invariant `MapsWide`: the entries that `Path::map()` has passed grant the flags it maps. With the hypothesis `"widen" \notin Remaps`, since
  `remap_block()` sets the flags of the leaf entry only.

All are about behaviours that satisfy `FrameZeroIsUnharmed`, like `MemoryStaysSafe`.

### The heap (`HeapProofs`)

The inductive invariant `HeapInv` has these parts besides the type:

* `CpuInv`: who is inside `fill_clip()` or `unfill_clip()` owns the lock, who carries a block, and that `stock_up()`
  left a free block or a class at its capacity to who is about to fill the clip.
* `BlocksAreExclusive`: callers, CPUs in the middle of a call, the clip and the bitmap split the blocks among them.
* `CountInv`: the allocations counted are the blocks of callers plus what CPUs still owe to the counter.
* `PageInv`: no page beyond the blocks counted by the bitmap is mapped. A page that `stock_up()` has
  failed to map stays unmapped, so the counter of pages can be trusted exactly where `unmap()` uses it:
  a class all of whose pages are mapped has counted them all. Without a shortage the pages, the slabs and the
  block of the bitmap follow from its length.

From it follow `BlocksAreAlwaysUsable`, `NullIsAlwaysHonest`, `StatisticsAreAlwaysExact` and
`HeapIsAlwaysReturned`, the four properties of the heap in the run `machines`, for any number of CPUs, sizes and supply of
frames. There is no hypothesis beyond the `ASSUME`s; the number of blocks and pages need not divide each other. That the
first n of a set of blocks or pages are n of them is shown by counting ranks (lemma `Ranks`), without induction.

### The clocks (`SynchronizationProofs`)

`ReadersAlwaysSeeWhatWas` is the property `ReadersSeeWhatWas` for any length of a minute, any number of ticks
and of tries. Its inductive invariant `ClockInv` has a part per participant: `ChipInv` (what
the registers hold in each phase of an update), `DateInv` (what two readings that agree can have
seen: only a minute that is about to change goes with a wrong second, and then the second
reading differs), `WriterInv` (a sequence is odd exactly while its point is written),
`ReaderInv` (as long as the sequence is the one the reader saw, so is the point) and
`TimeInv` (the base is the first valid point and time only goes on from it).

### The locks (`SynchronizationProofs`)

* `LocksAreAlwaysSafe`: the property `LocksAreSafe`, invariants and the action property on the interrupt flag, for any
  CPUs, locks and nesting. `IrqInv` says that shielded code is not interrupted and that only the outermost
  guard of the code restores the flag; `ExclusionInv` that a lock is locked exactly while one guard of it lives,
  until a panic knocks locks down.
* `OnceIsAlwaysSetOnce`: from `OnceInv`, who is inside `set()` and how far the two words of the value are written.

### The traps (`InterruptsProofs`)

`TrapsAreAlwaysExact` is the property `TrapsAreExact` for any number of CPUs, exceptions, lines and traps in
each other. Its invariant `TrapInv` has three parts:

* `FramesInv` says where every frame is. A trap but the first of a CPU interrupts `generic_trap()` of the one
  before, so its frame starts where that one ends (`Nested`), unless the gate switches to the stack
  of the IST; the stack pointer is at the end of the last frame (`Executing`); and the words of a frame are those of
  its trap (`FramesOK`). A page fault or a double fault inside of another one starts again at the top of the same
  stack and overwrites the frame there. The frame overwritten belongs to a trap under one that ends the kernel
  (`Ends`), so nobody returns to it: `FramesOK` speaks only of frames to which the CPU can still return
  (`Returns`). No CPU writes to the stacks of another (`OthersKeep`) but to the one for double faults, which is why
  `NoFault` is a hypothesis of what is said of words, as in the property.
* `ReportInv`: only who has taken `STOP_ALL_CPUS` reports a double fault, and it is never released.
* `PicInv`: with automatic end of interrupt no line is ever in service, and while a handler runs its
  line has one interrupt more delivered than counted. Interrupts are off as long as there is a trap, so handlers do
  not nest.

`ExceptionsAssumption` says that the exceptions that happen have a gate in `Idt::new()`. The processor would turn one
without a gate (21 or 29, of features that the kernel does not enable) into another exception, which is not modelled.

### The start of the processors, the disk driver and the user log (`DevicesProofs`)

* `ProcessorsAlwaysStartApart`: from `ApInv`. `PageInv` ties the page and its saved copy to the step of
  `boot_ap()`; `OwnInv` holds with timeouts too: what was not asked to start is halted, and who has passed the
  check of `set_tss()` is on its own Cpu; `AloneInv` holds until the first timeout: one processor at
  most is in the boot code, and the earlier ones run. The assumption `ApIdsAreOwn` says what the filter `usable_aps()`
  and the maximum yield for a table that lists every processor once: computing it for every table
  would need induction over the table.
* `DiskIsAlwaysHonest`: from `DiskInv`. `ChannelInv`: a drive works or has failed only as the selected one. Since
  `wait_ready()` reports an error to every later call and only a command clears it, an error is for ever, and what
  `CacheInv` and `WriteInv` say of the caches needs to hold only without one. `StepInv`: the
  driver and the drive agree on the next sector, which is why nobody has to look at DRQ.
* `LogAlwaysAddsUp`: from `LogInv`. One call of `event()` is a chain of attempts to record, so the lemmas say what each
  link (`UserEvents`, `Record`, `TryRecord`, `RecursiveEvent` and the two reports) does to the books, and the
  argument is about the chain: a failed attempt leaves nothing about its event in the pipe,
  because ids in the pipe are not newer than the last event; only an open pipe refuses a message; and the
  rollback of the statistics restores the sum of the two counters. The capacity of the pipe does not matter: which
  messages fit is left open.

## What is only model-checked

* Liveness (`QueuedProcessRuns`, `KernelEntryCompletes`): the prover handles
  neither fairness nor ENABLED.
* `PageTables`: that a `duplicate()` which finds as many free frames as the original has nodes does not run out of
  memory. `ReferencesStayExact` supposes that none does; the run `page_tables` has only such calls
  (`DuplicateMayFail = FALSE`) and no failure.
* `Console`, `MappedBlocks`, `ElfLoader`, `AllocatorInfo` and `Algorithms`: their properties
  are about sums and folds over sequences and computed tables, which
  mostly cannot be proved without induction over data.

## Not modelled

* `unimplemented!()` in the source: the system calls of process creation and
  memory (`exofork`, `map`, `unmap`, `copy_mapping`, `set_state`,
  `set_trap_handler`), pipes, `SequenceLock`, the LRU and block caches, inodes and
  with them the file system, forks in user programs.
* Register I/O in a fixed order: the serial port, the programming of the PIT and of the
  APIC timer, ACPI tables, the enumeration of the PCI bus; and the boot sequence, whose
  results are the initial states of the modules.
* Formatting and wording of the log, symbols of backtraces, macros: no property
  here is about them.
* The paging structure caches of the processor (only final translations are
  cached), weak memory order (x86 keeps the accesses that the models order, the
  locks of the source order the rest), the contents of memory outside of page tables,
  ELF images and stacks.
* User programs: what they can do to the kernel is the nondeterminism of `Scheduling`,
  `UserLog` and `Algorithms`.
