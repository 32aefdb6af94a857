-------------------------------- MODULE Heap --------------------------------
(***************************************************************************)
(* One size class of the heap: ku/src/allocator/dispatcher.rs, cache.rs,   *)
(* fixed_size.rs, quarry.rs and ku/src/collections/dynamic_bitmap.rs, with *)
(* the GlobalCache of the kernel and the feature allocator-statistics.     *)
(*                                                                         *)
(* The allocator of a class is a bitmap over equal blocks of memory, cut   *)
(* from slabs that are reserved in the address space as a whole and mapped *)
(* page by page as the bitmap grows.  A clip caches pointers in front of   *)
(* it.  The allocator and the clip have a spinlock each.  A step of a CPU  *)
(* is what it does between two acquisitions; no step waits with the clip   *)
(* locked, so only the lock of the allocator has an owner between steps.   *)
(*                                                                         *)
(* A pointer is the index of its block.  Reserving address space succeeds; *)
(* mapping takes physical frames, of which the fallback may run out.       *)
(***************************************************************************)
EXTENDS Integers, FiniteSets, SequencesExt

CONSTANTS Cpus,
          Nothing,        \* nobody, and no pointer
          Size,           \* bytes of a block
          PageSize,       \* Page::SIZE
          SlabPageCount,  \* Quarry::SLAB_PAGE_COUNT
          SlabCount,      \* Quarry::SLAB_COUNT
          ClipSize,       \* CLIP_SIZE
          BitsPerPage,    \* bits of a bitmap in a page
          FrameSupply     \* how many free frames the fallback may have

ASSUME SizesAssumption ==
    /\ {Size, PageSize, SlabPageCount, SlabCount, ClipSize, BitsPerPage} \subseteq Nat \ {0}
    /\ ClipSize > 1 /\ ClipSize <= BitsPerPage
    /\ ClipSize * Size < SlabPageCount * PageSize
ASSUME SupplyAssumption == FrameSupply \subseteq Nat
ASSUME HeapCpusAssumption == IsFiniteSet(Cpus) /\ Nothing \notin Cpus /\ Nothing \notin Nat

VARIABLES bitmap_len,     \* bitmap.len()
          free,           \* bitmap.free()
          used,           \* the bits of the bitmap that are set
          bitmap_block,   \* whether the pages of the bitmap are reserved
          quarry,         \* whether FixedSizeAllocator::quarry is Some
          slabs,          \* the slabs that are reserved
          mapped,         \* the pages of slabs that are mapped: <<slab, page>>
          clip,           \* Clip::allocations
          allocator_lock, \* owner of Dispatcher::fixed_size[index]
          info,           \* FixedSizeAllocator::info; Dispatcher::info follows it
          pc,             \* where each CPU is
          ptr,            \* the block it deals with
          held,           \* blocks that the callers of alloc() have
          shortage,       \* whether the fallback has ever run out of frames
          heap_panicked

bitmapVars == <<bitmap_len, free, used, bitmap_block>>
quarryVars == <<quarry, slabs, mapped>>
cpuVars == <<pc, ptr>>
heapVars == <<bitmapVars, quarryVars, info, cpuVars, clip, allocator_lock, held,
              shortage, heap_panicked>>

CeilDiv(a, b) == (a + b - 1) \div b

SlabBlocks == (SlabPageCount * PageSize) \div Size
Capacity == SlabBlocks * SlabCount
Blocks == 0 .. Capacity - 1
SlabPages == (0 .. SlabCount - 1) \X (0 .. SlabPageCount - 1)
Balances == [allocations |-> 0, pages |-> 0]

HeapInit ==
    /\ bitmap_len = 0 /\ free = 0 /\ used = {}
    /\ bitmap_block = FALSE
    /\ quarry = FALSE /\ slabs = {} /\ mapped = {}
    /\ clip = <<>>
    /\ allocator_lock = Nothing
    /\ info = Balances
    /\ pc = [c \in Cpus |-> "idle"]
    /\ ptr = [c \in Cpus |-> Nothing]
    /\ held = {}
    /\ shortage = FALSE
    /\ heap_panicked = FALSE
-----------------------------------------------------------------------------
(***************************************************************************)
(* Quarry                                                                  *)
(***************************************************************************)
SlabOf(block) == block \div SlabBlocks

\* Quarry::slab_page_count()
SlabPageCountOf(count) == CeilDiv(count * Size, PageSize)

\* Slabs that `count' blocks touch.
SlabsFor(count) == 0 .. CeilDiv(count, SlabBlocks) - 1

\* Pages that Quarry::map() keeps mapped for `count' blocks: a slab whose
\* blocks are all in use is mapped as a whole.
PagesFor(count) ==
    {q \in SlabPages :
        \/ q[1] < count \div SlabBlocks
        \/ /\ q[1] = count \div SlabBlocks
           /\ q[2] < SlabPageCountOf(count % SlabBlocks)}

\* The pages that hold the bytes of a block.
PagesOf(block) ==
    LET first == (block % SlabBlocks) * Size
    IN  {q \in SlabPages : /\ q[1] = SlabOf(block)
                           /\ q[2] \in first \div PageSize .. (first + Size - 1) \div PageSize}

Before(p, q) == p[1] < q[1] \/ (p[1] = q[1] /\ p[2] < q[2])

\* The first `count' elements of a set of pages: map_block() and unmap_block()
\* go through the pages in order and stop at the first error.
FirstPages(pages, count) ==
    {q \in pages : Cardinality({p \in pages : Before(p, q)}) < count}

\* DynamicBitmap::page_count()
BitmapPages(count) == CeilDiv(count, BitsPerPage)

(***************************************************************************)
(* Dispatcher::fixed_size_allocate(): the clip first                       *)
(***************************************************************************)
ClipPop(c) ==
    /\ pc[c] = "idle"
    /\ clip # <<>>
    /\ ptr' = [ptr EXCEPT ![c] = Last(clip)]
    /\ clip' = Front(clip)
    /\ pc' = [pc EXCEPT ![c] = "count_allocation"]
    /\ UNCHANGED <<bitmapVars, quarryVars, info, allocator_lock, held, shortage, heap_panicked>>

ClipIsEmpty(c) ==
    /\ pc[c] = "idle"
    /\ clip = <<>>
    /\ pc' = [pc EXCEPT ![c] = "refill"]
    /\ UNCHANGED <<bitmapVars, quarryVars, info, ptr, clip, allocator_lock, held,
                   shortage, heap_panicked>>

Counted(i, allocations, pages) ==
    [allocations |-> i.allocations + allocations, pages |-> i.pages + pages]

CountAllocation(c) ==
    /\ pc[c] = "count_allocation"
    /\ allocator_lock = Nothing
    /\ info' = Counted(info, 1, 0)
    /\ held' = held \cup {ptr[c]}
    /\ pc' = [pc EXCEPT ![c] = "idle"]
    /\ ptr' = [ptr EXCEPT ![c] = Nothing]
    /\ UNCHANGED <<bitmapVars, quarryVars, clip, allocator_lock, shortage, heap_panicked>>

(***************************************************************************)
(* The clip is empty: FixedSizeAllocator::stock_up() unless the bitmap has *)
(* free bits, with the allocator locked until the clip is refilled.        *)
(***************************************************************************)
RefillFromBitmap(c) ==
    /\ pc[c] = "refill"
    /\ allocator_lock = Nothing
    /\ free > 0
    /\ allocator_lock' = c
    /\ pc' = [pc EXCEPT ![c] = "fill"]
    /\ UNCHANGED <<bitmapVars, quarryVars, info, ptr, clip, held, shortage, heap_panicked>>

\* Mutant of Stocked: the limit is never reached.
StockedBelowCapacity == IF bitmap_len + ClipSize < Capacity THEN bitmap_len + ClipSize ELSE bitmap_len

\* new_allocation_count of stock_up()
Stocked == Min({bitmap_len + ClipSize, Capacity})
StocksUp(c) == pc[c] = "refill" /\ allocator_lock = Nothing /\ free = 0

\* All the slabs are in use: Ok(0).
StockUpAtCapacity(c) ==
    /\ StocksUp(c)
    /\ Stocked = bitmap_len
    /\ quarry' = TRUE
    /\ allocator_lock' = c
    /\ pc' = [pc EXCEPT ![c] = "fill"]
    /\ UNCHANGED <<bitmapVars, slabs, mapped, info, ptr, clip, held, shortage, heap_panicked>>

\* DynamicBitmap::reserve() is called once more after the map() that followed
\* it has failed.
StockUpReservesTwice(c) ==
    /\ StocksUp(c)
    /\ bitmap_len = 0 /\ bitmap_block
    /\ heap_panicked' = TRUE
    /\ UNCHANGED <<bitmapVars, quarryVars, info, pc, ptr, clip, allocator_lock, held,
                   shortage>>

\* alloc() returns null.
ReturnsNull(c) ==
    /\ pc' = [pc EXCEPT ![c] = "idle"]
    /\ UNCHANGED allocator_lock

NewBitmapPages == BitmapPages(Stocked) - BitmapPages(bitmap_len)
NewSlabPages == PagesFor(Stocked) \ PagesFor(bitmap_len)

CanGrow(c) ==
    /\ StocksUp(c)
    /\ Stocked > bitmap_len
    /\ bitmap_len = 0 => ~bitmap_block
    /\ bitmap_block' = TRUE
    /\ quarry' = TRUE
    /\ UNCHANGED <<ptr, clip, held, heap_panicked>>

\* DynamicBitmap::map() fails.
StockUpNoBitmap(c, supply) ==
    /\ CanGrow(c)
    /\ supply < NewBitmapPages
    /\ shortage' = TRUE
    /\ ReturnsNull(c)
    /\ UNCHANGED <<bitmap_len, free, used, slabs, mapped, info>>

GrowBitmap ==
    /\ bitmap_len' = Stocked
    /\ free' = free + Stocked - bitmap_len
    /\ UNCHANGED used

\* Quarry::map() fails after the bitmap has grown and the slabs are reserved.
StockUpNoFrame(c, supply) ==
    /\ CanGrow(c)
    /\ GrowBitmap
    /\ supply \in NewBitmapPages .. NewBitmapPages + Cardinality(NewSlabPages) - 1
    /\ slabs' = slabs \cup (SlabsFor(Stocked) \ SlabsFor(bitmap_len))
    /\ mapped' = mapped \cup FirstPages(NewSlabPages, supply - NewBitmapPages)
    /\ shortage' = TRUE
    /\ ReturnsNull(c)
    /\ UNCHANGED info

StockUp(c, supply) ==
    /\ CanGrow(c)
    /\ GrowBitmap
    /\ supply >= NewBitmapPages + Cardinality(NewSlabPages)
    /\ slabs' = slabs \cup (SlabsFor(Stocked) \ SlabsFor(bitmap_len))
    /\ mapped' = mapped \cup NewSlabPages
    /\ info' = Counted(info, 0, NewBitmapPages + Cardinality(NewSlabPages))
    /\ allocator_lock' = c
    /\ pc' = [pc EXCEPT ![c] = "fill"]
    /\ UNCHANGED shortage

(***************************************************************************)
(* FixedSizeAllocator::fill_clip() and a second attempt to pop.  A block   *)
(* whose slab has no address goes back to the bitmap.  Which of the free   *)
(* bits Bitmap::allocate() finds first, and the order in which they come   *)
(* into the clip, do not matter here.                                      *)
(***************************************************************************)
FreeBits == {i \in 0 .. bitmap_len - 1 : i \notin used}

Taken ==
    LET count == Max({ClipSize \div 2 - Len(clip), 0})
    IN  {i \in FreeBits : Cardinality({j \in FreeBits : j < i}) < Min({count, free})}

Filling == {i \in Taken : SlabOf(i) \in slabs}
Filled == clip \o SetToSeq(Filling)

FillClip(c) ==
    /\ pc[c] = "fill"
    /\ Filled # <<>>
    /\ used' = used \cup Filling
    /\ free' = free - Cardinality(Filling)
    /\ clip' = Front(Filled)
    /\ held' = held \cup {Last(Filled)}
    /\ info' = Counted(info, 1, 0)
    /\ allocator_lock' = Nothing
    /\ pc' = [pc EXCEPT ![c] = "idle"]
    /\ UNCHANGED <<bitmap_len, bitmap_block, quarryVars, ptr, shortage, heap_panicked>>

FillFindsNothing(c) ==
    /\ pc[c] = "fill"
    /\ Filled = <<>>
    /\ allocator_lock' = Nothing
    /\ pc' = [pc EXCEPT ![c] = "idle"]
    /\ UNCHANGED <<bitmapVars, quarryVars, info, ptr, clip, held, shortage, heap_panicked>>

(***************************************************************************)
(* Dispatcher::fixed_size_deallocate(): the clip first                     *)
(***************************************************************************)
ClipPush(c, block) ==
    /\ pc[c] = "idle"
    /\ block \in held
    /\ Len(clip) < ClipSize
    /\ clip' = Append(clip, block)
    /\ held' = held \ {block}
    /\ pc' = [pc EXCEPT ![c] = "count_deallocation"]
    /\ UNCHANGED <<bitmapVars, quarryVars, info, ptr, allocator_lock, shortage, heap_panicked>>

CountDeallocation(c) ==
    /\ pc[c] = "count_deallocation"
    /\ allocator_lock = Nothing
    /\ info' = Counted(info, -1, 0)
    /\ pc' = [pc EXCEPT ![c] = "idle"]
    /\ UNCHANGED <<bitmapVars, quarryVars, ptr, clip, allocator_lock, held, shortage,
                   heap_panicked>>

ClipIsFull(c, block) ==
    /\ pc[c] = "idle"
    /\ block \in held
    /\ Len(clip) = ClipSize
    /\ ptr' = [ptr EXCEPT ![c] = block]
    /\ held' = held \ {block}
    /\ pc' = [pc EXCEPT ![c] = "spill"]
    /\ UNCHANGED <<bitmapVars, quarryVars, info, clip, allocator_lock, shortage, heap_panicked>>

LockToUnfill(c) ==
    /\ pc[c] = "spill"
    /\ allocator_lock = Nothing
    /\ allocator_lock' = c
    /\ pc' = [pc EXCEPT ![c] = "unfill"]
    /\ UNCHANGED <<bitmapVars, quarryVars, info, ptr, clip, held, shortage, heap_panicked>>

\* FixedSizeAllocator::deallocate_impl() of several blocks: it panics when one
\* is in no slab or is free already.
DeallocateImpl(blocks) ==
    /\ heap_panicked' = (\E b \in blocks : b \notin used \/ SlabOf(b) \notin slabs)
    /\ used' = used \ blocks
    /\ free' = free + Cardinality(blocks)

Kept == SubSeq(clip, 1, Min({Len(clip), ClipSize \div 2}))
Spilled == {clip[i] : i \in Len(Kept) + 1 .. Len(clip)}

UnfillReturning(c, blocks, counted) ==
    /\ pc[c] = "unfill"
    /\ DeallocateImpl(blocks)
    /\ clip' = Append(Kept, ptr[c])
    /\ info' = Counted(info, -counted, 0)
    /\ ptr' = [ptr EXCEPT ![c] = Nothing]
    /\ allocator_lock' = Nothing
    /\ pc' = [pc EXCEPT ![c] = "idle"]
    /\ UNCHANGED <<bitmap_len, bitmap_block, quarryVars, held, shortage>>

\* Mutants of UnfillClip: the new block is returned to the bitmap as well, and
\* the slow path has no statistics.
UnfillReturnsNewBlock(c) == UnfillReturning(c, Spilled \cup {ptr[c]}, 1)
UnfillWithoutStatistics(c) == UnfillReturning(c, Spilled, 0)

\* FixedSizeAllocator::unfill_clip() to the half, then the block has a place.
UnfillClip(c) == UnfillReturning(c, Spilled, 1)

(***************************************************************************)
(* Dispatcher::unmap(), which its caller calls when nobody uses the heap:  *)
(* the clip is emptied, then FixedSizeAllocator::unmap().                  *)
(***************************************************************************)
Unused == held = {} /\ \A c \in Cpus : pc[c] = "idle"

\* Quarry::unmap() and DynamicBitmap::unmap() succeed.  The bitmap has to be
\* free, its statistics too, and the dropped Quarry must have no slabs.
UnmapsAll == quarry => PagesFor(bitmap_len) \subseteq mapped

UnmapReturning(blocks, released) ==
    /\ Unused
    /\ UnmapsAll
    /\ LET pages == Cardinality(PagesFor(bitmap_len)) + BitmapPages(bitmap_len)
       IN  /\ info' = Counted(info, 0, -pages)
           /\ heap_panicked' = \/ info.allocations # 0
                               \/ \E b \in blocks : b \notin used
                               \/ used \ blocks # {}
                               \/ slabs # released
                               \/ info.pages # pages
    /\ bitmap_len' = 0 /\ free' = 0 /\ used' = {}
    /\ bitmap_block' = (bitmap_block /\ bitmap_len = 0)
    /\ quarry' = FALSE
    /\ slabs' = slabs \ released
    /\ mapped' = mapped \ PagesFor(bitmap_len)
    /\ clip' = <<>>
    /\ UNCHANGED <<pc, ptr, allocator_lock, held, shortage>>

\* Mutant of Unmap: a slab that is not used up is not returned.
UnmapKeepsLastSlab == UnmapReturning(Range(clip), 0 .. bitmap_len \div SlabBlocks - 1)

Unmap == UnmapReturning(Range(clip), SlabsFor(bitmap_len))

\* Quarry::unmap() stops at the first page that is not mapped; the error is
\* dropped, and the pages that are still counted fail the last assertion.
UnmapFails ==
    /\ Unused
    /\ ~UnmapsAll
    /\ LET missing == PagesFor(bitmap_len) \ mapped
           freed == {q \in PagesFor(bitmap_len) : \A p \in missing : Before(q, p)}
       IN  /\ mapped' = mapped \ freed
           /\ slabs' = slabs \ {s \in slabs : \A p \in missing : s < p[1]}
    /\ used' = used \ Range(clip)
    /\ free' = free + Len(clip)
    /\ clip' = <<>>
    /\ heap_panicked' = (info.pages # 0 \/ info.allocations # 0)
    /\ UNCHANGED <<bitmap_len, bitmap_block, quarry, info, pc, ptr, allocator_lock, held, shortage>>
-----------------------------------------------------------------------------
HeapNext ==
    /\ ~heap_panicked
    /\ \/ \E c \in Cpus :
           \/ ClipPop(c) \/ ClipIsEmpty(c) \/ CountAllocation(c)
           \/ RefillFromBitmap(c) \/ StockUpAtCapacity(c) \/ StockUpReservesTwice(c)
           \/ \E supply \in FrameSupply :
                 StockUpNoBitmap(c, supply) \/ StockUpNoFrame(c, supply) \/ StockUp(c, supply)
           \/ FillClip(c) \/ FillFindsNothing(c)
           \/ \E b \in held : ClipPush(c, b) \/ ClipIsFull(c, b)
           \/ CountDeallocation(c) \/ LockToUnfill(c) \/ UnfillClip(c)
       \/ Unmap
       \/ UnmapFails

HeapSpec == HeapInit /\ [][HeapNext]_heapVars
-----------------------------------------------------------------------------
Places == {"idle", "count_allocation", "refill", "fill", "count_deallocation", "spill",
           "unfill"}

\* Type invariant of FixedSizeAllocator, Clip and Dispatcher.
HeapTypeOK ==
    /\ bitmap_len \in 0 .. Capacity /\ free \in 0 .. bitmap_len /\ used \subseteq 0 .. bitmap_len - 1
    /\ bitmap_block \in BOOLEAN /\ quarry \in BOOLEAN
    /\ slabs \subseteq 0 .. SlabCount - 1 /\ mapped \subseteq SlabPages
    /\ clip \in Seq(Blocks) /\ Len(clip) <= ClipSize
    /\ allocator_lock \in Cpus \cup {Nothing}
    /\ info \in [allocations : Nat, pages : Nat]
    /\ pc \in [Cpus -> Places]
    /\ ptr \in [Cpus -> Blocks \cup {Nothing}]
    /\ held \subseteq Blocks
    /\ shortage \in BOOLEAN /\ heap_panicked \in BOOLEAN

InFlight == {ptr[c] : c \in Cpus} \ {Nothing}

\* A block is in one place: with a caller of alloc(), in the clip once, or on
\* its way through fixed_size_allocate() or fixed_size_deallocate() on one CPU;
\* and the bitmap has exactly these blocks as used.  So no block is handed out
\* twice or lost, whether or not the fallback runs out of memory.
BlocksAreExclusive ==
    ~heap_panicked =>
    /\ IsInjective(clip)
    /\ \A c, d \in Cpus : ptr[c] = ptr[d] /\ ptr[c] # Nothing => c = d
    /\ held \cap Range(clip) = {} /\ held \cap InFlight = {}
    /\ InFlight \cap Range(clip) = {}
    /\ used = held \cup InFlight \cup Range(clip)
    /\ free = bitmap_len - Cardinality(used)

\* What alloc() returns is memory: all the pages of a block that a caller has
\* are mapped, as long as stock_up() has not failed.
HandedOutIsMapped ==
    ~shortage => \A b \in held : PagesOf(b) \subseteq mapped

\* fixed_size_allocate() returns null only when every block of the class is
\* in use, or when the fallback has run out of memory.
NullIsHonest ==
    (\E c \in Cpus : pc[c] = "fill" /\ Filled = <<>>)
        => shortage \/ held \cup InFlight = Blocks

\* The statistics of the class count the blocks of the callers and those whose
\* deallocation is not complete, and all the mapped pages.
StatisticsAreExact ==
    ~heap_panicked =>
    /\ info.allocations = Cardinality(held)
          + Cardinality({c \in Cpus : pc[c] \in {"count_deallocation", "spill", "unfill"}})
    /\ ~shortage => info.pages = Cardinality(mapped) + BitmapPages(bitmap_len)

\* After Dispatcher::unmap() neither memory nor address space is left, and the
\* class can be used again.
UnmapReleasesAll ==
    ~quarry /\ ~shortage => mapped = {} /\ slabs = {} /\ ~bitmap_block /\ bitmap_len = 0

\* No assertion of the heap fails as long as the fallback has memory.
NoHeapPanic == ~shortage => ~heap_panicked

\* A block that alloc() returned belongs to its caller only, and all of it is mapped.
BlocksAreUsable == HeapTypeOK /\ BlocksAreExclusive /\ HandedOutIsMapped

\* Dispatcher::unmap() finds every block back and returns all the memory, and no assertion of the
\* heap fails, unless the fallback has run out of memory.
HeapIsReturned == UnmapReleasesAll /\ NoHeapPanic
=============================================================================
