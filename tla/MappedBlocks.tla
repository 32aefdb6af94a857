---------------------------- MODULE MappedBlocks ----------------------------
(***************************************************************************)
(* The clients of the page-granular allocators: threads that allocate,     *)
(* grow, shrink and free mapped blocks through MemoryAllocator             *)
(* (kernel/src/allocator/memory_allocator.rs), each call under the lock of *)
(* the address space, and a space whose page allocator is a duplicate of   *)
(* another one's.                                                          *)
(***************************************************************************)
EXTENDS VirtualMemory

CONSTANTS BlockSizes,   \* layout sizes asked for, in bytes
          BlockAligns,  \* layout alignments asked for
          SliceLayouts, \* [element, len] of slices: the size of an element in bytes, the number
          FixedPages,   \* pages that are reserved by their number
          OwnFlags,     \* flags of the allocators that are used
          BaseSpace,    \* the space all calls but allocations are made in
          PresentRoots, \* root entries in use when the system starts
          MaxHeld,      \* bound on blocks held at once
          MaxMisses     \* bound on page table nodes that find no frame

VARIABLES memory,       \* as VirtualMemory describes it
          held,         \* blocks the clients own: [space, own, block]
          copied,       \* <<space, blocks held in the original>> of the last copied state
          allocPanic    \* dry_deallocate() failed an expect()

blockVars == <<memory, held, copied, allocPanic>>

\* memory::init() and AddressSpace::new(): the allocators of an empty lower half.
BlocksInit ==
    /\ memory = [alloc |-> [a \in Spaces \cup {"kernel"} |->
                               NewPageAllocator(PresentRoots, IF a = "kernel" THEN KernelRootEntries
                                                              ELSE UserRootEntries).value],
                 pte |-> [s \in Spaces |-> [p \in PageNumbers |-> NoPte]],
                 data |-> <<>>, misses |-> MaxMisses]
    /\ held = {}
    /\ copied = <<>>
    /\ allocPanic = FALSE

Held(s, own, b) == [space |-> s, own |-> own, block |-> b]

\* MemoryAllocator::allocate() and allocate_zeroed()
AllocateBlock(s, own, size, align) ==
    /\ Cardinality(held) < MaxHeld /\ ("U" \in own \/ s = BaseSpace)
    /\ \E o \in DryAllocate(memory, s, own, size, align) :
         /\ memory' = o.memory
         /\ held' = held \cup (IF o.ok THEN {Held(s, own, o.value)} ELSE {})
    /\ UNCHANGED <<copied, allocPanic>>

\* MemoryAllocator::deallocate()
DeallocateBlock(h) ==
    /\ \E o \in DryDeallocate(memory, h.space, h.block) :
         /\ memory' = o.memory
         /\ allocPanic' = (allocPanic \/ ~o.ok)
    /\ held' = held \ {h}
    /\ UNCHANGED copied

\* MemoryAllocator::grow() and grow_zeroed(): on an error the caller keeps the old block.
GrowBlock(h, size, align) ==
    /\ size >= SizeOf(Pages, h.block) /\ h.space = BaseSpace
    /\ \E o \in DryGrow(memory, h.space, h.own, h.block, size, align) :
         /\ memory' = o.memory
         /\ held' = IF o.ok THEN (held \ {h}) \cup {Held(h.space, h.own, o.value)} ELSE held
    /\ UNCHANGED <<copied, allocPanic>>

\* MemoryAllocator::shrink()
ShrinkBlock(h, size) ==
    /\ size <= SizeOf(Pages, h.block) /\ h.space = BaseSpace
    /\ \E o \in DryShrink(memory, h.space, h.block, size) :
         /\ memory' = o.memory
         /\ held' = IF o.ok THEN (held \ {h}) \cup {Held(h.space, h.own, o.value)} ELSE held
    /\ UNCHANGED <<copied, allocPanic>>

\* AddressSpace::reserve() of a fixed block, then map_block().
ReserveBlock(s, own, b) ==
    /\ Cardinality(held) < MaxHeld /\ ("U" \in own \/ s = BaseSpace)
    /\ \E o \in Then(ReserveFixed(memory, s, b, own), LAMBDA x : MapBlock(x.memory, s, b, own)) :
         /\ memory' = o.memory
         /\ held' = held \cup (IF o.ok THEN {Held(s, own, b)} ELSE {})
    /\ UNCHANGED <<copied, allocPanic>>

\* AddressSpace::map_slice*() and map_one() of elements of this size.
MapElements(s, own, element, len) ==
    /\ Cardinality(held) < MaxHeld /\ ("U" \in own \/ s = BaseSpace)
    /\ \E o \in MapSlice(memory, s, element, 1, len, own) :
         /\ memory' = o.memory
         /\ held' = held \cup (IF o.ok THEN {Held(s, own, o.value)} ELSE {})
    /\ UNCHANGED <<copied, allocPanic>>

\* AddressSpace::unmap_slice() of a whole slice, or unmap_one() of its first element.
UnmapElements(h, bytes) ==
    /\ bytes <= SizeOf(Pages, h.block)
    /\ \E o \in UnmapSlice(memory, h.space, h.block, bytes) :
         /\ memory' = o.memory
         /\ held' = IF o.ok THEN held \ {h} ELSE held
    /\ UNCHANGED <<copied, allocPanic>>

\* AddressSpace::duplicate() sets up the allocator of an unused space t, and
\* AddressSpace::duplicate_allocator_state() later brings it to the state of s.
DuplicateSpace(s, t) ==
    /\ s # t /\ \A h \in held : h.space # t
    /\ memory' = [memory EXCEPT !.alloc[t] = DuplicatePageAllocator(memory.alloc[s]),
                                !.pte[t] = [p \in PageNumbers |-> NoPte]]
    /\ copied' = <<>>
    /\ UNCHANGED <<held, allocPanic>>

CopyAllocatorState(s, t) ==
    LET r == DuplicateAllocatorState(memory.alloc[t], memory.alloc[s]) IN
    /\ s # t /\ r.ok
    /\ memory' = [memory EXCEPT !.alloc[t] = r.value]
    /\ copied' = <<t, {h.block : h \in {x \in held : x.space = s /\ "U" \in x.own}}>>
    /\ UNCHANGED <<held, allocPanic>>

BlocksNext ==
    \/ \E s \in Spaces, own \in OwnFlags, size \in BlockSizes, align \in BlockAligns :
          AllocateBlock(s, own, size, align)
    \/ \E h \in held : \/ DeallocateBlock(h)
                       \/ \E size \in BlockSizes, align \in BlockAligns : GrowBlock(h, size, align)
                       \/ \E size \in BlockSizes : ShrinkBlock(h, size)
                       \/ \E bytes \in {l.element : l \in SliceLayouts} \cup {SizeOf(Pages, h.block)} : UnmapElements(h, bytes)
    \/ \E own \in OwnFlags, l \in SliceLayouts : MapElements(BaseSpace, own, l.element, l.len)
    \/ \E own \in OwnFlags, p \in FixedPages : ReserveBlock(BaseSpace, own, Block(p, p + 1))
    \/ \E t \in Spaces : DuplicateSpace(BaseSpace, t) \/ CopyAllocatorState(BaseSpace, t)

-----------------------------------------------------------------------------
FramesOf(h) == [i \in 1 .. Count(h.block) |-> memory.pte[h.space][h.block.start + i - 1].frame]

\* Allocator contract: the blocks of an address space never overlap, every page of them
\* is mapped with the flags of its allocator, no two pages of held blocks share a frame,
\* and no page of them can be handed out again - whatever failed half way before.
MappedBlocksAreExclusive ==
    /\ \A h \in held :
         /\ \A p \in IndexSet(h.block) : IsMapped(memory, h.space, p) /\ h.own \subseteq memory.pte[h.space][p].flags
         /\ IndexSet(h.block) \cap IndexSet(memory.alloc[IF "U" \in h.own THEN h.space ELSE "kernel"].free) = {}
    /\ \A h, g \in held : h # g =>
         /\ h.space = g.space \/ "U" \notin h.own \cup g.own => IndexSet(h.block) \cap IndexSet(g.block) = {}
         /\ Range(FramesOf(h)) \cap Range(FramesOf(g)) = {}

\* dry_deallocate() never fails an expect() on a block its allocator returned.
DeallocationSucceeds == ~allocPanic

\* A grown block keeps the frames, so the contents, of the old one as its head, moved or not;
\* a call that fails leaves every held block with the frames it had.
ContentsSurvive ==
    \A h \in held :
       \/ \E g \in held' :
            /\ g.space = h.space
            /\ \A i \in 1 .. Min({Count(h.block), Count(g.block)}) : FramesOf(h)[i] = FramesOf(g)'[i]
            /\ h \in held' => g = h
       \/ held' = held \ {h}
BlocksKeepContents == [][ContentsSurvive]_blockVars

\* AddressSpace::duplicate_allocator_state(): afterwards the copy gives out no page
\* that was taken in the original.
CopiedStateSkipsTaken ==
    copied # <<>> =>
       \A b \in copied[2] : IndexSet(b) \cap IndexSet(memory.alloc[copied[1]].free) = {}

\* The contract of MemoryAllocator: blocks of their own that are mapped, can be given back, and
\* keep their contents when they grow, shrink and move, whatever map() failed half way.
MappedBlocksAreSound ==
    /\ [](MappedBlocksAreExclusive /\ DeallocationSucceeds /\ CopiedStateSkipsTaken)
    /\ BlocksKeepContents
=============================================================================
