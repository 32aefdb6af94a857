--------------------------- MODULE VirtualMemory ---------------------------
(***************************************************************************)
(* Virtual pages and blocks of mapped pages: the page allocator            *)
(* (kernel/src/memory/page_allocator.rs), the block operations of an       *)
(* address space (address_space.rs), BigPair, Big and MemoryAllocator      *)
(* (kernel/src/allocator/) and the provided methods of BigAllocator and    *)
(* DryAllocator (ku/src/allocator/big.rs).                                 *)
(*                                                                         *)
(* Every operation runs under the lock of its address space, so it is one  *)
(* step here.  What may fail half way through is a set of outcomes: page   *)
(* table nodes are not kept (PageTables models them), but the frame for    *)
(* one may be missing at any page.                                         *)
(***************************************************************************)
EXTENDS Addresses, SequencesExt

CONSTANTS MemoryFrames,  \* physical frames, natural numbers
          Spaces,        \* address spaces
          GuardPages     \* Stack::GUARD_ZONE_SIZE in pages

NoPte == [frame |-> 0, flags |-> {}]
Pte(frame, flags) == [frame |-> frame, flags |-> flags]

\* A memory m is [alloc, pte, data, misses]: the page allocators ("kernel" and the user part
\* of each space), the leaf entries of each space, the contents of the frames, and the bound
\* on how many more times the frame for a page table node is missing.
PageNumbers == 0 .. LowerHalfEnd - 1
IsMapped(m, s, p) == m.pte[s][p] # NoPte
UsedFrames(m) == {m.pte[s][p].frame : s \in Spaces, p \in PageNumbers} \ {0}
FreeFrames(m) == MemoryFrames \ UsedFrames(m)

Outcome(ok, m, v) == [ok |-> ok, memory |-> m, value |-> v]
Done(m, v) == {Outcome(TRUE, m, v)}
Failed(m) == {Outcome(FALSE, m, ZeroBlock)}
Then(outs, f(_)) == UNION {IF o.ok THEN f(o) ELSE {o} : o \in outs}

-----------------------------------------------------------------------------
(* The page allocator *)

\* PageAllocator::find_unused_block(): the first longest run of empty root entries.
FindUnusedBlock(present, allowed) ==
    LET Run(i, n) == /\ i + n - 1 \in allowed
                     /\ \A j \in i .. i + n - 1 : j \in allowed \ present
        runs == {r \in [i : allowed, n : 1 .. Cardinality(allowed)] : Run(r.i, r.n)}
        longest == {r \in runs : \A q \in runs : q.n <= r.n}
        first == CHOOSE r \in longest : \A q \in longest : r.i <= q.i IN
    IF runs = {} THEN Err("None")
    ELSE FromIndex(Pages, first.i * PagesPerRootEntry, (first.i + first.n) * PagesPerRootEntry)

\* PageAllocator::allocate(): from the end of the free block, with room to align.
PageAllocate(a, size, align) ==
    LET needed == CountUp(Pages, size)
        total == needed + (IF align > PageSize THEN align \div PageSize ELSE 0)
        cut == Tail_(Pages, a.free, total)
        taken == cut.value.taken
        off == StartAddress(Pages, taken) % align
        skip == IF align <= PageSize \/ off = 0 THEN 0 ELSE CountUp(Pages, align - off)
        rest == [a EXCEPT !.free = cut.value.left] IN
    IF needed = 0 THEN [ok |-> TRUE, alloc |-> a, block |-> ZeroBlock]
    ELSE IF total > Count(a.free) \/ ~cut.ok THEN [ok |-> FALSE, alloc |-> a, block |-> ZeroBlock]
    ELSE IF Count(taken) - skip < needed THEN [ok |-> FALSE, alloc |-> rest, block |-> ZeroBlock]
    ELSE [ok |-> TRUE, alloc |-> rest, block |-> Block(taken.start + skip, taken.start + skip + needed)]

\* PageAllocator::new(): the guard zone goes first; Err is a panic.
NewPageAllocator(present, allowed) ==
    AndThen(FindUnusedBlock(present, allowed), LAMBDA b :
        LET r == PageAllocate([free |-> b, initial |-> ZeroBlock], GuardPages * PageSize, PageSize) IN
        IF r.ok THEN Ok([free |-> r.alloc.free, initial |-> r.alloc.free]) ELSE Panic)

\* PageAllocator::duplicate() and duplicate_allocator_state()
DuplicatePageAllocator(a) == [a EXCEPT !.free = a.initial]
DuplicateAllocatorState(a, original) ==
    IF ContainsBlock(a.free, original.free) THEN Ok([a EXCEPT !.free = original.free])
    ELSE Err("InvalidArgument")

\* PageAllocator::deallocate() gives nothing back, it only checks.
PageDeallocate(a, b) == ContainsBlock(a.initial, b) /\ IsDisjoint(Pages, a.free, b)

\* PageAllocator::reserve() keeps the larger of the two parts around the pages.
PageReserveUnchecked(a, b) ==
    LET part == FromIndex(Pages, a.free.start, Max({a.free.start, b.start})) IN
    IF part.ok THEN Ok([a EXCEPT !.free = part.value]) ELSE Err("NoPage")
PageReserve(a, b) ==
    LET left == FromIndex(Pages, a.free.start, b.start)
        right == FromIndex(Pages, b.end, a.free.end)
        part == IF b.start - a.free.start < a.free.end - b.end THEN right ELSE left IN
    IF ContainsBlock(a.free, b) /\ part.ok THEN Ok([a EXCEPT !.free = part.value])
    ELSE Err("NoPage")

-----------------------------------------------------------------------------
(* Blocks of an address space *)

\* AddressSpace::allocate(), deallocate() and reserve() pick the allocator.
Reserve(m, s, size, align, flags) ==
    LET name == IF "U" \in flags THEN s ELSE "kernel"
        r == PageAllocate(m.alloc[name], size, align) IN
    {Outcome(r.ok, [m EXCEPT !.alloc[name] = r.alloc], r.block)}

Unreserve(m, s, b) ==
    LET name == IF IsKernelBlock(b) THEN "kernel" ELSE s IN
    IF (IsKernelBlock(b) \/ IsUserBlock(b)) /\ PageDeallocate(m.alloc[name], b)
    THEN Done(m, ZeroBlock) ELSE Failed(m)

ReserveFixed(m, s, b, flags) ==
    LET name == IF IsKernelBlock(b) THEN "kernel" ELSE s
        r == PageReserve(m.alloc[name], b) IN
    IF ValidateBlockFlags(b, "U" \in flags).ok /\ r.ok
    THEN Done([m EXCEPT !.alloc[name] = r.value], b) ELSE Failed(m)

\* Big::rereserve()
Rereserve(m, s, old, sub) ==
    LET part(o, b) == IF IsEmpty(b) THEN Done(o.memory, ZeroBlock) ELSE Unreserve(o.memory, s, b) IN
    IF ~ContainsBlock(old, sub) THEN Failed(m)
    ELSE Then(Then(Done(m, ZeroBlock), LAMBDA o : part(o, Block(old.start, sub.start))),
              LAMBDA o : part(o, Block(sub.end, old.end)))

\* AddressSpace::map_page_to_frame(): the frame mapped before, if any, loses a reference.
MapPageToFrame(m, s, p, frame, flags) ==
    IF ~ValidatePageFlags(p, "U" \in flags).ok THEN Failed(m)
    ELSE Done([m EXCEPT !.pte[s][p] = Pte(frame, flags)], ZeroBlock)
         \cup (IF m.misses > 0 THEN Failed([m EXCEPT !.misses = @ - 1]) ELSE {})

\* AddressSpace::map_page()
MapPage(m, s, p, flags) ==
    IF FreeFrames(m) = {} THEN Failed(m) ELSE MapPageToFrame(m, s, p, Min(FreeFrames(m)), flags)

\* AddressSpace::unmap_page()
UnmapPage(m, s, p) ==
    IF IsMapped(m, s, p) THEN Done([m EXCEPT !.pte[s][p] = NoPte], ZeroBlock) ELSE Failed(m)

\* for page in pages { ...? }: the pages before the one that fails stay done.
EachPage(m, b, step(_, _)) ==
    FoldLeft(LAMBDA outs, p : Then(outs, LAMBDA o : step(o.memory, p)), Done(m, b), Elements(b))

\* AddressSpace::map_block(), unmap_block(), remap_block()
MapBlock(m, s, b, flags) ==
    IF ValidateBlockFlags(b, "U" \in flags).ok
    THEN EachPage(m, b, LAMBDA n, p : MapPage(n, s, p, flags)) ELSE Failed(m)

UnmapBlock(m, s, b) ==
    IF ValidateBlock(b).ok THEN EachPage(m, b, LAMBDA n, p : UnmapPage(n, s, p)) ELSE Failed(m)

\* AddressSpace::remap_block() of mapped pages: that is what the contract of copy_mapping(), its
\* only caller, asks for (`# Safety' in ku/src/allocator/big.rs, 183-184).
RemapBlock(m, s, b, flags) ==
    IF ValidateBlockFlags(b, "U" \in flags).ok
    THEN EachPage(m, b, LAMBDA n, p :
             IF IsMapped(n, s, p) THEN Done([n EXCEPT !.pte[s][p].flags = flags], b) ELSE Failed(n))
    ELSE Failed(m)

\* One page of BigPair::copy_mapping(): dst drops what it mapped, even when src maps nothing.
CopyPage(m, src, p, dst, q, given, dstFlags) ==
    LET dropped == [m EXCEPT !.pte[dst][q] = NoPte]
        flags == IF given = {} THEN m.pte[src][p].flags \cup dstFlags ELSE given IN
    IF ~IsMapped(m, src, p) THEN Done(dropped, ZeroBlock)
    ELSE Then(MapPageToFrame(dropped, dst, q, m.pte[src][p].frame, flags), LAMBDA o : Done(o.memory, ZeroBlock))

\* BigPair::copy_mapping(); given = {} is None, dstFlags are the flags of the pair.
CopyMapping(m, src, from, dst, to, given, dstFlags) ==
    LET denied == given # {} /\ "U" \notin given /\ given # dstFlags IN
    IF Count(from) # Count(to) THEN Failed(m)
    ELSE IF src = dst /\ ~IsDisjoint(Pages, from, to)
    THEN IF from = to /\ given # {} /\ ~denied THEN RemapBlock(m, dst, from, given) ELSE Failed(m)
    ELSE IF denied THEN Failed(m)
    ELSE EachPage(m, to, LAMBDA n, q :
             CopyPage(n, src, from.start + (q - to.start), dst, q, given, dstFlags))

\* AddressSpace::map_slice_uninit() and with it map_slice(), map_slice_zeroed() and map_one(): the
\* slice takes whole pages; when elements do not fill them, it fails with the pages mapped.
MapSlice(m, s, element, align, len, flags) ==
    Then(Reserve(m, s, element * len, align, flags), LAMBDA o :
        Then(MapBlock(o.memory, s, o.value, flags), LAMBDA x :
            LET slice == AndThen(BytesOf(Pages, o.value), LAMBDA bytes : TryIntoSlice(bytes, element, align)) IN
            IF slice.ok THEN Done(x.memory, o.value) ELSE Failed(x.memory)))

\* AddressSpace::unmap_slice() of so many bytes from the start of block b; unmap_one() passes the
\* bytes of one element.  The virtual pages are not given back.
UnmapSlice(m, s, b, bytes) ==
    LET end == AndThen(AddAddress("Virt", StartAddress(Pages, b), bytes), LAMBDA e : NewFrage(Pages, e)) IN
    IF end.ok THEN UnmapBlock(m, s, Block(b.start, IndexByAddress(Pages, end.value))) ELSE Failed(m)

\* AddressSpace::check_permission_common(): each page in turn, until one fails.
CheckPagesFirst(m, s, pages, flags) ==
    IF IsMapped(m, s, pages.start) THEN Ok(TRUE) ELSE Err("NoPage")
CheckPages(m, s, pages, flags) ==
    FoldLeft(LAMBDA r, p : AndThen(r, LAMBDA checked :
                 IF ~IsMapped(m, s, p) THEN Err("NoPage")
                 ELSE IF {"U"} \cup flags \subseteq m.pte[s][p].flags THEN Ok(TRUE)
                 ELSE Err("PermissionDenied")),
             Ok(TRUE), Elements(pages))

\* AddressSpace::check_permission() and check_permission_mut() for elements of this size and
\* alignment.
CheckPermission(m, s, b, flags, element) ==
    AndThen(Enclosing("Virt", b), LAMBDA pages :
        IF ~IsUserBlock(pages) THEN Err("PermissionDenied")
        ELSE AndThen(CheckPages(m, s, pages, flags), LAMBDA checked : TryIntoSlice(b, element, element)))

\* The checks of log_value() on the message a process passes to it.
LogValue(m, s, start, len) ==
    IF start + len >= Word THEN Err("Overflow")
    ELSE AndThen(FromIndex(Bytes("Virt"), start, start + len), LAMBDA b : CheckPermission(m, s, b, {}, 1))

-----------------------------------------------------------------------------
(* BigAllocator and DryAllocator *)

\* The common part of BigAllocator::grow() and dry_grow(): in place or by moving.
GrowFrom(m, s, flags, own, old, size, align) ==
    LET extra == Block(old.end, old.start + CountUp(Pages, size))
        fixed == ReserveFixed(m, s, extra, own)
        Moved(o) ==
            LET new == o.value
                head == Block(new.start, new.start + Count(old))
                tail == Block(head.end, new.end) IN
            Then(Then(Then(Then(CopyMapping(o.memory, s, old, s, head, {}, own),
                                LAMBDA x : MapBlock(x.memory, s, tail, flags)),
                           LAMBDA x : UnmapBlock(x.memory, s, old)),
                      LAMBDA x : Unreserve(x.memory, s, old)),
                 LAMBDA x : Done(x.memory, new)) IN
    IF \E o \in fixed : o.ok
    THEN Then(fixed, LAMBDA o : Then(MapBlock(o.memory, s, extra, flags),
                                     LAMBDA x : Done(x.memory, Block(old.start, extra.end))))
    ELSE Then(Reserve(m, s, size, align, own), Moved)

\* BigAllocator::grow(); own are the flags of the allocator.
Grow(m, s, flags, own, old, size) ==
    IF IsEmpty(old)
    THEN Then(Reserve(m, s, size, PageSize, own), LAMBDA o :
             Then(MapBlock(o.memory, s, o.value, flags), LAMBDA x : Done(x.memory, o.value)))
    ELSE IF ~FromIndex(Pages, old.start, old.start + CountUp(Pages, size)).ok THEN Failed(m)
    ELSE IF CountUp(Pages, size) = Count(old) THEN Done(m, old)
    ELSE GrowFrom(m, s, flags, own, old, size, PageSize)

\* try_into_block() of a pointer to the start of block b and a layout of this size.
TryIntoBlock(b, size) ==
    AndThen(AddAddress("Virt", StartAddress(Pages, b), size), LAMBDA e :
        AndThen(FromIndex(Bytes("Virt"), StartAddress(Pages, b), e), LAMBDA bytes :
            Enclosing("Virt", bytes)))

\* An empty slice at address 0 is an error of try_into_non_null_slice().
NonNull(outs) == Then(outs, LAMBDA o : IF o.value.start = 0 THEN Failed(o.memory) ELSE {o})

\* dry_allocate(), dry_deallocate(), dry_grow(), dry_shrink()
DryAllocate(m, s, own, size, align) ==
    NonNull(Then(Reserve(m, s, size, align, own), LAMBDA o :
        Then(MapBlock(o.memory, s, o.value, own), LAMBDA x : Done(x.memory, o.value))))

DryDeallocate(m, s, b) ==
    Then(UnmapBlock(m, s, b), LAMBDA o : Unreserve(o.memory, s, b))

DryGrow(m, s, own, old, size, align) ==
    LET new == TryIntoBlock(old, size) IN
    IF ~new.ok THEN Failed(m)
    ELSE IF Count(new.value) = Count(old) THEN NonNull(Done(m, old))
    ELSE NonNull(GrowFrom(m, s, own, own, old, size, align))

DryShrink(m, s, old, size) ==
    LET new == TryIntoBlock(old, size) IN
    IF ~new.ok THEN Failed(m)
    ELSE IF Count(new.value) = Count(old) THEN NonNull(Done(m, old))
    ELSE NonNull(Then(Then(UnmapBlock(m, s, Block(new.value.end, old.end)),
                           LAMBDA o : Rereserve(o.memory, s, old, new.value)),
                      LAMBDA o : Done(o.memory, new.value)))
=============================================================================
