----------------------------- MODULE Phys2Virt -----------------------------
(***************************************************************************)
(* The linear mapping of all physical memory into the higher half,         *)
(* kernel/src/memory/phys2virt.rs: make() builds it through the recursive  *)
(* entry of the current page table with pages of the size that one entry   *)
(* below the root covers (1 GiB), map() uses it.  Also the blocks of the   *)
(* page table dump, kernel/src/memory/mapped_block.rs.                     *)
(*                                                                         *)
(* A page table is [root, nodes]: what each root entry is ("absent",       *)
(* "node", or "self" for the recursive one) and the entries of the nodes,  *)
(* NoHuge or the first byte of a huge frame.                               *)
(***************************************************************************)
EXTENDS Addresses

NoHuge == -1
HugeSize == PageSize * EntryCount ^ (LevelCount - 2)
Indexes == 0 .. EntryCount - 1
HigherRootEntry == EntryCount \div 2
EmptyNode == [j \in Indexes |-> NoHuge]

\* The root table the bootloader leaves.
BootTable(recursive, present) ==
    [root |-> [i \in Indexes |-> IF i = recursive THEN "self" ELSE IF i \in present THEN "node" ELSE "absent"],
     nodes |-> [i \in Indexes |-> EmptyNode]]

CeilDivide(n, m) == (n + m - 1) \div m
EntryCountFor(frames) == CeilDivide(frames * PageSize, HugeSize)
RootEntryCountFor(frames) == CeilDivide(EntryCountFor(frames), EntryCount)
RootEntriesFor(frames) == HigherRootEntry .. HigherRootEntry + RootEntryCountFor(frames) - 1

\* allocate_root_entry() for every entry in turn: a frame for each absent one, until none is free.
\* Writing through a recursive entry would clear the root itself.
Allocated(table, entries, free) ==
    LET absent == {i \in entries : table.root[i] = "absent"}
        got == {i \in absent : Cardinality({j \in absent : j <= i}) <= free}
        cleared == {i \in entries : \A j \in absent \ got : i < j}
        self == \E i \in cleared : table.root[i] = "self"
    IN  [ok |-> got = absent,
         used |-> Cardinality(got),
         table |-> [root |-> [i \in Indexes |-> IF self THEN "absent"
                                                ELSE IF i \in cleared THEN "node" ELSE table.root[i]],
                    nodes |-> [i \in Indexes |-> IF i \in cleared THEN EmptyNode ELSE table.nodes[i]]]]

\* fill_entries(): the huge frames in order, the rest of the last node stays empty.
FillOffByOne(table, frames) ==
    [table EXCEPT !.nodes = [i \in Indexes |->
        IF i \notin RootEntriesFor(frames) THEN table.nodes[i]
        ELSE [j \in Indexes |->
                LET n == (i - HigherRootEntry) * EntryCount + j IN
                IF n + 1 < EntryCountFor(frames) THEN n * HugeSize ELSE NoHuge]]]
FillEntries(table, frames) ==
    [table EXCEPT !.nodes = [i \in Indexes |->
        IF i \notin RootEntriesFor(frames) THEN table.nodes[i]
        ELSE [j \in Indexes |->
                LET n == (i - HigherRootEntry) * EntryCount + j IN
                IF n < EntryCountFor(frames) THEN n * HugeSize ELSE NoHuge]]]

\* new_impl(): the block of pages that stands for the physical memory.
NewPhys2Virt(frames, start) == FromIndex(Pages, start, start + frames)

\* make() with this many frames in the memory and free ones: the mapping and the page table.
MakeWith(table, recursive, frames, free) ==
    LET allocated == Allocated(table, RootEntriesFor(frames), free) IN
    IF recursive = 0 \/ recursive >= EntryCount THEN [result |-> Err("InvalidArgument"), table |-> table]
    ELSE IF recursive \in UserRootEntries THEN [result |-> Err("PermissionDenied"), table |-> table]
    ELSE IF HigherRootEntry + RootEntryCountFor(frames) > EntryCount
    THEN [result |-> Err("NoPage"), table |-> table]
    ELSE IF ~allocated.ok THEN [result |-> Err("NoFrame"), table |-> allocated.table]
    ELSE [result |-> NewPhys2Virt(frames, HigherHalfStart),
          table |-> FillEntries(allocated.table, frames)]

\* Phys2Virt::map()
MapPhys(mapping, phys) ==
    AndThen(AddAddress("Virt", StartAddress(Pages, mapping), phys), LAMBDA virt :
        IF ContainsAddress(Pages, mapping, virt) THEN Ok(virt) ELSE Err("Overflow"))

\* The function map(), for the one address: a mapping of just enough memory.
MapOne(start, phys) ==
    AndThen(Unwrap(NewPhys2Virt(IndexByAddress(Frames, phys) + 1, start)), LAMBDA mapping :
        Unwrap(MapPhys(mapping, phys)))

\* What the processor reads for a virtual address in the higher half.
TranslateHuge(table, virt) ==
    LET i == PageTableIndex(virt, LevelCount - 1)
        j == PageTableIndex(virt, LevelCount - 2) IN
    IF table.root[i] # "node" \/ table.nodes[i][j] = NoHuge THEN NoHuge
    ELSE table.nodes[i][j] + (virt % HugeSize)

-----------------------------------------------------------------------------
(* MappedBlock: [mask, flags, frames, pages], flags a set, frames and pages blocks *)

AllFlags == {"P", "W", "A"}
NewMappedBlock(flags, frames, pages) == [mask |-> AllFlags, flags |-> flags, frames |-> frames, pages |-> pages]

\* MappedBlock::coalesce(): the value is one block, or the two with the mask applied to them.
JoinedFrames(b, c, ignoreFrames, flags) ==
    IF ignoreFrames THEN Ok(ZeroBlock)
    ELSE IF "P" \in flags THEN Coalesce(Frames, b.frames, c.frames)
    ELSE FromIndex(Frames, 0, Count(b.frames) + Count(c.frames))

Masked(b, ignoreFrames, mask) ==
    [b EXCEPT !.mask = mask, !.flags = @ \cap mask, !.frames = IF ignoreFrames THEN ZeroBlock ELSE @]

CoalesceMapped(b, c, ignoreFrames, mask) ==
    LET flags == b.flags \cap mask
        frames == JoinedFrames(b, c, ignoreFrames, flags)
        pages == Coalesce(Pages, b.pages, c.pages) IN
    IF (~ignoreFrames /\ (IsEmpty(b.frames) \/ IsEmpty(c.frames))) \/ ~(mask \subseteq b.mask \cap c.mask)
    THEN Panic
    ELSE IF pages.ok /\ frames.ok /\ flags = c.flags \cap mask
    THEN Ok(<<[mask |-> mask, flags |-> flags, frames |-> frames.value, pages |-> pages.value]>>)
    ELSE Ok(<<Masked(b, ignoreFrames, mask), Masked(c, ignoreFrames, mask)>>)

\* AddressSpace::dump(): the present leaf entries in order, neighbours with equal flags together.
DumpFlags == AllFlags \ {"A"}
DumpStep(lines, leaf) ==
    LET last == lines[Len(lines)] IN
    IF lines = <<>> THEN <<leaf>>
    ELSE SubSeq(lines, 1, Len(lines) - 1) \o CoalesceMapped(last, leaf, TRUE, DumpFlags).value
=============================================================================
