----------------------------- MODULE PageTables -----------------------------
(***************************************************************************)
(* kernel/src/memory/mapping.rs, path.rs, frame_guard.rs and the mapping   *)
(* operations of address_space.rs: page tables are trees of physical       *)
(* frames, and every frame that they use is owned through the reference    *)
(* counts of the frame allocator.                                          *)
(*                                                                         *)
(* An operation on a mapping is a sequence of steps, one for each call of  *)
(* the frame allocator or each visited entry; `op' is what the running     *)
(* operation has on its stack.  The processor may load a translation into  *)
(* its TLB between any two steps.                                          *)
(*                                                                         *)
(* The frame allocator is taken at the level of FrameOwnership: allocate() *)
(* is Acquire, reference() is Share, deallocate() is Release.  That it may *)
(* be is FrameAllocatorProofs!FramesAreExclusive.                          *)
(***************************************************************************)
EXTENDS FrameOwnership, Sequences, FiniteSets

CONSTANTS Mappings,     \* names of the mappings, live or not
          Base,         \* the mapping of BASE_ADDRESS_SPACE
          RootLevel,    \* PAGE_TABLE_ROOT_LEVEL
          EntryCount,   \* PAGE_TABLE_ENTRY_COUNT
          Pages,        \* the virtual pages that are used: level -> index
          UserEntries,  \* root level entries of the user half of the space
          FrameZero,    \* Frame::default(), which is not in Ram
          None,         \* Option::None, and an absent page table entry
          BootRoot,     \* root of the page tables made by the boot loader
          BootTables,   \* and the contents of their nodes
          Rights,       \* the sets of flags that callers ask for
          CachedPages,  \* the pages whose translations the TLB may hold
          DuplicateMayFail,  \* whether duplicate() can run out of memory
          Remaps        \* kinds of remap_block() calls, a subset of RemapKinds

LeafLevel == 0
Levels == LeafLevel .. RootLevel
Index == 0 .. EntryCount - 1
Flags == {"USER", "WRITABLE"}
RemapKinds == {"narrow", "widen"}

\* A present page table entry; the others are None.
Pte == [frame : AllFrames, flags : SUBSET Flags, huge : BOOLEAN]
Zeroed == [i \in Index |-> None]

ASSUME LevelsAssumption == RootLevel \in Nat /\ EntryCount \in Nat
ASSUME PagesAssumption == Pages \subseteq [Levels -> Index] /\ UserEntries \subseteq Index
ASSUME RightsAssumption == Rights \subseteq SUBSET Flags /\ CachedPages \subseteq Pages
ASSUME MappingsAssumption == Base \in Mappings
ASSUME BootAssumption ==
    /\ BootRoot \in BootFrames /\ BootFrames \subseteq Ram /\ Ram \subseteq AllFrames
    /\ FrameZero \in AllFrames \ Ram
    /\ BootTables \in [AllFrames -> [Index -> Pte \cup {None}]]
ASSUME NoneAssumption == None \notin AllFrames \cup Pte \cup Mappings
ASSUME FiniteAssumption == IsFiniteSet(AllFrames) /\ IsFiniteSet(Mappings)
ASSUME OptionsAssumption == DuplicateMayFail \in BOOLEAN /\ Remaps \subseteq RemapKinds

\* The nodes that the entries of some nodes link to.
Children(mem, nodes) ==
    {mem[x[1]][x[2]].frame : x \in
        {y \in nodes \X Index : mem[y[1]][y[2]] # None /\ ~mem[y[1]][y[2]].huge}}

\* Nodes of page tables, level by level; tops[l] are the given nodes of level l.
NodeLevels(mem, tops) ==
    LET nodes[l \in Levels] ==
            tops[l] \cup IF l = RootLevel THEN {} ELSE Children(mem, nodes[l + 1])
    IN  nodes

\* What the boot loader leaves is a tree: no frame is used by two entries, every
\* frame of main memory that it uses is taken, and only inner entries are huge.
BootLevels == NodeLevels(BootTables, [l \in Levels |-> IF l = RootLevel THEN {BootRoot} ELSE {}])
BootEntries(f) ==
    {x \in (UNION {BootLevels[l] : l \in Levels}) \X Index :
        LET pte == BootTables[x[1]][x[2]] IN pte # None /\ ~pte.huge /\ pte.frame = f}

ASSUME BootTreeAssumption ==
    /\ \A l \in Levels : BootLevels[l] \subseteq BootFrames
    /\ \A k, l \in Levels : k # l => BootLevels[k] \cap BootLevels[l] = {}
    /\ \A f \in Ram : Cardinality(BootEntries(f)) <= IF f \in BootFrames \ {BootRoot} THEN 1 ELSE 0
    /\ \A n \in BootLevels[LeafLevel], i \in Index :
          BootTables[n][i] # None => ~BootTables[n][i].huge

VARIABLES memory,    \* contents of each frame, read as a page table node
          roots,     \* page_table_root of the live mappings
          current,   \* the mapping in CR3
          tlb,       \* a translation cached by the processor, or None
          op         \* the operation in progress

tableVars == <<memory, roots, current, tlb, op>>
vars == <<owned, tableVars>>

Idle == [kind |-> "idle"]

\* Whether allocate() succeeds; otherwise it returns NoFrame.
CanAllocate == \E f \in Ram : owned[f] = 0

\* The kernel after memory::init(): the boot loader's tables are the base
\* mapping.
Init ==
    /\ OwnershipInit
    /\ memory = BootTables
    /\ roots = [m \in Mappings |-> IF m = Base THEN BootRoot ELSE None]
    /\ current = Base
    /\ tlb = None
    /\ op = Idle
-----------------------------------------------------------------------------
\* Mapping::path(): the node visited at each level, None below the deepest one.
Entry(node, i) == IF node = None THEN None ELSE memory[node][i]

Path(root, page) ==
    LET node[l \in Levels] ==
            IF l = RootLevel THEN root
            ELSE LET pte == Entry(node[l + 1], page[l + 1])
                 IN  IF pte = None \/ pte.huge THEN None ELSE pte.frame
    IN  node

\* The leaf entry of a page, None when the page is not mapped.
Leaf(m, page) == Entry(Path(roots[m], page)[LeafLevel], page[LeafLevel])

\* A huge page covers the page.
HugeOnPath(m, page) ==
    \E l \in Levels : LET pte == Entry(Path(roots[m], page)[l], page[l])
                      IN  pte # None /\ pte.huge

\* Rights that the processor grants: all the entries on the path have to agree.
EffectiveFlags(m, page) ==
    {g \in Flags : \A l \in Levels :
        LET pte == Entry(Path(roots[m], page)[l], page[l])
        IN  pte # None /\ g \in pte.flags}

IsUserPage(page) == page[RootLevel] \in UserEntries

\* range::validate_page_flags()
ValidFlags(page, flags) == IsUserPage(page) <=> "USER" \in flags

SetEntry(node, i, pte) == [memory EXCEPT ![node][i] = pte]

\* mmu::flush(): the processor forgets the page, whatever mapping it is in.
Flush(page) == tlb' = IF tlb # None /\ tlb.page = page THEN None ELSE tlb

\* FrameGuards that go out of scope, in this order, before the operation ends.
Dropping(frames) == IF frames = <<>> THEN Idle ELSE [kind |-> "drop", frames |-> frames]

DropGuard ==
    /\ op.kind = "drop"
    /\ Release(Head(op.frames))
    /\ op' = Dropping(Tail(op.frames))
    /\ UNCHANGED <<memory, roots, current, tlb>>
-----------------------------------------------------------------------------
Mapping(m, page, flags, frame, held) ==
    [kind |-> "map", m |-> m, page |-> page, flags |-> flags, frame |-> frame,
     held |-> held, level |-> RootLevel, node |-> roots[m]]

\* AddressSpace::map_page(): a new frame; the guard of map_page() itself is
\* held until the end, and map_page_to_frame() takes one more reference.
MapPage(m, page, flags, new) ==
    /\ op = Idle
    /\ roots[m] # None
    /\ ValidFlags(page, flags)
    /\ Acquire(new)
    /\ op' = [Mapping(m, page, flags, new, <<new>>) EXCEPT !.kind = "reference"]
    /\ UNCHANGED <<memory, roots, current, tlb>>

MapPageReferences ==
    /\ op.kind = "reference"
    /\ Share(op.frame)
    /\ op' = [op EXCEPT !.kind = "map"]
    /\ UNCHANGED <<memory, roots, current, tlb>>

\* AddressSpace::map_page_to_frame() of a frame that some mapping maps (shared
\* memory) or of a device.
MapPageToFrame(m, page, flags, frame) ==
    /\ op = Idle
    /\ roots[m] # None
    /\ ValidFlags(page, flags)
    /\ \/ frame \notin Ram \cup {FrameZero}
       \/ \E m2 \in Mappings, p \in Pages :
             roots[m2] # None /\ Leaf(m2, p) # None /\ Leaf(m2, p).frame = frame
    /\ Share(frame)
    /\ op' = Mapping(m, page, flags, frame, <<>>)
    /\ UNCHANGED <<memory, roots, current, tlb>>

MapEntry == memory[op.node][op.page[op.level]]

\* Path::map() is at an inner level, and no huge page covers the page.
MapsInnerNode ==
    /\ op.kind = "map" /\ op.level > LeafLevel
    /\ ~HugeOnPath(op.m, op.page)

\* Mutant of MapDescends: the flags of existing nodes are not widened.
MapDescendsKeepsFlags ==
    /\ MapsInnerNode
    /\ MapEntry # None
    /\ op' = [op EXCEPT !.level = @ - 1, !.node = MapEntry.frame]
    /\ UNCHANGED <<owned, memory, roots, current, tlb>>

\* Path::map() goes through an existing node and widens its flags.
MapDescends ==
    /\ MapsInnerNode
    /\ MapEntry # None
    /\ memory' = SetEntry(op.node, op.page[op.level],
                          [MapEntry EXCEPT !.flags = @ \cup op.flags])
    /\ op' = [op EXCEPT !.level = @ - 1, !.node = MapEntry.frame]
    /\ UNCHANGED <<owned, roots, current, tlb>>

\* Path::map() allocates a missing node.
MapAllocatesNode(new) ==
    /\ MapsInnerNode
    /\ MapEntry = None
    /\ Acquire(new)
    /\ memory' = [memory EXCEPT
          ![new] = Zeroed,
          ![op.node][op.page[op.level]] =
              [frame |-> new, flags |-> op.flags, huge |-> FALSE]]
    /\ op' = [op EXCEPT !.level = @ - 1, !.node = new]
    /\ UNCHANGED <<roots, current, tlb>>

\* Path::map() returns Unimplemented under a huge page before it changes
\* anything, or NoFrame: the nodes that it has allocated stay.  Either way the
\* guards are dropped.
MapFails ==
    /\ op.kind = "map" /\ op.level > LeafLevel
    /\ HugeOnPath(op.m, op.page) \/ (MapEntry = None /\ ~CanAllocate)
    /\ op' = Dropping(<<op.frame>> \o op.held)
    /\ UNCHANGED <<owned, memory, roots, current, tlb>>

\* Path::map() replaces the leaf entry and flushes the page; the previous frame
\* is released after that.
MapStoresLeaf ==
    /\ op.kind = "map" /\ op.level = LeafLevel
    /\ memory' = SetEntry(op.node, op.page[LeafLevel],
                          [frame |-> op.frame, flags |-> op.flags, huge |-> FALSE])
    /\ Flush(op.page)
    /\ op' = Dropping((IF MapEntry = None THEN <<>> ELSE <<MapEntry.frame>>) \o op.held)
    /\ UNCHANGED <<owned, roots, current>>

\* Mutant of Unmap: the translation stays in the TLB.
UnmapWithoutFlush(m, page) ==
    /\ op = Idle
    /\ roots[m] # None
    /\ Leaf(m, page) # None
    /\ memory' = SetEntry(Path(roots[m], page)[LeafLevel], page[LeafLevel], None)
    /\ op' = Dropping(<<Leaf(m, page).frame>>)
    /\ UNCHANGED <<owned, roots, current, tlb>>

\* Path::unmap(): takes the frame out of the entry, flushes the page and then
\* drops the guard.
Unmap(m, page) ==
    /\ op = Idle
    /\ roots[m] # None
    /\ Leaf(m, page) # None
    /\ memory' = SetEntry(Path(roots[m], page)[LeafLevel], page[LeafLevel], None)
    /\ Flush(page)
    /\ op' = Dropping(<<Leaf(m, page).frame>>)
    /\ UNCHANGED <<owned, roots, current>>

\* AddressSpace::remap_block() of one page: PageTableEntry::set_flags() on the
\* leaf entry, and nothing else.  The only caller is BigPair::copy_mapping(),
\* whose contract (`# Safety' in ku/src/allocator/big.rs, 183-184) is that the
\* page is mapped; remap_block() itself does not look whether it is.
RemapKind(m, page, flags) ==
    IF flags \subseteq Leaf(m, page).flags THEN "narrow" ELSE "widen"

Remap(m, page, flags) ==
    /\ op = Idle
    /\ roots[m] # None
    /\ ValidFlags(page, flags)
    /\ Leaf(m, page) # None
    /\ RemapKind(m, page, flags) \in Remaps
    /\ memory' = SetEntry(Path(roots[m], page)[LeafLevel], page[LeafLevel],
                          [Leaf(m, page) EXCEPT !.flags = flags])
    /\ UNCHANGED <<owned, roots, current, tlb, op>>
-----------------------------------------------------------------------------
\* The nodes that duplicate_subtree() and drop_subtree() are inside of.
Top == op.stack[Len(op.stack)]
Depth == Len(op.stack)
Level == RootLevel - Depth + 1
Next1(stack) == [stack EXCEPT ![Len(stack)].i = @ + 1]
Marked(stack, used) == [stack EXCEPT ![Len(stack)].has_used = used]
Pushed(frame) == Append(op.stack, frame)
Popped == SubSeq(op.stack, 1, Depth - 1)

\* All the nodes of page tables; tops[l] are the given nodes of level l.
NodesBelow(tops) == LET nodes == NodeLevels(memory, tops) IN UNION {nodes[l] : l \in Levels}

NodesOf(root) == NodesBelow([l \in Levels |-> IF l = RootLevel THEN {root} ELSE {}])

\* Mapping::duplicate(): allocates the root of the copy.
Duplicate(m, copy, new) ==
    /\ op = Idle
    /\ roots[m] # None /\ roots[copy] = None
    /\ DuplicateMayFail \/ Cardinality({f \in Ram : owned[f] = 0})
                             >= Cardinality(NodesOf(roots[m]))
    /\ Acquire(new)
    /\ memory' = [memory EXCEPT ![new] = Zeroed]
    /\ op' = [kind |-> "duplicate", m |-> m, copy |-> copy,
              stack |-> <<[src |-> roots[m], node |-> new, i |-> 0]>>]
    /\ UNCHANGED <<roots, current, tlb>>

\* Mapping::drop() of a mapping whose root is still Frame::default(), that is
\* frame 0: the `result' of a duplicate() that has failed.
DroppingFrameZero ==
    [kind |-> "drop_subtree", m |-> None, drop_used |-> TRUE,
     stack |-> <<[node |-> FrameZero, i |-> 0, has_used |-> FALSE]>>]

\* Mapping::duplicate() has no memory even for the root of the copy.
DuplicateFailsAtOnce(m, copy) ==
    /\ op = Idle
    /\ roots[m] # None /\ roots[copy] = None
    /\ DuplicateMayFail /\ ~CanAllocate
    /\ op' = DroppingFrameZero
    /\ UNCHANGED <<owned, memory, roots, current, tlb>>

Duplicating == op.kind = "duplicate" /\ Top.i < EntryCount
SourceEntry == memory[Top.src][Top.i]

\* duplicate_subtree(): absent entries and user pages are not copied, huge
\* pages are copied without counting them.
DuplicateSkips ==
    /\ Duplicating
    /\ \/ SourceEntry = None
       \/ SourceEntry # None /\ ~SourceEntry.huge /\ Level = LeafLevel /\ "USER" \in SourceEntry.flags
    /\ memory' = SetEntry(Top.node, Top.i, None)
    /\ op' = [op EXCEPT !.stack = Next1(@)]
    /\ UNCHANGED <<owned, roots, current, tlb>>

DuplicateCopiesHuge ==
    /\ Duplicating
    /\ SourceEntry # None /\ SourceEntry.huge
    /\ memory' = SetEntry(Top.node, Top.i, SourceEntry)
    /\ op' = [op EXCEPT !.stack = Next1(@)]
    /\ UNCHANGED <<owned, roots, current, tlb>>

\* Mutant of IsKernelLeaf: user pages are copied too.
IsAnyLeaf == SourceEntry # None /\ ~SourceEntry.huge

\* duplicate_subtree(): a leaf entry without the USER flag.
IsKernelLeaf == SourceEntry # None /\ ~SourceEntry.huge /\ "USER" \notin SourceEntry.flags

\* Mutant of DuplicateSharesPage: the frame is not referenced.
DuplicateForgetsReference ==
    /\ Duplicating
    /\ Level = LeafLevel /\ IsKernelLeaf
    /\ memory' = SetEntry(Top.node, Top.i, SourceEntry)
    /\ op' = [op EXCEPT !.stack = Next1(@)]
    /\ UNCHANGED <<owned, roots, current, tlb>>

\* duplicate_subtree(): a kernel page is shared and its frame is referenced.
DuplicateSharesPage ==
    /\ Duplicating
    /\ Level = LeafLevel /\ IsKernelLeaf
    /\ Share(SourceEntry.frame)
    /\ memory' = SetEntry(Top.node, Top.i, SourceEntry)
    /\ op' = [op EXCEPT !.stack = Next1(@)]
    /\ UNCHANGED <<roots, current, tlb>>

AtInnerEntry == Level > LeafLevel /\ SourceEntry # None /\ ~SourceEntry.huge

\* Mutant of DuplicateDescends: the copy links to the child of the original.
DuplicateSharesNode(new) ==
    /\ Duplicating
    /\ AtInnerEntry
    /\ Share(SourceEntry.frame)
    /\ memory' = SetEntry(Top.node, Top.i, SourceEntry)
    /\ op' = [op EXCEPT !.stack = Next1(@)]
    /\ UNCHANGED <<roots, current, tlb>>

\* duplicate_subtree(): descends into a child with a node of its own.
DuplicateDescends(new) ==
    /\ Duplicating
    /\ AtInnerEntry
    /\ Acquire(new)
    /\ memory' = [memory EXCEPT ![new] = Zeroed]
    /\ op' = [op EXCEPT !.stack =
                 Pushed([src |-> SourceEntry.frame, node |-> new, i |-> 0])]
    /\ UNCHANGED <<roots, current, tlb>>

\* duplicate_subtree() has copied a child and links it into its parent.
DuplicateReturns ==
    /\ op.kind = "duplicate" /\ Top.i = EntryCount /\ Depth > 1
    /\ LET parent == op.stack[Depth - 1] IN
       memory' = SetEntry(parent.node, parent.i,
                          [memory[parent.src][parent.i] EXCEPT !.frame = Top.node])
    /\ op' = [op EXCEPT !.stack = Next1(Popped)]
    /\ UNCHANGED <<owned, roots, current, tlb>>

\* Mapping::duplicate() succeeds.
DuplicateEnds ==
    /\ op.kind = "duplicate" /\ Top.i = EntryCount /\ Depth = 1
    /\ roots' = [roots EXCEPT ![op.copy] = Top.node]
    /\ op' = Idle
    /\ UNCHANGED <<owned, memory, current, tlb>>

\* duplicate_subtree() has no memory for a child: the error unwinds the
\* recursion, and the guard of each unfinished node is dropped.
DuplicateFails ==
    /\ Duplicating
    /\ AtInnerEntry
    /\ ~CanAllocate
    /\ op' = [kind |-> "unwind", frames |-> [d \in 1 .. Depth |-> op.stack[Depth - d + 1].node]]
    /\ UNCHANGED <<owned, memory, roots, current, tlb>>

\* After the guards, Mapping::duplicate() drops `result'.
DuplicateUnwinds ==
    /\ op.kind = "unwind" /\ op.frames # <<>>
    /\ Release(Head(op.frames))
    /\ op' = IF Tail(op.frames) # <<>> THEN [op EXCEPT !.frames = Tail(@)]
             ELSE DroppingFrameZero
    /\ UNCHANGED <<memory, roots, current, tlb>>
-----------------------------------------------------------------------------
\* Mapping::drop(), after AddressSpace::drop() has left the mapping.
Drop(m) ==
    /\ op = Idle
    /\ m # Base /\ roots[m] # None
    /\ op' = [kind |-> "drop_subtree", m |-> m, drop_used |-> TRUE,
              stack |-> <<[node |-> roots[m], i |-> 0, has_used |-> FALSE]>>]
    /\ IF current = m THEN current' = Base /\ tlb' = None
                      ELSE UNCHANGED <<current, tlb>>
    /\ UNCHANGED <<owned, memory, roots>>

\* Mapping::unmap_unused_intermediate().
UnmapUnusedIntermediate(m) ==
    /\ op = Idle
    /\ roots[m] # None
    /\ op' = [kind |-> "drop_subtree", m |-> m, drop_used |-> FALSE,
              stack |-> <<[node |-> roots[m], i |-> 0, has_used |-> FALSE]>>]
    /\ UNCHANGED <<owned, memory, roots, current, tlb>>

InSubtree == op.kind = "drop_subtree" /\ Top.i < EntryCount
NodeEntry == memory[Top.node][Top.i]
AtLeaf == NodeEntry # None /\ ~NodeEntry.huge /\ Level = LeafLevel

\* drop_subtree() leaves an entry as it is: an absent one, a huge one, or a
\* page that is in use when only unused nodes are removed.
DropSkips ==
    /\ InSubtree
    /\ NodeEntry # None => NodeEntry.huge \/ (AtLeaf /\ ~op.drop_used)
    /\ op' = [op EXCEPT !.stack =
                 Next1(Marked(op.stack, Top.has_used \/ (NodeEntry # None /\ ~op.drop_used)))]
    /\ UNCHANGED <<owned, memory, roots, current, tlb>>

\* drop_subtree() releases a mapped page.
DropPage ==
    /\ InSubtree
    /\ AtLeaf /\ op.drop_used
    /\ Release(NodeEntry.frame)
    /\ memory' = SetEntry(Top.node, Top.i, None)
    /\ op' = [op EXCEPT !.stack = Next1(@)]
    /\ UNCHANGED <<roots, current, tlb>>

DropDescends ==
    /\ InSubtree
    /\ NodeEntry # None /\ ~NodeEntry.huge /\ Level > LeafLevel
    /\ op' = [op EXCEPT !.stack =
                 Pushed([node |-> NodeEntry.frame, i |-> 0, has_used |-> FALSE])]
    /\ UNCHANGED <<owned, memory, roots, current, tlb>>

AtSubtreeEnd == op.kind = "drop_subtree" /\ Top.i = EntryCount
Deleted == op.drop_used \/ ~Top.has_used

\* Mutant of DropNode: the frame of the node is not released.
DropNodeKeepsFrame ==
    /\ AtSubtreeEnd /\ Depth > 1 /\ Deleted
    /\ memory' = SetEntry(op.stack[Depth - 1].node, op.stack[Depth - 1].i, None)
    /\ op' = [op EXCEPT !.stack = Next1(Popped)]
    /\ UNCHANGED <<owned, roots, current, tlb>>

\* drop_subtree() of a child has removed everything in it: so is its node.
DropNode ==
    /\ AtSubtreeEnd /\ Depth > 1 /\ Deleted
    /\ Release(Top.node)
    /\ memory' = SetEntry(op.stack[Depth - 1].node, op.stack[Depth - 1].i, None)
    /\ op' = [op EXCEPT !.stack = Next1(Popped)]
    /\ UNCHANGED <<roots, current, tlb>>

DropKeepsNode ==
    /\ AtSubtreeEnd /\ Depth > 1 /\ ~Deleted
    /\ op' = [op EXCEPT !.stack = Next1(Marked(Popped, TRUE))]
    /\ UNCHANGED <<owned, memory, roots, current, tlb>>

\* Mapping::drop() releases the root at last.  The allocator does not manage
\* frame 0, so that deallocate() ignores it.
DropEnds ==
    /\ AtSubtreeEnd /\ Depth = 1 /\ op.drop_used
    /\ IF op.m = None
       THEN UNCHANGED <<owned, roots>>
       ELSE Release(Top.node) /\ roots' = [roots EXCEPT ![op.m] = None]
    /\ op' = Idle
    /\ UNCHANGED <<memory, current, tlb>>

\* The assertion of unmap_unused_intermediate(): the root is not empty, or
\* else the kernel stops here.
UnmapUnusedEnds ==
    /\ AtSubtreeEnd /\ Depth = 1 /\ ~op.drop_used
    /\ ~Deleted
    /\ op' = Idle
    /\ UNCHANGED <<owned, memory, roots, current, tlb>>
-----------------------------------------------------------------------------
\* AddressSpace::switch_to(): loading CR3 empties the TLB.
SwitchTo(m) ==
    /\ op = Idle
    /\ roots[m] # None /\ m # current
    /\ current' = m
    /\ tlb' = None
    /\ UNCHANGED <<owned, memory, roots, op>>

\* The processor walks the current page tables and caches what it finds.
LoadTlb(page) ==
    /\ Leaf(current, page) # None
    /\ tlb' = [page |-> page, frame |-> Leaf(current, page).frame,
               flags |-> EffectiveFlags(current, page)]
    /\ tlb' # tlb
    /\ UNCHANGED <<owned, memory, roots, current, op>>

MapSteps ==
    \/ MapPageReferences \/ MapDescends \/ MapFails \/ MapStoresLeaf
    \/ \E new \in Ram : MapAllocatesNode(new)

DuplicateSteps ==
    \/ DuplicateSkips \/ DuplicateCopiesHuge \/ DuplicateSharesPage
    \/ \E new \in Ram : DuplicateDescends(new)
    \/ DuplicateReturns \/ DuplicateEnds \/ DuplicateFails \/ DuplicateUnwinds

DropSteps ==
    \/ DropSkips \/ DropPage \/ DropDescends \/ DropNode \/ DropKeepsNode
    \/ DropEnds \/ UnmapUnusedEnds

Next ==
    \/ \E m \in Mappings, page \in Pages :
          \/ \E flags \in Rights :
                \/ \E new \in Ram : MapPage(m, page, flags, new)
                \/ \E frame \in AllFrames : MapPageToFrame(m, page, flags, frame)
                \/ Remap(m, page, flags)
          \/ Unmap(m, page)
    \/ \E m \in Mappings :
          \/ \E copy \in Mappings, new \in Ram : Duplicate(m, copy, new)
          \/ \E copy \in Mappings : DuplicateFailsAtOnce(m, copy)
          \/ Drop(m) \/ UnmapUnusedIntermediate(m) \/ SwitchTo(m)
    \/ \E page \in CachedPages : LoadTlb(page)
    \/ DropGuard
    \/ MapSteps
    \/ DuplicateSteps
    \/ DropSteps

Spec == Init /\ [][Next]_vars
-----------------------------------------------------------------------------
\* Type invariant of Mapping and PageTableEntry; CR3 holds a live mapping.
PageTablesTypeOK ==
    /\ owned \in [AllFrames -> Nat]
    /\ memory \in [AllFrames -> [Index -> Pte \cup {None}]]
    /\ roots \in [Mappings -> AllFrames \cup {None}]
    /\ current \in Mappings /\ roots[current] # None

LiveMappings == {m \in Mappings : roots[m] # None}

\* Nodes of the live mappings, and of a copy that duplicate() is making.
LiveNodes ==
    NodesBelow([l \in Levels |->
        (IF l = RootLevel THEN {roots[m] : m \in LiveMappings} ELSE {})
        \cup (IF op.kind = "duplicate"
              THEN {op.stack[d].node : d \in {k \in 1 .. Depth : RootLevel - k + 1 = l}}
              ELSE {})])

\* The FrameGuards that the operation in progress holds.
Guards ==
    CASE op.kind \in {"drop", "unwind"} -> op.frames
      [] op.kind = "reference" -> op.held
      [] op.kind = "map" -> <<op.frame>> \o op.held
      [] op.kind = "duplicate" -> [d \in 1 .. Depth |-> op.stack[d].node]
      [] OTHER -> <<>>

\* Who uses a frame: page table entries of live nodes, live mappings, guards.
References(f) ==
      Cardinality({x \in LiveNodes \X Index :
          LET pte == memory[x[1]][x[2]] IN pte # None /\ ~pte.huge /\ pte.frame = f})
    + Cardinality({m \in LiveMappings : roots[m] = f})
    + Cardinality({k \in 1 .. Len(Guards) : Guards[k] = f})

\* No operation of Mapping and Path leaks a frame or releases one twice: in
\* every state between two calls of the frame allocator each frame is owned by
\* exactly those entries, mappings and guards that refer to it.
ReferencesAreExact == \A f \in Ram : owned[f] = References(f)

\* Even after an error path no frame is released while it is still used.
ReferencesAreCovered == \A f \in Ram : owned[f] >= References(f)

\* A node of the page tables is never mapped as a page, so that no write of a
\* process or of the kernel can change the page tables.
NodesAreNotMapped ==
    \A m \in LiveMappings, page \in Pages :
        Leaf(m, page) # None => Leaf(m, page).frame \notin LiveNodes

\* The TLB never translates to a frame that the page has lost: Path::map() and
\* Path::unmap() flush the page before they release its frame.
TlbIsFresh ==
    tlb # None => Leaf(current, tlb.page) # None /\ Leaf(current, tlb.page).frame = tlb.frame

\* The rights in a leaf entry are effective: Path::map() widens the entries on
\* the way to it, and no later map(), unmap() or duplicate() takes them back.
RightsAreEffective ==
    \A m \in LiveMappings, page \in Pages :
        Leaf(m, page) # None => Leaf(m, page).flags \subseteq EffectiveFlags(m, page)

\* The rights in the TLB are the rights in the page tables: a change of the
\* access flags takes effect at once.
TlbGrantsNoMore ==
    tlb # None => tlb.flags \subseteq EffectiveFlags(current, tlb.page)

\* Mapping::drop() walks the page tables of the mapping, not some other memory.
DropsOnlyMappings == op.kind = "drop_subtree" => op.stack[1].node \in LiveNodes

\* A copy made by Mapping::duplicate() and its original are independent: no
\* step changes what pages of two mappings are mapped to.
MappingsAreIndependent ==
    [][\A m1, m2 \in LiveMappings, p1, p2 \in Pages :
          roots'[m1] = roots[m1] /\ roots'[m2] = roots[m2] /\ m1 # m2 =>
              Leaf(m1, p1)' = Leaf(m1, p1) \/ Leaf(m2, p2)' = Leaf(m2, p2)]_vars

\* Mapping::duplicate() returns a mapping with all the pages of the kernel and
\* none of the user, whatever the tree of the original looks like.
DuplicateIsFaithful ==
    [][\A m \in Mappings \ LiveMappings, page \in Pages :
          roots'[m] # None =>
              Leaf(m, page)' = IF IsUserPage(page) THEN None ELSE Leaf(op.m, page)]_vars

\* What the TLB holds is what the page tables say: neither a frame that the page has lost nor a
\* right that was taken away, between any two steps of Path::map() and Path::unmap().
TlbIsCurrent == TlbIsFresh /\ TlbGrantsNoMore

\* Whatever a failed operation of Mapping left behind, a frame in use is never released, and
\* page table nodes are never mapped as pages.
MemoryIsSafe == PageTablesTypeOK /\ ReferencesAreCovered /\ NodesAreNotMapped
=============================================================================
