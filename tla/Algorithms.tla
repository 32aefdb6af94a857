----------------------------- MODULE Algorithms -----------------------------
(***************************************************************************)
(* The pure parts of the system against reference definitions: addresses   *)
(* and blocks (Addresses), the linear mapping and the dump of a page table *)
(* (Phys2Virt), the segments and the stacks (DescriptorTables), the walk   *)
(* along a stack (Backtrace), the regions of a PCI device (Pci), the       *)
(* checks of user memory (VirtualMemory), the search in a bitmap (Bitmap)  *)
(* and the time of a TSC (Datetime).                                       *)
(* A state holds one input of one of them.                                 *)
(***************************************************************************)
EXTENDS VirtualMemory, Phys2Virt, DescriptorTables, Backtrace, Pci,
        Bitmap, Datetime

CONSTANTS Distances,   \* what is added to addresses and page indexes
          EdgePages,   \* page indexes that blocks start and end at
          EdgeBytes,   \* addresses that blocks of bytes start and end at
          EdgeFrames,  \* sizes of the physical memory, in frames
          OuterFrames, \* what a damaged stack may hold as a frame pointer
          PciRegions   \* the regions that a PCI device may have

VARIABLE input   \* [case, in]

Case(name, S) == {[case |-> name, in |-> x] : x \in S}

BlocksBetween(k, edges) ==
    {r.value : r \in {x \in {FromIndex(k, s, e) : s \in edges, e \in edges} : x.ok}}
CanonicalPages == {i \in Usize : AddressByIndex(Pages, i).ok}
DumpPages == <<LowerHalfEnd - 2, LowerHalfEnd - 1, HigherHalfStart, HigherHalfStart + 1>>

\* A stack of three frames, as new_impl() takes it for one that starts in the first frame.
StackBottom == 40
StackRange(from, to) == {StackBottom + WordSize * i : i \in from .. to}
StackFrames == {StackBottom, StackBottom + FrameSize, StackBottom + 2 * FrameSize}
CodeAddress == 7

\* The last page of the kernel and the first pages of the user, mapped in any way; the last user
\* page is mapped for reading.
FirstUserPage == UserPages.start
EdgeUserBytes == PageSize * FirstUserPage - 2 .. PageSize * FirstUserPage + 4 \cup Half - 3 .. Half - 1 \cup {Word - 2}
LeafChoices == {{}, {"P"}, {"P", "U"}, {"P", "U", "W"}}

NormalBars == 6   \* the Base Address Registers of a device that is not a bridge

LeafFlags == {{}} \cup {{"P"} \cup f : f \in SUBSET {"W", "A"}}

AlgorithmsInit ==
    input \in Case("address", [tag : {"Virt", "Phys"}, a : Usize, n : Distances])
        \cup Case("pages", [i : CanonicalPages, j : CanonicalPages])
        \cup Case("blocks", [b : BlocksBetween(Pages, EdgePages), c : BlocksBetween(Pages, EdgePages)])
        \cup UNION {Case("bytes", [tag : {tag}, b : BlocksBetween(Bytes(tag), EdgeBytes)]) : tag \in {"Virt", "Phys"}}
        \cup Case("make", [recursive : 0 .. EntryCount, present : SUBSET {HigherRootEntry, HigherRootEntry + 1},
                           frames : EdgeFrames, free : 0 .. 3])
        \cup Case("dump", [1 .. Len(DumpPages) -> LeafFlags])
        \cup Case("processors", [c : 0 .. TssCount - 1, d : 0 .. TssCount - 1,
                                 tss : [1 .. 8 -> {0, 255}]])
        \cup Case("backtrace", [outer : [StackFrames -> OuterFrames], context : BOOLEAN,
                                rbp : {StackBottom, StackBottom + 1, Half}, rsp : StackRange(-1, 2)])
        \cup Case("permission", [start : EdgeUserBytes, len : 1 .. 5, flags : SUBSET {"W"}, element : 1 .. 2,
                                 pte : [FirstUserPage - 1 .. FirstUserPage + 1 -> LeafChoices]])
        \cup Case("bitmap", [bits : [0 .. 3 * BitsPerEntry - 1 -> BOOLEAN], len : 0 .. 3 * BitsPerEntry,
                             cursor : 0 .. 2, count : 0 .. 3])
        \cup Case("datetime", [base : [count : {0, 2}, tsc : {0, 3}], ticks : 0 .. 3, elapsed : {2, 3, 7},
                               tsc : -4 .. 20, parts : {1, 3, NsecsPerSec}])
        \cup Case("bars", [regions : [1 .. 3 -> PciRegions], command : {0, 7}])

Is(case) == input.case = case
-----------------------------------------------------------------------------
(* Properties *)

\* The addresses an address may be moved to: all physical ones, or its own half.
Reach(tag, a) ==
    IF tag = "Phys" THEN 0 .. PhysLimit - 1
    ELSE IF a < Half THEN 0 .. Half - 1 ELSE Word - Half .. Word - 1

\* Moving a valid address by n gives the exact address or an error, an error exactly when it would
\* leave the valid ones or its half, and the distance back is n.
AddressArithmeticIsExact ==
    LET x == input.in IN
    Is("address") /\ IsAddress(x.tag, x.a) =>
        /\ AddAddress(x.tag, x.a, x.n).ok <=> x.a + x.n \in Reach(x.tag, x.a)
        /\ SubAddress(x.tag, x.a, x.n).ok <=> x.a - x.n \in Reach(x.tag, x.a)
        /\ AddAddress(x.tag, x.a, x.n).ok =>
              /\ AddressDiff(x.tag, x.a + x.n, x.a) = Ok(x.n)
              /\ SubAddress(x.tag, x.a + x.n, x.n) = Ok(x.a)

\* The page table indexes and the offset of a virtual address determine it, in either half, with
\* the sign extension that canonize() makes.
PageTableIndexesInvert ==
    LET a == input.in.a IN
    Is("address") /\ input.in.tag = "Virt" /\ IsAddress("Virt", a) =>
        /\ FromPageTableIndexes([l \in 0 .. LevelCount - 1 |-> PageTableIndex(a, l)], a % PageSize) = a
        /\ IsLowerHalf(a) <=> PageTableIndex(a, LevelCount - 1) < EntryCount \div 2

\* Step for Page agrees with the number of canonical pages between two pages: the hole between
\* the halves is stepped over in both directions, and neither direction panics.
PageStepsAreExact ==
    LET i == input.in.i
        j == input.in.j
        between == {p \in CanonicalPages : i <= p /\ p < j} IN
    Is("pages") =>
        /\ StepsBetween(i, j) = IF i <= j THEN Cardinality(between) ELSE -1
        /\ \A n \in (Distances \cup {StepsBetween(i, j)}) \ {-1} :
              /\ ForwardChecked(i, n) = Ok(j) <=> StepsBetween(i, j) = n
              /\ BackwardChecked(j, n) = Ok(i) <=> StepsBetween(i, j) = n
              /\ BackwardChecked(j, n) # Panic

\* intersection(), coalesce() and the order of blocks are those of the sets of their pages, at the
\* ends of both halves too, and do not panic there.  is_disjoint() is claimed for two blocks of one
\* half only: for one that ends with the lower half contains_address() has no end to compare with,
\* and every address of the higher half counts as inside.
BlockAlgebraIsExact ==
    LET b == input.in.b
        c == input.in.c IN
    Is("blocks") =>
        /\ Intersection(Pages, b, c) # Panic
        /\ IndexSet(Intersection(Pages, b, c).value) = IndexSet(b) \cap IndexSet(c)
        /\ Coalesce(Pages, b, c) # Panic
        /\ Coalesce(Pages, b, c).ok => IndexSet(Coalesce(Pages, b, c).value) = IndexSet(b) \cup IndexSet(c)
        /\ IsLowerPage(b.start) = IsLowerPage(c.start) =>
              (IsDisjoint(Pages, b, c) <=> IndexSet(b) \cap IndexSet(c) = {})
        /\ Compare(b, c) \in {"Less", "Greater"} => IndexSet(b) \cap IndexSet(c) = {}

\* enclosing() gives exactly the pages that a block of bytes touches, when the block is empty or
\* its end is an address.  Other valid blocks, those that end where a half or the memory ends, are
\* outside of this property: enclosing() panics on them, whatever its documentation promises.
EnclosingIsMinimal ==
    LET b == input.in.b
        tag == input.in.tag IN
    Is("bytes") /\ (IsEmpty(b) \/ EndAddress(Bytes(tag), b).ok) =>
        /\ Enclosing(tag, b).ok
        /\ IndexSet(Enclosing(tag, b).value) = {a \div PageSize : a \in IndexSet(b)}

\* validate_block_flags() lets the user flag go with blocks of user pages only, and its absence
\* with blocks that have none, for the blocks of the lower half.
SpaceIsPartitioned ==
    LET b == input.in.b IN
    Is("blocks") /\ ~IsEmpty(b) /\ b.end <= LowerHalfEnd =>
        \A user \in BOOLEAN :
            ValidateBlockFlags(b, user).ok <=>
                IF user THEN IndexSet(b) \subseteq IndexSet(UserPages)
                ELSE IndexSet(b) \cap IndexSet(UserPages) = {}

\* After make() every physical address of the memory has one virtual address, which the processor
\* translates back to it, other addresses have none, and no root entry outside of the mapping is
\* touched; without enough frames for the nodes it fails.  A recursive entry inside of the mapped
\* range is exempt: make() would clear the root through it.
LinearMapIsExact ==
    LET x == input.in
        before == BootTable(x.recursive, x.present)
        made == MakeWith(before, x.recursive, x.frames, x.free)
        virt(a) == MapPhys(made.result.value, a)
        own == RootEntriesFor(x.frames) IN
    Is("make") =>
        /\ \A i \in Indexes \ own :
              x.recursive \notin own => made.table.root[i] = before.root[i]
        /\ made.result = Err("NoFrame") => x.free < Cardinality(own)
        /\ made.result.ok /\ x.recursive \notin own =>
              \A a \in 0 .. PhysLimit - 1 :
                  IF a < x.frames * PageSize
                  THEN virt(a).ok /\ TranslateHuge(made.table, virt(a).value) = a
                  ELSE virt(a) = Err("Overflow")

\* The lines of dump() stand for exactly the mapped pages, each with its own flags, and no two
\* lines that follow each other could be one.
DumpKeepsEveryPage ==
    LET present == SelectSeq([i \in DOMAIN DumpPages |-> i], LAMBDA i : input.in[i] # {})
        leaf(i) == NewMappedBlock(input.in[i], Block(i, i + 1), Block(DumpPages[i], DumpPages[i] + 1))
        lines == FoldLeft(DumpStep, <<>>, [n \in DOMAIN present |-> leaf(present[n])]) IN
    Is("dump") =>
        /\ {<<DumpPages[i], input.in[i] \cap DumpFlags>> : i \in ToSet(present)}
             = UNION {IndexSet(line.pages) \X {line.flags \cap DumpFlags} : line \in ToSet(lines)}
        /\ \A n \in 1 .. Len(lines) - 1 :
              ~ /\ lines[n].pages.end = lines[n + 1].pages.start
                /\ lines[n].flags \cap DumpFlags = lines[n + 1].flags \cap DumpFlags

\* The selectors are those that syscall and sysret compute, no descriptor overlaps another, and
\* the processor finds the TSS of a CPU where TssEntry::new() was told it is.
SegmentsAreApart ==
    LET x == input.in IN
    Is("processors") =>
        /\ StarAccepts(UserCode, UserData, KernelCode, KernelData)
        /\ Cardinality({BasicSelector(s).index : s \in SegmentKinds}) = Cardinality(SegmentKinds)
        /\ TssEntries(x.c) \cap ({0} \cup {BasicSelector(s).index : s \in SegmentKinds}) = {}
        /\ x.c # x.d => TssEntries(x.c) \cap TssEntries(x.d) = {}
        /\ DescriptorBase(TssEntry(x.tss)) = x.tss /\ DescriptorLimit(TssEntry(x.tss)) = TssLimit

\* Each CPU has its own two stacks: what a push from the top of one reaches is mapped, shared with
\* no other stack, and ends at a page that is not mapped.
StacksAreGuarded ==
    LET mapped == NewStacks(TssCount * StacksPerCpu).mapped
        stacks(c) == {CpuStacks(c).kernel, CpuStacks(c).pageFault}
        below(i) == StackPointer(i) - StackPages + 1 .. StackPointer(i) - 1 IN
    Is("processors") =>
        \A i \in stacks(input.in.c), j \in stacks(input.in.d) :
            /\ below(i) \subseteq mapped
            /\ StackPointer(i) - StackPages \notin mapped
            /\ <<input.in.c, i>> # <<input.in.d, j>> => i # j /\ below(i) \cap below(j) = {}

\* The walk along a damaged stack ends, reads only whole aligned frames of the stack that lie above
\* the stack pointer and above each other, and shows every frame that a sound chain leads to.
BacktraceEnds ==
    LET x == input.in
        words == [a \in StackRange(-3, 11) |-> IF a \in StackFrames THEN x.outer[a] ELSE CodeAddress]
        made == IF x.context THEN BacktraceWithContext(x.rbp, x.rsp, CodeAddress)
                ELSE BacktraceOf(words, x.rbp, x.rsp)
        walk == IterateBacktrace(words, made.value, StackSize \div FrameSize + 2)
        at(i) == walk.frames[i].at
        sound(i, a) == /\ a % WordSize = 0 /\ a >= x.rsp /\ (i = 1 \/ a >= at(i) + FrameSize)
                       /\ a >= StackBottom /\ a + FrameSize <= StackBottom + StackSize
        live(a) == words[a] # 0 /\ \A v \in {words[a], words[a + WordSize]} : IsAddress("Virt", v) IN
    Is("backtrace") /\ made.ok =>
        /\ walk.b.stack_frame.outer = 0
        /\ \A i \in 1 .. Len(walk.frames) - 1 : sound(i, at(i + 1))
        /\ \A i \in DOMAIN walk.frames :
              LET a == walk.frames[i].outer IN
              sound(i, a) /\ live(a) => i < Len(walk.frames) /\ at(i + 1) = a

\* A block of memory that a process passes to the kernel and that does not end where the lower half
\* ends is accepted exactly when all of its bytes are user memory with the asked rights, and is
\* refused otherwise, with NoPage only about a page that is not mapped; the kernel does not panic.
\* A block that ends with the half is outside of this property: check_permission() panics on it in
\* enclosing() and Scheduling!CheckPermissionReturns is about that.
CheckedIsAccessible ==
    LET x == input.in
        b == Block(x.start, x.start + x.len)
        flags(p) == IF p \in DOMAIN x.pte THEN x.pte[p] ELSE IF p = UserPages.end - 1 THEN {"P", "U"} ELSE {}
        space == CHOOSE s \in Spaces : TRUE
        m == [pte |-> [s \in Spaces |-> [p \in PageNumbers |->
                 IF flags(p) = {} THEN NoPte ELSE Pte(1, flags(p))]]]
        touched == {a \div PageSize : a \in IndexSet(b)}
        granted(asked) == \A p \in touched : p \in IndexSet(UserPages) /\ {"U"} \cup asked \subseteq flags(p)
        read == LogValue(m, space, x.start, x.len)
        write == CheckPermission(m, space, b, x.flags, x.element) IN
    Is("permission") /\ b.end # Half =>
        /\ read.ok <=> granted({})
        /\ read # Panic
        /\ read = Err("NoPage") => \E p \in touched : flags(p) = {}
        /\ IsAddress("Virt", b.end) =>
              (write.ok <=> granted(x.flags) /\ x.start % x.element = 0 /\ x.len % x.element = 0)

\* bulk_allocate() gives as many elements as there are, up to the count: different ones, inside
\* the bitmap, that were free and from the first entry with a free one on; the count of free
\* elements stays that of the bits, and freeing the elements restores all.
BitmapSearchIsExact ==
    LET x == input.in
        new == NewBitmap(x.bits, x.len, NoElement)
        b == [new EXCEPT !.cursor = IF x.cursor < Entries(x.len) THEN x.cursor ELSE @]
        bulk == BulkAllocate(b, x.count)
        given == ToSet(bulk.elements)
        free == {i \in 0 .. x.len - 1 : ~x.bits[i]}
        distance(e) == (e \div BitsPerEntry - b.cursor) % Entries(x.len) IN
    Is("bitmap") =>
        /\ new.cursor \in 0 .. Max({0, Entries(x.len) - 1})
        /\ Len(bulk.elements) = Min({x.count, Cardinality(free)}) /\ Cardinality(given) = Len(bulk.elements)
        /\ given \subseteq free
        /\ given # {} => \A e \in free : distance(bulk.elements[1]) <= distance(e)
        /\ bulk.bitmap.free = CountFree(bulk.bitmap.bits, x.len)
        /\ LET back == FoldLeft(SetFree, bulk.bitmap, bulk.elements) IN
           back.bits = b.bits /\ back.free = b.free

\* The time of a TSC is the point of the line through the two ticks, rounded down to the asked
\* resolution, on both sides of the ticks.  The clock ticks once a second, as the RTC does, and
\* a second is as many TSC ticks as tsc_per_second() says, or a part of a tick more.  Two cases are
\* outside of this property, and the code does not give the time in them: a TSC so far from the
\* ticks that its product with the elapsed count overflows i64, and a clock with several ticks in
\* a second, of which the fraction is added as one of a second.
DatetimeIsExact ==
    LET x == input.in
        prev == [count |-> x.base.count + x.ticks, tsc |-> x.base.tsc + x.elapsed]
        at == DatetimeOf(x.base, prev, x.tsc, 1, x.parts)
        rate == TscPerSecond(x.base, prev, 1)
        part == NsecsPerSec \div x.parts
        shown == at.seconds * NsecsPerSec + at.nanoseconds
        line == (x.base.count * x.elapsed + x.ticks * (x.tsc - x.base.tsc)) * NsecsPerSec IN
    Is("datetime") /\ FitsI64(x.ticks * (x.tsc - x.base.tsc)) =>
        IF x.base.tsc = 0 \/ x.ticks = 0 THEN at = Time(prev.count, 0)
        ELSE /\ shown * x.elapsed <= line /\ line < (shown + part) * x.elapsed
             /\ shown % part = 0 /\ at.nanoseconds \in 0 .. NsecsPerSec - 1
             /\ x.tsc = x.base.tsc + rate => shown <= (x.base.count + 1) * NsecsPerSec
             /\ x.tsc = x.base.tsc + rate + 1 => shown >= (x.base.count + 1) * NsecsPerSec

ReadIsExact(read, device, regions) ==
    /\ ~read.panic /\ read.device = device
    /\ SelectSeq(read.bars, LAMBDA b : b # NoBar)
         = SelectSeq(regions, LAMBDA r : KindBits(r) + r.address # 0)

\* read_bars() finds each region of a device with its exact kind, address and size, writes no
\* register while the device decodes addresses, and leaves the device as it was.
BarsAreDecoded ==
    LET x == input.in
        device == PoweredOn(x.regions \o [i \in 1 .. NormalBars |-> NoBar], x.command) IN
    Is("bars") => ReadIsExact(ReadBars(device, NormalBars, NormalBars), device, x.regions)

\* The arithmetic of addresses, pages and blocks of ku/src/memory and range.rs is exact or an
\* error, at zero, at the hole between the halves and at the end of the address space; is_disjoint()
\* is claimed within a half, and enclosing() for blocks whose end is an address.
AddressesAreExact ==
    /\ AddressArithmeticIsExact /\ PageTableIndexesInvert /\ PageStepsAreExact
    /\ BlockAlgebraIsExact /\ EnclosingIsMinimal /\ SpaceIsPartitioned

\* What the kernel lays out at its start is exact: the linear map of phys2virt.rs, the lines of a
\* dump, the descriptors of the GDT and the guarded stacks of the processors.
TablesAreExact ==
    LinearMapIsExact /\ DumpKeepsEveryPage /\ SegmentsAreApart /\ StacksAreGuarded
=============================================================================
