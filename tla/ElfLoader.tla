----------------------------- MODULE ElfLoader -----------------------------
(***************************************************************************)
(* The ELF loader, ku/src/process/elf.rs, as create_process()              *)
(* (kernel/src/process/mod.rs) runs it: the segments of a file are copied  *)
(* into a block of the base address space, and the frames are mapped into  *)
(* the address space of the new process once the flags of their pages are  *)
(* known.  A segment is a program header of type LOAD: [start, end) in     *)
(* bytes, the bytes of it that the file holds, its flags and whether the   *)
(* file really has them.                                                   *)
(***************************************************************************)
EXTENDS VirtualMemory

CONSTANTS Src, Dst,      \* the base address space and the one of the process
          Segments,      \* program headers that a file may hold
          MaxSegments,   \* bound on program headers in a file
          ElfMisses,     \* bound on page table nodes that find no frame
          ElfPresentRoots

VARIABLES image,   \* the memory, as VirtualMemory describes it
          elf      \* the loader: [phase, curr, src, origin, loaded]

elfVars == <<image, elf>>

SrcFlags == {}      \* KERNEL_R
DstFlags == {"U"}   \* USER_R

\* A byte of memory: what the last owner of the frame left there, zero, or the byte of this
\* offset in the segment loaded as this number.
Stale == <<-1, 0>>
Zero == <<0, 0>>
FileByte(number, offset) == <<number, offset>>

NoRange == [start |-> 0, end |-> 0, flags |-> {"none"}]
VirtRange(s, e, flags) == [start |-> s, end |-> e, flags |-> flags]
BytesIn(r) == Block(r.start, r.end)
PagesOf(r) == Enclosing("Virt", BytesIn(r)).value
PageRange(b, flags) == [memory |-> b, flags |-> flags]

\* AddressSpace::duplicate() and Loader::new(); frames hold what their last owner left.
ElfInit ==
    LET fresh(allowed) == NewPageAllocator(ElfPresentRoots, allowed).value IN
    /\ image = [alloc |-> [a \in Spaces \cup {"kernel"} |->
                              fresh(IF a = "kernel" THEN KernelRootEntries ELSE UserRootEntries)],
                pte |-> [s \in Spaces |-> [p \in PageNumbers |-> NoPte]],
                data |-> [f \in MemoryFrames |-> [b \in 0 .. PageSize - 1 |-> Stale]],
                misses |-> ElfMisses]
    /\ elf = [phase |-> "loading", curr |-> NoRange, src |-> ZeroBlock, origin |-> 0, loaded |-> <<>>]

\* TryFrom<Flags> for PageTableFlags: a page is never both writable and executable.
SegmentFlags(flags) ==
    IF {"W", "X"} \subseteq flags THEN Err("PermissionDenied") ELSE Ok(flags)

\* TryFrom<ProgramHeader> for FileRange
FileRange(ph) ==
    IF ~SegmentFlags(ph.flags).ok THEN SegmentFlags(ph.flags)
    ELSE IF ph.file > ph.end - ph.start THEN Err("Overflow")
    ELSE AndThen(NewAddress("Virt", ph.start), LAMBDA a :
             AndThen(AddAddress("Virt", a, ph.end - ph.start), LAMBDA e :
                 AndThen(FromIndex(Bytes("Virt"), a, e), LAMBDA b : Ok(VirtRange(a, e, ph.flags)))))

\* validate_order()
ValidateOrder(curr, next) == Compare(BytesIn(curr), BytesIn(next)) = "Less"

\* combine(): what of curr is final, the page shared with next if it is final, and the rest.
Combine(curr, next) ==
    LET c == PagesOf(curr)
        n == PagesOf(next)
        both == curr.flags \cup next.flags
        last == Min({c.end, n.end}) - 1
        overlaps == Max({c.start, n.start}) <= last
        minus == IF c.start < last THEN <<PageRange(Block(c.start, last), curr.flags)>> ELSE <<>>
        final == overlaps /\ next.end > (last + 1) * PageSize
        boundary == IF final THEN <<PageRange(Block(last, last + 1), both)>> ELSE <<>>
        start == IF final THEN (last + 1) * PageSize
                 ELSE IF minus # <<>> THEN last * PageSize ELSE curr.start IN
    IF ~ValidateOrder(curr, next) THEN Err("InvalidArgument")
    ELSE IF IsDisjoint(Pages, c, n)
    THEN Ok([final |-> <<PageRange(c, curr.flags)>>, rest |-> next])
    ELSE Ok([final |-> minus \o boundary,
             rest |-> VirtRange(start, next.end, IF overlaps /\ ~final THEN both ELSE next.flags)])

\* The unsigned subtractions of extend_mapping() and copy_to_memory() overflow.
PanicMark == Block(1, 0)
Panicked(m) == {Outcome(FALSE, m, PanicMark)}

\* Loader::extend_mapping(): pages of the process, then room for them in the source block.
NewPages(e, next) ==
    IF e.curr = NoRange \/ IsDisjoint(Pages, PagesOf(e.curr), next) THEN next
    ELSE Block(Min({PagesOf(e.curr).end, next.end}), next.end)

ExtendMapping(m, e, seg) ==
    LET next == PagesOf(seg)
        new == NewPages(e, next)
        origin == IF e.curr = NoRange THEN next.start ELSE e.origin
        total == next.end - origin
        Grown(o) ==
            LET src == o.value
                fresh == {o.memory.pte[Src][p].frame : p \in src.start + Count(e.src) .. src.end - 1}
                zeroed == [f \in MemoryFrames |-> IF f \in fresh THEN [b \in 0 .. PageSize - 1 |-> Zero]
                                                  ELSE o.memory.data[f]] IN
            Done([o.memory EXCEPT !.data = zeroed], [e EXCEPT !.src = src, !.origin = origin]) IN
    Then(IF IsEmpty(new) THEN Done(m, new) ELSE ReserveFixed(m, Dst, new, DstFlags), LAMBDA o :
        IF total < 0 THEN Panicked(o.memory)
        ELSE IF total > Count(e.src)
        THEN Then(Grow(o.memory, Src, SrcFlags \cup {"W"}, SrcFlags, e.src, total * PageSize), Grown)
        ELSE Done(o.memory, [e EXCEPT !.origin = origin]))

\* Loader::copy_to_memory(): the bytes of the file, then zeros up to the size in memory.  There is
\* no slice of a source block that is still the empty one at address zero.
CopyToMemory(m, e, seg, number) ==
    LET FrameAt(b) == m.pte[Src][e.src.start + (b \div PageSize - e.origin)].frame
        written(f) == {b \in seg.start .. seg.end - 1 : FrameAt(b) = f}
        byte(b) == IF b < seg.start + seg.file THEN FileByte(number, b - seg.start) ELSE Zero
        after(f) == [i \in 0 .. PageSize - 1 |->
                        IF \E b \in written(f) : b % PageSize = i
                        THEN byte(CHOOSE b \in written(f) : b % PageSize = i)
                        ELSE m.data[f][i]] IN
    IF ~seg.inFile THEN Failed(m)
    ELSE IF seg.start < e.origin * PageSize THEN Panicked(m)
    ELSE IF ~TryIntoRef(StartAddress(Pages, e.src), 1).ok THEN Failed(m)
    ELSE Done([m EXCEPT !.data = [f \in MemoryFrames |-> after(f)]], e)

\* Loader::finalize_mapping()
FinalizeMappingUnshifted(m, e, range) ==
    IF IsEmpty(range.memory) THEN Done(m, e)
    ELSE CopyMapping(m, Src, Block(e.src.start, e.src.start + Count(range.memory)), Dst, range.memory,
                     range.flags \cup DstFlags, DstFlags)
FinalizeMapping(m, e, range) ==
    LET first == e.src.start + range.memory.start - e.origin IN
    IF IsEmpty(range.memory) THEN Done(m, e)
    ELSE CopyMapping(m, Src, Block(first, first + Count(range.memory)), Dst, range.memory,
                     range.flags \cup DstFlags, DstFlags)

FinalizeAll(m, e, ranges) ==
    FoldLeft(LAMBDA outs, r : Then(outs, LAMBDA o : FinalizeMapping(o.memory, e, r)), Done(m, e), ranges)

\* The part of load_program_header() after the copy.
MergeRange(m, e, next) ==
    IF e.curr = NoRange THEN Done(m, [e EXCEPT !.curr = next])
    ELSE LET r == Combine(e.curr, next) IN
         IF ~r.ok THEN Failed(m)
         ELSE Then(FinalizeAll(m, e, r.value.final), LAMBDA o :
                  Done(o.memory, [e EXCEPT !.curr = r.value.rest]))

\* One turn of the loop of load(): Loader::load_program_header().  create_process() drops the
\* address space of the process when the loader fails.
LoadProgramHeader(seg) ==
    LET range == FileRange(seg) IN
    /\ elf.phase = "loading" /\ Len(elf.loaded) < MaxSegments
    /\ IF ~range.ok
       THEN elf' = [elf EXCEPT !.phase = "failed", !.loaded = Append(@, seg)] /\ UNCHANGED image
       ELSE \E o \in Then(Then(ExtendMapping(image, elf, seg),
                               LAMBDA x : CopyToMemory(x.memory, x.value, seg, Len(elf.loaded) + 1)),
                          LAMBDA x : MergeRange(x.memory, x.value, range.value)) :
              /\ image' = IF o.ok THEN o.memory
                          ELSE [o.memory EXCEPT !.pte[Dst] = [p \in PageNumbers |-> NoPte]]
              /\ elf' = IF o.ok THEN [o.value EXCEPT !.loaded = Append(@, seg)]
                        ELSE [elf EXCEPT !.phase = IF o.value = PanicMark THEN "panic" ELSE "failed",
                                         !.loaded = Append(@, seg)]

\* Loader::finish()
FinishLoading ==
    /\ elf.phase = "loading"
    /\ IF elf.curr = NoRange THEN elf' = [elf EXCEPT !.phase = "done"] /\ UNCHANGED image
       ELSE \E o \in FinalizeMapping(image, elf, PageRange(PagesOf(elf.curr), elf.curr.flags)) :
              /\ image' = IF o.ok THEN o.memory
                          ELSE [o.memory EXCEPT !.pte[Dst] = [p \in PageNumbers |-> NoPte]]
              /\ elf' = [elf EXCEPT !.phase = IF o.ok THEN "done" ELSE "failed", !.curr = NoRange]

ElfNext == FinishLoading \/ \E seg \in Segments : LoadProgramHeader(seg)

-----------------------------------------------------------------------------
Touches(seg, p) == \E b \in seg.start .. seg.end - 1 : b \div PageSize = p
ByteAt(b) == image.data[image.pte[Dst][b \div PageSize].frame][b % PageSize]

\* A loaded process sees exactly its file: every page a segment touches is mapped, with the
\* union of the flags of the segments in it, the bytes of the file are in their places, the
\* rest of a segment is zero, no other page is mapped, and no byte of a frame is stale.
ImageIsExact ==
    elf.phase = "done" =>
      /\ \A p \in PageNumbers :
           LET touching == {i \in DOMAIN elf.loaded : Touches(elf.loaded[i], p)} IN
           /\ IsMapped(image, Dst, p) <=> touching # {}
           /\ touching # {} => image.pte[Dst][p].flags = DstFlags \cup UNION {elf.loaded[i].flags : i \in touching}
           /\ touching # {} => \A b \in 0 .. PageSize - 1 : ByteAt(p * PageSize + b) # Stale
      /\ \A i \in DOMAIN elf.loaded :
           LET seg == elf.loaded[i] IN
           \A b \in seg.start .. seg.end - 1 :
             ByteAt(b) = IF b < seg.start + seg.file THEN FileByte(i, b - seg.start) ELSE Zero

Sorted(segs) == \A i, j \in DOMAIN segs : i < j => segs[i].end <= segs[j].start

\* A segment that load() has no reason to refuse: not empty, in the file, with flags that a page
\* may have, and in the user half.
Loadable(seg) ==
    /\ seg.start < seg.end /\ seg.inFile /\ FileRange(seg).ok
    /\ IndexSet(PagesOf(seg)) \subseteq IndexSet(image.alloc[Dst].initial)

\* A file whose segments are in the order of their addresses, as the ELF specification demands,
\* does not make the kernel panic, and loads unless memory runs out or a segment of it is at
\* fault.  Of a file whose segments are out of order only this much is claimed: it never becomes
\* a process.  combine() and validate_order() document InvalidArgument for it, but
\* extend_mapping() and copy_to_memory() come first, and their subtractions may overflow.
ElfIsLoadedOrRefused ==
    IF Sorted(elf.loaded)
    THEN /\ elf.phase # "panic"
         /\ elf.phase = "failed" /\ image.misses = ElfMisses /\ FreeFrames(image) # {}
              => \E i \in DOMAIN elf.loaded : ~Loadable(elf.loaded[i])
    ELSE elf.phase # "done"

\* load() makes exactly the image of its file, or refuses a file whose segments are in order with
\* an error; one whose segments are out of order makes no process.
ElfIsExact == ImageIsExact /\ ElfIsLoadedOrRefused
=============================================================================
