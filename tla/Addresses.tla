----------------------------- MODULE Addresses -----------------------------
(***************************************************************************)
(* Typed addresses, pages, frames and blocks of them: ku/src/memory/       *)
(* {addr, frage, block, size, port}.rs and the split of the virtual space  *)
(* between the kernel and the user, kernel/src/memory/range.rs.            *)
(*                                                                         *)
(* The machine word is scaled down: usize is 0 .. Word - 1, virtual        *)
(* addresses are canonical, so they fill the lower half 0 .. Half - 1 and  *)
(* the higher half Word - Half .. Word - 1 with a hole between them.       *)
(* An element kind k is [tag, size]: bytes have size 1, pages and frames   *)
(* the size of a page.  Arithmetic is checked, as the dev, user and ci     *)
(* profiles of Cargo.toml build it: an overflow of + or * is a panic.      *)
(***************************************************************************)
EXTENDS Integers, Sequences, FiniteSets, FiniteSetsExt

CONSTANTS Word,          \* 2^64: the number of values of usize
          EntryCount,    \* PAGE_TABLE_ENTRY_COUNT: entries of a page table node
          LevelCount,    \* PAGE_TABLE_LEVEL_COUNT: levels of the page table
          PageSize,      \* L0_SIZE
          PhysLimit,     \* 2^52: the first invalid physical address
          PortLimit,     \* 2^16: the first invalid port
          KernelEntries  \* KERNEL_ROOT_LEVEL_ENTRY_COUNT

\* Virt::half_size(): half of what the levels of the page table address.
Half == (EntryCount ^ LevelCount * PageSize) \div 2

\* The static assertions of addr.rs, mmu.rs and range.rs.
ASSUME AddressConstants ==
    /\ {Word, EntryCount, LevelCount, PageSize, PhysLimit, PortLimit, KernelEntries} \subseteq Nat \ {0}
    /\ EntryCount % 4 = 0 /\ Half % PageSize = 0 /\ Word % Half = 0
    /\ 2 * Half < Word /\ PhysLimit < Word /\ PhysLimit % PageSize = 0 /\ PortLimit <= Word
    /\ KernelEntries <= EntryCount \div 4

Usize == 0 .. Word - 1

-----------------------------------------------------------------------------
(* Results *)

Ok(v) == [ok |-> TRUE, value |-> v]
Err(e) == [ok |-> FALSE, error |-> e]
Panic == Err("panic")

\* Result::and_then() and the ? operator.
AndThen(r, f(_)) == IF r.ok THEN f(r.value) ELSE r

\* Result::unwrap() and expect().
Unwrap(r) == IF r.ok THEN r ELSE Panic

-----------------------------------------------------------------------------
(* Addresses *)

\* Phys::new_impl(), Virt::new_impl(): leading zeros or ones beyond the unused bits.
IsAddress(tag, a) ==
    CASE tag = "Phys" -> a < PhysLimit
      [] tag = "Virt" -> a < Half \/ a >= Word - Half
      [] OTHER -> FALSE

NewAddress(tag, a) == IF IsAddress(tag, a) THEN Ok(a) ELSE Err("InvalidArgument")

\* Port::new_impl() for a port that transfers width bytes at once.
NewPort(width, a) ==
    IF a < PortLimit /\ a % width = 0 THEN Ok(a) ELSE Err("InvalidArgument")

\* IndexDataPortPair::from_index_port(): the data port follows the index port.
PortPair(width, index) ==
    AndThen(NewPort(width, index), LAMBDA i :
        IF index + width >= PortLimit THEN Err("Overflow")
        ELSE AndThen(NewPort(width, index + width), LAMBDA d : Ok([index |-> i, data |-> d])))

\* VirtTag::is_same_half() compares all bits from Virt::BITS - 1 up.
IsSameHalf(tag, x, y) == tag = "Virt" => x \div Half = y \div Half

InHalfOf(tag, a, r) ==
    AndThen(r, LAMBDA b : IF IsSameHalf(tag, a, b) THEN r ELSE Err("Overflow"))

AddAddress(tag, a, n) ==
    IF a + n >= Word THEN Err("Overflow") ELSE InHalfOf(tag, a, NewAddress(tag, a + n))

SubAddress(tag, a, n) ==
    IF a < n THEN Err("Overflow") ELSE InHalfOf(tag, a, NewAddress(tag, a - n))

\* Sub<Self> for Addr: the distance from b to a.
AddressDiff(tag, a, b) ==
    IF IsSameHalf(tag, a, b) /\ a >= b THEN Ok(a - b) ELSE Err("Overflow")

IsLowerHalf(a) == a \div (2 * Half) = 0
IsHigherHalf(a) == ~IsLowerHalf(a)

\* Virt::canonize() extends the sign; a has no more than Virt::BITS bits.
Canonize(a) == IF a > (2 * Half - 1) \div 2 THEN a + (Word - 2 * Half) ELSE a

PageTableIndex(a, level) == (a \div (PageSize * EntryCount ^ level)) % EntryCount

FromPageTableIndexes(indexes, offset) ==
    Canonize(PageSize * MapThenSumSet(LAMBDA level : indexes[level] * EntryCount ^ level,
                                      0 .. LevelCount - 1) + offset)

\* Virt::try_into_ptr(), try_into_ref(), try_into_slice() for a type of this alignment.
TryIntoRef(a, align) ==
    IF (a % align) # 0 THEN Err("InvalidAlignment")
    ELSE IF a = 0 THEN Err("Null") ELSE Ok(a)

-----------------------------------------------------------------------------
(* Pages and frames: Frage is the address of its first byte *)

Kind(tag, size) == [tag |-> tag, size |-> size]
Pages == Kind("Virt", PageSize)
Frames == Kind("Phys", PageSize)
Bytes(tag) == Kind(tag, 1)

\* Frage::new()
NewFrage(k, a) == IF a % k.size = 0 THEN Ok(a) ELSE Err("InvalidAlignment")

\* Frage::containing() of a valid address.
Containing(k, a) == a - (a % k.size)

\* Memory::address_by_index(), Frage::address_by_index(), Frage::from_index().
AddressByIndex(k, i) ==
    IF i * k.size >= Word THEN Err("Overflow") ELSE NewAddress(k.tag, i * k.size)

IndexByAddress(k, a) == a \div k.size

\* Frage + rhs, Frage - rhs, Frage - Frage: rhs * SIZE is not a checked_mul().
AddFrage(k, a, n) ==
    IF n * k.size >= Word THEN Panic
    ELSE AndThen(AddAddress(k.tag, a, n * k.size), LAMBDA b : NewFrage(k, b))
SubFrage(k, a, n) ==
    IF n * k.size >= Word THEN Panic
    ELSE AndThen(SubAddress(k.tag, a, n * k.size), LAMBDA b : NewFrage(k, b))
FrageDiff(k, a, b) == AndThen(AddressDiff(k.tag, a, b), LAMBDA d : Ok(d \div k.size))

\* Frage::offset(): the address with the offset of address a inside this frage.
OffsetInto(k, frage, a) == Unwrap(AddAddress(k.tag, frage, a % k.size))

CountUp(k, size) == (size + k.size - 1) \div k.size

HigherHalfStart == IndexByAddress(Pages, Word - Half)
HigherHalfEnd == (Word - 1) \div PageSize + 1
LowerHalfEnd == Half \div PageSize
NonCanonicalCount == HigherHalfStart - LowerHalfEnd

IsLowerPage(i) == i < LowerHalfEnd
IsHigherPage(i) == HigherHalfStart <= i

\* Step::steps_between(), from page index i to page index j; -1 stands for (0, None).
StepsBetween(i, j) ==
    IF i > j THEN -1
    ELSE IF IsLowerPage(i) = IsLowerPage(j) THEN j - i ELSE j - i - NonCanonicalCount

\* Step::forward_checked() and backward_checked() on page indexes; Err is None.
ForwardCheckedLate(i, n) ==
    LET advanced == IF i < LowerHalfEnd /\ LowerHalfEnd < i + n
                    THEN i + n + NonCanonicalCount ELSE i + n IN
    IF i + n >= Word \/ advanced >= Word THEN Err("None")
    ELSE AndThen(AddressByIndex(Pages, advanced), LAMBDA a : Ok(advanced))
ForwardChecked(i, n) ==
    LET advanced == IF i < LowerHalfEnd /\ LowerHalfEnd <= i + n
                    THEN i + n + NonCanonicalCount ELSE i + n IN
    IF i + n >= Word \/ advanced >= Word THEN Err("None")
    ELSE AndThen(AddressByIndex(Pages, advanced), LAMBDA a : Ok(advanced))

BackwardChecked(i, n) ==
    LET crosses == i - n < HigherHalfStart /\ HigherHalfStart <= i
        advanced == IF crosses THEN i - n - NonCanonicalCount ELSE i - n IN
    IF i < n \/ advanced < 0 THEN Err("None")
    ELSE Unwrap(AndThen(AddressByIndex(Pages, advanced), LAMBDA a : Ok(advanced)))

\* ElasticPage::advance_index()
AdvanceIndex(i, n) == LET r == ForwardChecked(i, n) IN IF r.ok THEN r.value ELSE HigherHalfEnd

-----------------------------------------------------------------------------
(* Blocks: [start, end) in elements *)

Block(s, e) == [start |-> s, end |-> e]
ZeroBlock == Block(0, 0)

\* Block::from_index(): both ends in one half; the last element, not the end, is an address.
FromIndex(k, s, e) ==
    AndThen(AddressByIndex(k, s), LAMBDA first :
        AndThen(AddressByIndex(k, IF s < e THEN e - 1 ELSE e), LAMBDA last :
            IF s <= e /\ IsSameHalf(k.tag, first, last) THEN Ok(Block(s, e))
            ELSE Err("InvalidArgument")))

\* Block::new() from addresses of two elements, Block::from_element() of one.
NewBlock(k, first, end) == FromIndex(k, IndexByAddress(k, first), IndexByAddress(k, end))
FromElement(k, a) ==
    LET i == IndexByAddress(k, a) IN IF i + 1 >= Word THEN Panic ELSE FromIndex(k, i, i + 1)

Count(b) == b.end - b.start
SizeOf(k, b) == Count(b) * k.size
IsEmpty(b) == b.start = b.end
StartAddress(k, b) == b.start * k.size
EndAddress(k, b) == AddressByIndex(k, b.end)

\* Without an end address every address from the start on counts as inside.
ContainsAddress(k, b, a) ==
    /\ a >= StartAddress(k, b)
    /\ LET e == EndAddress(k, b) IN e.ok => a < e.value

ContainsBlock(b, c) == b.start <= c.start /\ c.end <= b.end
ContainsIndex(b, i) == b.start <= i /\ i < b.end

\* Block::address() and Block::offset()
AddressAt(k, b, offset) ==
    IF offset < SizeOf(k, b) THEN Unwrap(NewAddress(k.tag, StartAddress(k, b) + offset))
    ELSE Err("Overflow")
OffsetOf(k, b, a) ==
    IF ContainsAddress(k, b, a) THEN Ok(a - StartAddress(k, b)) ELSE Err("Overflow")

IsAdjacent(k, b, c) == EndAddress(k, b) = Ok(StartAddress(k, c))

IsDisjoint(k, b, c) ==
    \/ IsEmpty(b) \/ IsEmpty(c)
    \/ /\ ~ContainsAddress(k, b, StartAddress(k, c))
       /\ ~ContainsAddress(k, c, StartAddress(k, b))

Coalesce(k, b, c) ==
    IF IsAdjacent(k, b, c) THEN Unwrap(FromIndex(k, b.start, c.end))
    ELSE Err("InvalidArgument")

Intersection(k, b, c) ==
    LET s == Max({b.start, c.start})
        e == Min({b.end, c.end}) IN
    IF s <= e THEN Unwrap(FromIndex(k, s, e)) ELSE Ok(ZeroBlock)

\* Block::slice(); Err is None.
Slice(k, b, from, to) ==
    IF from <= to /\ to <= Count(b) THEN FromIndex(k, b.start + from, b.start + to)
    ELSE Err("None")

\* Block::tail() gives the count last elements and what is left in the block.
Tail_(k, b, count) ==
    IF count > Count(b) THEN Err("None")
    ELSE AndThen(FromIndex(k, b.end - count, b.end), LAMBDA taken :
             Ok([taken |-> taken, left |-> Block(b.start, b.end - count)]))

\* Block::enclosing(): the pages that cover a block of bytes.
Enclosing(tag, b) ==
    LET k == Kind(tag, PageSize)
        first == IndexByAddress(k, b.start)
        end == IF b.start = b.end THEN Ok(first)
               ELSE AndThen(Unwrap(EndAddress(Bytes(tag), b)), LAMBDA e :
                        AndThen(Unwrap(SubAddress(tag, e, 1)), LAMBDA last :
                            Ok(IndexByAddress(k, last) + 1))) IN
    AndThen(end, LAMBDA e : Unwrap(FromIndex(k, first, e)))

\* From<Block<Frage>> for Block<Addr>
BytesOf(k, b) ==
    AndThen(Unwrap(EndAddress(k, b)), LAMBDA e :
        Unwrap(FromIndex(Bytes(k.tag), StartAddress(k, b), e)))

\* PartialOrd for Block
Compare(b, c) ==
    IF b.end <= c.start THEN "Less"
    ELSE IF c.end <= b.start THEN "Greater"
    ELSE IF b = c THEN "Equal" ELSE "None"

\* Block::try_into_slice() of elements of this size and alignment; the value is its length.
TryIntoSlice(b, size, align) ==
    IF (Count(b) % size) # 0 THEN Err("InvalidArgument")
    ELSE AndThen(TryIntoRef(b.start, align), LAMBDA a : Ok(Count(b) \div size))

\* The elements of a block.
IndexSet(b) == b.start .. b.end - 1

\* IntoIter visits the elements in order.
Elements(b) == [i \in 1 .. Count(b) |-> b.start + i - 1]

-----------------------------------------------------------------------------
(* The kernel and the user halves of the lower half: range.rs *)

PagesPerRootEntry == EntryCount ^ (LevelCount - 1)
KernelRootEntries == 0 .. KernelEntries - 1
UserRootEntries == KernelEntries .. EntryCount \div 2 - 1

UserPages ==
    Block(KernelEntries * PagesPerRootEntry, (EntryCount \div 2) * PagesPerRootEntry)

IsUserBlock(b) == ContainsBlock(UserPages, b)
IsKernelBlock(b) == ~IsUserBlock(b) /\ IsDisjoint(Pages, UserPages, b)
IsUserPage(i) == ContainsAddress(Pages, UserPages, i * PageSize)

ValidateBlock(b) ==
    IF IsKernelBlock(b) # IsUserBlock(b) THEN Ok(TRUE) ELSE Err("PermissionDenied")

ValidateBlockFlags(b, user) ==
    AndThen(ValidateBlock(b), LAMBDA u :
        IF IsUserBlock(b) = user THEN Ok(TRUE) ELSE Err("PermissionDenied"))

ValidatePageFlags(i, user) ==
    IF IsUserPage(i) = user THEN Ok(TRUE) ELSE Err("PermissionDenied")

\* physical(): a fold over the memory map; a region is [block, usable].
PhysicalFrames(map) ==
    LET Prev(i) == IF i = 1 THEN ZeroBlock ELSE map[i - 1].block
        Counted(i) == map[i].usable \/ IsAdjacent(Frames, Prev(i), map[i].block) IN
    Unwrap(FromIndex(Frames, 0, Max({0} \cup {map[i].block.end : i \in {j \in DOMAIN map : Counted(j)}})))
=============================================================================
