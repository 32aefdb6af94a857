----------------------------- MODULE HeapProofs -----------------------------
(***************************************************************************)
(* Proofs about a size class of the heap, for any number of CPUs, any size *)
(* of blocks, pages, slabs and clips and any supply of frames: a block is  *)
(* handed out once and is mapped, null means that there is no block, the   *)
(* statistics are exact, and unmap() finds everything back.                *)
(***************************************************************************)
EXTENDS Heap, FiniteSetTheorems, TLAPS

\* Where a CPU deals with a block of its own, and where it owes a deallocation to the statistics.
Carries == {"count_allocation", "spill", "unfill"}
Owes == {"count_deallocation", "spill", "unfill"}
Owing == {c \in Cpus : pc[c] \in Owes}

CpuInv ==
    \A c \in Cpus :
        /\ pc[c] \in {"fill", "unfill"} <=> allocator_lock = c
        /\ pc[c] \in Carries <=> ptr[c] # Nothing
        /\ pc[c] = "fill" => free > 0 \/ bitmap_len = Capacity

CountInv == ~heap_panicked => info.allocations = Cardinality(held) + Cardinality(Owing)

\* A page that stock_up() has failed to map stays unmapped, so a class whose pages are all mapped
\* has counted them all.
PageInv ==
    /\ mapped \subseteq PagesFor(bitmap_len)
    /\ ~heap_panicked /\ PagesFor(bitmap_len) \subseteq mapped
         => info.pages = Cardinality(PagesFor(bitmap_len)) + BitmapPages(bitmap_len)
    /\ ~shortage => /\ mapped = PagesFor(bitmap_len) /\ slabs = SlabsFor(bitmap_len)
                    /\ bitmap_block <=> bitmap_len > 0
    /\ ~quarry => bitmap_len = 0

HeapInv == HeapTypeOK /\ CpuInv /\ BlocksAreExclusive /\ CountInv /\ PageInv /\ NoHeapPanic
-----------------------------------------------------------------------------
(* Division *)

\* Rounding down.
LEMMA DivFacts ==
    ASSUME NEW k \in Nat \ {0}, NEW a \in Nat
    PROVE  /\ a \div k \in Nat /\ a % k \in Nat /\ a % k < k
           /\ a % k = a - k * (a \div k)
           /\ \A q \in Nat : a < k * q <=> a \div k < q
<1>1. a \div k \in Nat /\ a % k \in Nat /\ a % k < k
  OBVIOUS
<1>2. a % k = a - k * (a \div k)
  OBVIOUS
<1>3. \A q \in Nat : a < k * q <=> a \div k < q
  OBVIOUS
<1> QED BY <1>1, <1>2, <1>3

\* Division keeps the order.
LEMMA DivMono ==
    ASSUME NEW k \in Nat \ {0}, NEW a \in Nat, NEW b \in Nat, a <= b
    PROVE  a \div k <= b \div k
OBVIOUS

\* Multiplication keeps the order and stays among the naturals.
LEMMA TimesFacts ==
    ASSUME NEW k \in Nat, NEW a \in Nat, NEW b \in Nat, a <= b
    PROVE  /\ k * a \in Nat /\ k * b \in Nat /\ a * k \in Nat /\ b * k \in Nat
           /\ k * a <= k * b /\ a * k <= b * k
OBVIOUS

\* Rounding up.
LEMMA CeilFacts ==
    ASSUME NEW k \in Nat \ {0}, NEW a \in Nat
    PROVE  /\ CeilDiv(a, k) \in Nat
           /\ CeilDiv(0, k) = 0
           /\ \A q \in Nat : a <= k * q <=> CeilDiv(a, k) <= q
BY DEF CeilDiv

\* Rounding up keeps the order.
LEMMA CeilMono ==
    ASSUME NEW k \in Nat \ {0}, NEW a \in Nat, NEW b \in Nat, a <= b
    PROVE  CeilDiv(a, k) <= CeilDiv(b, k)
BY DEF CeilDiv

\* What comes before b lies in one of the units that b takes.
LEMMA CeilCovers ==
    ASSUME NEW k \in Nat \ {0}, NEW a \in Nat, NEW b \in Nat, a < b
    PROVE  a \div k < CeilDiv(b, k)
<1>1. /\ CeilDiv(b, k) \in Nat
      /\ \A q \in Nat : b <= k * q <=> CeilDiv(b, k) <= q
  BY CeilFacts
<1>2. b <= k * CeilDiv(b, k)
  BY <1>1
<1>3. \A q \in Nat : k * q \in Nat
  OBVIOUS
<1>4. a < k * CeilDiv(b, k)
  BY <1>1, <1>2, <1>3
<1> QED BY <1>1, <1>4, DivFacts
-----------------------------------------------------------------------------
(* Slabs and pages *)

\* A slab holds a block at least.
LEMMA Sizes ==
    /\ Size \in Nat \ {0} /\ PageSize \in Nat \ {0} /\ BitsPerPage \in Nat \ {0}
    /\ SlabPageCount \in Nat \ {0} /\ SlabCount \in Nat \ {0}
    /\ ClipSize \in Nat /\ ClipSize > 1
    /\ SlabBlocks \in Nat \ {0}
    /\ Capacity \in Nat
    /\ Blocks \subseteq Nat
<1>1. /\ Size \in Nat \ {0} /\ PageSize \in Nat \ {0} /\ BitsPerPage \in Nat \ {0}
      /\ SlabPageCount \in Nat \ {0} /\ SlabCount \in Nat \ {0}
      /\ ClipSize \in Nat /\ ClipSize > 1
  BY SizesAssumption
<1>2. SlabPageCount * PageSize \in Nat
  BY <1>1
<1>3. Size * 1 <= Size * ClipSize /\ Size * ClipSize = ClipSize * Size /\ ClipSize * Size \in Nat
  BY <1>1
<1>4. ClipSize * Size < SlabPageCount * PageSize
  BY SizesAssumption
<1>5. ~(SlabPageCount * PageSize < Size * 1)
  BY <1>1, <1>2, <1>3, <1>4
<1>6. SlabBlocks \in Nat /\ ~(SlabBlocks < 1)
  BY <1>1, <1>2, <1>5, DivFacts DEF SlabBlocks
<1>7. SlabBlocks \in Nat \ {0}
  BY <1>6
<1>8. Capacity \in Nat
  BY <1>1, <1>7 DEF Capacity
<1>9. Blocks \subseteq Nat
  BY <1>8 DEF Blocks
<1> QED BY <1>1, <1>7, <1>8, <1>9

\* A class has finitely many pages.
LEMMA PagesAreFinite ==
    /\ IsFiniteSet(SlabPages)
    /\ \A n : PagesFor(n) \subseteq SlabPages /\ IsFiniteSet(PagesFor(n))
<1>1. IsFiniteSet(0 .. SlabCount - 1) /\ IsFiniteSet(0 .. SlabPageCount - 1)
  BY Sizes, FS_Interval
<1>2. IsFiniteSet(SlabPages)
  BY <1>1, FS_Product DEF SlabPages
<1>3. \A n : PagesFor(n) \subseteq SlabPages
  BY DEF PagesFor
<1> QED BY <1>2, <1>3, FS_Subset

\* A page is a pair of numbers.
LEMMA PageNumbers == \A q \in SlabPages : q[1] \in Nat /\ q[2] \in Nat
BY Sizes DEF SlabPages

\* No blocks take no pages and no slabs.
LEMMA NothingTakesNothing ==
    PagesFor(0) = {} /\ SlabsFor(0) = {} /\ BitmapPages(0) = 0 /\ Cardinality(PagesFor(0)) = 0
<1>1. 0 \div SlabBlocks = 0 /\ 0 % SlabBlocks = 0
  BY Sizes
<1>2. SlabPageCountOf(0) = 0
  <2>1. 0 * Size = 0
    BY Sizes
  <2> QED BY <2>1, Sizes, CeilFacts DEF SlabPageCountOf
<1>3. PagesFor(0) = {}
  BY <1>1, <1>2 DEF PagesFor, SlabPages
<1>4. SlabsFor(0) = {} /\ BitmapPages(0) = 0
  BY Sizes, CeilFacts DEF SlabsFor, BitmapPages
<1> QED BY <1>3, <1>4, FS_EmptySet

\* More blocks take more of everything, up to all the slabs.
LEMMA MoreTakesMore ==
    ASSUME NEW a \in Nat, NEW b \in Nat, a <= b, b <= Capacity
    PROVE  /\ PagesFor(a) \subseteq PagesFor(b)
           /\ SlabsFor(a) \subseteq SlabsFor(b) /\ SlabsFor(b) \subseteq 0 .. SlabCount - 1
           /\ BitmapPages(a) \in Nat /\ BitmapPages(b) \in Nat /\ BitmapPages(a) <= BitmapPages(b)
<1>1. /\ a \div SlabBlocks \in Nat /\ b \div SlabBlocks \in Nat
      /\ a \div SlabBlocks <= b \div SlabBlocks
      /\ a % SlabBlocks \in Nat /\ b % SlabBlocks \in Nat
      /\ a % SlabBlocks = a - SlabBlocks * (a \div SlabBlocks)
      /\ b % SlabBlocks = b - SlabBlocks * (b \div SlabBlocks)
  BY Sizes, DivFacts, DivMono
<1>2. ASSUME a \div SlabBlocks = b \div SlabBlocks PROVE PagesFor(a) \subseteq PagesFor(b)
  <2>1. SlabBlocks * (a \div SlabBlocks) \in Nat
    BY <1>1, Sizes
  <2>2. a % SlabBlocks <= b % SlabBlocks
    BY <1>1, <1>2, <2>1
  <2>3. /\ (a % SlabBlocks) * Size \in Nat /\ (b % SlabBlocks) * Size \in Nat
        /\ (a % SlabBlocks) * Size <= (b % SlabBlocks) * Size
    BY <2>2, <1>1, Sizes, TimesFacts
  <2>4. SlabPageCountOf(a % SlabBlocks) <= SlabPageCountOf(b % SlabBlocks)
    BY <2>3, Sizes, CeilMono DEF SlabPageCountOf
  <2>5. SlabPageCountOf(a % SlabBlocks) \in Nat /\ SlabPageCountOf(b % SlabBlocks) \in Nat
    BY <2>3, Sizes, CeilFacts DEF SlabPageCountOf
  <2>6. SUFFICES ASSUME NEW q \in PagesFor(a) PROVE q \in PagesFor(b)
    OBVIOUS
  <2>7. q \in SlabPages /\ q[1] \in Nat /\ q[2] \in Nat
    BY PageNumbers DEF PagesFor
  <2>8. \/ q[1] < a \div SlabBlocks
        \/ q[1] = a \div SlabBlocks /\ q[2] < SlabPageCountOf(a % SlabBlocks)
    BY DEF PagesFor
  <2>9. \/ q[1] < b \div SlabBlocks
        \/ q[1] = b \div SlabBlocks /\ q[2] < SlabPageCountOf(b % SlabBlocks)
    BY <1>2, <2>4, <2>5, <2>7, <2>8
  <2> QED BY <2>7, <2>9 DEF PagesFor
<1>3. ASSUME a \div SlabBlocks < b \div SlabBlocks PROVE PagesFor(a) \subseteq PagesFor(b)
  <2>1. SUFFICES ASSUME NEW q \in PagesFor(a) PROVE q \in PagesFor(b)
    OBVIOUS
  <2>2. q \in SlabPages /\ q[1] \in Nat
    BY PageNumbers DEF PagesFor
  <2>3. q[1] <= a \div SlabBlocks
    BY <2>2, <1>1 DEF PagesFor
  <2>4. q[1] < b \div SlabBlocks
    BY <1>1, <1>3, <2>2, <2>3
  <2> QED BY <2>2, <2>4 DEF PagesFor
<1>4. PagesFor(a) \subseteq PagesFor(b)
  BY <1>1, <1>2, <1>3
<1>5. /\ CeilDiv(a, SlabBlocks) \in Nat /\ CeilDiv(b, SlabBlocks) \in Nat
      /\ CeilDiv(a, SlabBlocks) <= CeilDiv(b, SlabBlocks)
      /\ CeilDiv(b, SlabBlocks) <= SlabCount
  BY Sizes, CeilFacts, CeilMono DEF Capacity
<1>6. BitmapPages(a) \in Nat /\ BitmapPages(b) \in Nat /\ BitmapPages(a) <= BitmapPages(b)
  BY Sizes, CeilFacts, CeilMono DEF BitmapPages
<1> QED BY <1>4, <1>5, <1>6, Sizes DEF SlabsFor

\* All the bytes of the first n blocks are in the pages that are mapped for them.
LEMMA BlocksArePaged ==
    ASSUME NEW n \in Nat, n <= Capacity, NEW b \in Nat, b < n
    PROVE  PagesOf(b) \subseteq PagesFor(n) /\ SlabOf(b) \in SlabsFor(n)
<1>1. /\ b \div SlabBlocks \in Nat /\ b % SlabBlocks \in Nat
      /\ b % SlabBlocks = b - SlabBlocks * (b \div SlabBlocks)
  BY Sizes, DivFacts
<1>2. /\ n \div SlabBlocks \in Nat /\ n % SlabBlocks \in Nat
      /\ n % SlabBlocks = n - SlabBlocks * (n \div SlabBlocks)
  BY Sizes, DivFacts
<1>3. b \div SlabBlocks <= n \div SlabBlocks
  BY Sizes, DivMono
<1>4. SlabOf(b) \in SlabsFor(n)
  <2>1. b \div SlabBlocks < CeilDiv(n, SlabBlocks) /\ CeilDiv(n, SlabBlocks) \in Nat
    BY Sizes, CeilCovers, CeilFacts
  <2> QED BY <2>1, <1>1 DEF SlabOf, SlabsFor
<1>5. SUFFICES ASSUME NEW q \in PagesOf(b) PROVE q \in PagesFor(n)
  BY <1>4
<1>6. q \in SlabPages /\ q[1] \in Nat /\ q[2] \in Nat /\ q[1] = b \div SlabBlocks
  BY PageNumbers DEF PagesOf, SlabOf
<1>7. CASE b \div SlabBlocks < n \div SlabBlocks
  BY <1>6, <1>7 DEF PagesFor
<1>8. CASE b \div SlabBlocks = n \div SlabBlocks
  <2> DEFINE i == b % SlabBlocks
             j == n % SlabBlocks
  <2>1. q[2] <= (i * Size + Size - 1) \div PageSize
    BY <1>6 DEF PagesOf
  <2>2. i \in Nat /\ j \in Nat /\ i + 1 <= j
    <3>1. SlabBlocks * (b \div SlabBlocks) \in Nat
      BY <1>1, Sizes
    <3> QED BY <3>1, <1>1, <1>2, <1>8
  <2>3. q[2] < SlabPageCountOf(j)
    <3> HIDE DEF i, j
    <3>1. (i + 1) * Size = i * Size + Size /\ i * Size \in Nat
      BY <2>2, Sizes
    <3>2. (i + 1) * Size <= j * Size /\ j * Size \in Nat
      BY <2>2, Sizes, TimesFacts
    <3>3. i * Size + Size - 1 \in Nat /\ i * Size + Size - 1 < j * Size
      BY <3>1, <3>2, Sizes
    <3>4. (i * Size + Size - 1) \div PageSize < SlabPageCountOf(j)
      BY <3>2, <3>3, Sizes, CeilCovers DEF SlabPageCountOf
    <3>5. SlabPageCountOf(j) \in Nat /\ (i * Size + Size - 1) \div PageSize \in Nat
      BY <3>2, <3>3, Sizes, CeilFacts, DivFacts DEF SlabPageCountOf
    <3> QED BY <2>1, <3>4, <3>5, <1>6
  <2> QED BY <2>3, <1>6, <1>8 DEF PagesFor
<1> QED BY <1>1, <1>2, <1>3, <1>7, <1>8
-----------------------------------------------------------------------------
(* Finite sets in order, and sequences *)

\* The operators that the code's min() and max() are modelled by.
LEMMA MinMax ==
    ASSUME NEW a \in Int, NEW b \in Int
    PROVE  /\ Min({a, b}) = IF a <= b THEN a ELSE b
           /\ Max({a, b}) = IF a <= b THEN b ELSE a
<1>1. \E x \in {a, b} : \A y \in {a, b} : x <= y
  OBVIOUS
<1>2. \E x \in {a, b} : \A y \in {a, b} : x >= y
  OBVIOUS
<1>3. Min({a, b}) \in {a, b} /\ \A y \in {a, b} : Min({a, b}) <= y
  BY <1>1 DEF Min
<1>4. Max({a, b}) \in {a, b} /\ \A y \in {a, b} : Max({a, b}) >= y
  BY <1>2 DEF Max
<1> QED BY <1>3, <1>4

\* How many elements of S come before x in the order R.
Rank(S, R, x) == Cardinality({y \in S : <<y, x>> \in R})

\* In a finite set that R orders, each number below the size is the rank of one element.
LEMMA Ranks ==
    ASSUME NEW S, IsFiniteSet(S), NEW R,
           \A x \in S : <<x, x>> \notin R,
           \A x, y \in S : x = y \/ <<x, y>> \in R \/ <<y, x>> \in R,
           \A x, y, z \in S : <<x, y>> \in R /\ <<y, z>> \in R => <<x, z>> \in R
    PROVE  /\ \A k \in 0 .. Cardinality(S) - 1 : \E x \in S : Rank(S, R, x) = k
           /\ \A k \in Nat : /\ IsFiniteSet({x \in S : Rank(S, R, x) < k})
                             /\ Cardinality({x \in S : Rank(S, R, x) < k}) <= k
<1> DEFINE Below(x) == {y \in S : <<y, x>> \in R}
           n == Cardinality(S)
           rank == [x \in S |-> Rank(S, R, x)]
<1>1. n \in Nat
  BY FS_CardinalityType
<1>0. \A x \in S : IsFiniteSet(Below(x))
  BY FS_Subset
<1>2. \A x \in S : Rank(S, R, x) \in Nat
  <2>1. TAKE x \in S
  <2>2. Cardinality(Below(x)) \in Nat
    BY <1>0, FS_CardinalityType
  <2> QED BY <2>2 DEF Rank
<1>3. \A x \in S : Rank(S, R, x) < n
  <2>1. TAKE x \in S
  <2>2. Below(x) \in SUBSET S /\ Below(x) # S
    OBVIOUS
  <2>3. Cardinality(Below(x)) <= n /\ n # Cardinality(Below(x))
    BY <2>2, FS_Subset
  <2> QED BY <2>3, <1>1, <1>2 DEF Rank
<1>4. \A x, y \in S : <<x, y>> \in R => Rank(S, R, x) < Rank(S, R, y)
  <2>1. SUFFICES ASSUME NEW x \in S, NEW y \in S, <<x, y>> \in R
                 PROVE  Rank(S, R, x) < Rank(S, R, y)
    OBVIOUS
  <2>2. Below(x) \in SUBSET Below(y)
    BY <2>1
  <2>3. x \in Below(y) /\ x \notin Below(x)
    BY <2>1
  <2>4. IsFiniteSet(Below(y))
    BY <1>0
  <2>5. Cardinality(Below(x)) <= Cardinality(Below(y)) /\ Cardinality(Below(y)) # Cardinality(Below(x))
    BY <2>2, <2>3, <2>4, FS_Subset
  <2>6. Rank(S, R, x) <= Rank(S, R, y) /\ Rank(S, R, x) # Rank(S, R, y)
    BY <2>5 DEF Rank
  <2> QED BY <2>6, <1>2
<1>5. \A x, y \in S : Rank(S, R, x) = Rank(S, R, y) => x = y
  <2>1. SUFFICES ASSUME NEW x \in S, NEW y \in S, Rank(S, R, x) = Rank(S, R, y), x # y
                 PROVE  FALSE
    OBVIOUS
  <2>2. <<x, y>> \in R \/ <<y, x>> \in R
    BY <2>1
  <2> QED BY <2>1, <2>2, <1>2, <1>4
<1>6. rank \in Injection(S, 0 .. n - 1)
  <2>1. rank \in [S -> 0 .. n - 1]
    BY <1>1, <1>2, <1>3
  <2>2. IsInjective(rank)
    BY <1>5 DEF IsInjective
  <2> QED BY <2>1, <2>2 DEF Injection
<1>7. IsFiniteSet(0 .. n - 1) /\ Cardinality(0 .. n - 1) = n
  <2> HIDE DEF n
  <2> QED BY <1>1, FS_Interval
<1>8. rank \in Surjection(S, 0 .. n - 1)
  BY <1>6, <1>7, FS_Injection
<1>9. \A k \in 0 .. n - 1 : \E x \in S : Rank(S, R, x) = k
  BY <1>8 DEF Surjection
<1>10. ASSUME NEW k \in Nat
       PROVE  /\ IsFiniteSet({x \in S : Rank(S, R, x) < k})
              /\ Cardinality({x \in S : Rank(S, R, x) < k}) <= k
  <2> DEFINE T == {x \in S : Rank(S, R, x) < k}
             f == [x \in T |-> Rank(S, R, x)]
  <2>1. f \in [T -> 0 .. k - 1]
    BY <1>2
  <2>2. IsInjective(f)
    BY <1>5 DEF IsInjective
  <2>3. f \in Injection(T, 0 .. k - 1)
    BY <2>1, <2>2 DEF Injection
  <2>4. IsFiniteSet(0 .. k - 1) /\ Cardinality(0 .. k - 1) = k
    BY FS_Interval
  <2> QED BY <2>3, <2>4, FS_Injection
<1> QED BY <1>9, <1>10

\* A failed map_block() leaves a page out.
LEMMA FirstPagesFacts ==
    ASSUME NEW S \in SUBSET SlabPages, NEW k \in Nat, k < Cardinality(S)
    PROVE  FirstPages(S, k) \subseteq S /\ ~(S \subseteq FirstPages(S, k))
<1> DEFINE R == {r \in SlabPages \X SlabPages : Before(r[1], r[2])}
<1>1. IsFiniteSet(S) /\ Cardinality(S) \in Nat
  BY PagesAreFinite, FS_Subset, FS_CardinalityType
<1>2. \A p, q \in SlabPages : <<p, q>> \in R <=> Before(p, q)
  OBVIOUS
<1>3. \A p, q \in SlabPages : p[1] = q[1] /\ p[2] = q[2] => p = q
  BY DEF SlabPages
<1> HIDE DEF R
<1>4. \A x \in S : <<x, x>> \notin R
  BY <1>2, PageNumbers DEF Before
<1>5. \A x, y \in S : x = y \/ <<x, y>> \in R \/ <<y, x>> \in R
  <2>1. TAKE x, y \in S
  <2>2. x = y \/ Before(x, y) \/ Before(y, x)
    BY <1>3, PageNumbers DEF Before
  <2> QED BY <2>2, <1>2
<1>6. \A x, y, z \in S : <<x, y>> \in R /\ <<y, z>> \in R => <<x, z>> \in R
  <2>1. TAKE x, y, z \in S
  <2>2. Before(x, y) /\ Before(y, z) => Before(x, z)
    BY PageNumbers DEF Before
  <2> QED BY <2>2, <1>2
<1>7. PICK x \in S : Rank(S, R, x) = Cardinality(S) - 1
  <2>1. Cardinality(S) - 1 \in 0 .. Cardinality(S) - 1
    BY <1>1
  <2> QED BY <2>1, <1>1, <1>4, <1>5, <1>6, Ranks
<1>8. {p \in S : Before(p, x)} = {p \in S : <<p, x>> \in R}
  BY <1>2
<1>9. Cardinality({p \in S : Before(p, x)}) = Cardinality(S) - 1
  BY <1>7, <1>8 DEF Rank
<1>10. x \notin FirstPages(S, k)
  BY <1>1, <1>9 DEF FirstPages
<1> QED BY <1>10 DEF FirstPages

\* The first k elements of a finite set of numbers.
LEMMA FirstNumbers ==
    ASSUME NEW S \in SUBSET Nat, IsFiniteSet(S), NEW k \in Nat
    PROVE  LET T == {i \in S : Cardinality({j \in S : j < i}) < k}
           IN  /\ IsFiniteSet(T) /\ Cardinality(T) <= k
               /\ S # {} /\ k > 0 => T # {}
<1> DEFINE R == {r \in Nat \X Nat : r[1] < r[2]}
           T == {i \in S : Cardinality({j \in S : j < i}) < k}
<1>1. \A i, j \in Nat : <<i, j>> \in R <=> i < j
  OBVIOUS
<1> HIDE DEF R
<1>2. \A x \in S : <<x, x>> \notin R
  BY <1>1
<1>3. \A x, y \in S : x = y \/ <<x, y>> \in R \/ <<y, x>> \in R
  <2>1. TAKE x, y \in S
  <2>2. x \in Nat /\ y \in Nat
    OBVIOUS
  <2> QED BY <2>2, <1>1
<1>4. \A x, y, z \in S : <<x, y>> \in R /\ <<y, z>> \in R => <<x, z>> \in R
  <2>1. TAKE x, y, z \in S
  <2>2. x \in Nat /\ y \in Nat /\ z \in Nat
    OBVIOUS
  <2> QED BY <2>2, <1>1
<1>5. /\ \A m \in 0 .. Cardinality(S) - 1 : \E x \in S : Rank(S, R, x) = m
      /\ IsFiniteSet({x \in S : Rank(S, R, x) < k})
      /\ Cardinality({x \in S : Rank(S, R, x) < k}) <= k
  <2>1. \A m \in 0 .. Cardinality(S) - 1 : \E x \in S : Rank(S, R, x) = m
    BY <1>2, <1>3, <1>4, Ranks
  <2>2. \A m \in Nat : /\ IsFiniteSet({x \in S : Rank(S, R, x) < m})
                       /\ Cardinality({x \in S : Rank(S, R, x) < m}) <= m
    BY <1>2, <1>3, <1>4, Ranks
  <2> QED BY <2>1, <2>2
<1>6. \A i \in S : Rank(S, R, i) = Cardinality({j \in S : j < i})
  <2>1. TAKE i \in S
  <2>2. {j \in S : j < i} = {j \in S : <<j, i>> \in R}
    BY <1>1
  <2> QED BY <2>2 DEF Rank
<1>7. T = {x \in S : Rank(S, R, x) < k}
  BY <1>6
<1>8. ASSUME S # {}, k > 0 PROVE T # {}
  <2>1. Cardinality(S) \in Nat /\ Cardinality(S) # 0
    BY <1>8, FS_CardinalityType, FS_EmptySet
  <2>2. PICK x \in S : Rank(S, R, x) = 0
    BY <1>5, <2>1
  <2> QED BY <2>2, <1>7, <1>8
<1> QED BY <1>5, <1>7, <1>8

\* fill_clip() puts each of the blocks into the clip once.
LEMMA SetToSeqFacts ==
    ASSUME NEW S, IsFiniteSet(S)
    PROVE  LET s == SetToSeq(S)
           IN  s \in Seq(S) /\ Len(s) = Cardinality(S) /\ IsInjective(s) /\ Range(s) = S
<1> DEFINE n == Cardinality(S)
           s == SetToSeq(S)
<1>1. n \in Nat /\ ExistsBijection(1 .. n, S)
  BY FS_CardinalityType
<1>2. \E f \in [1 .. n -> S] : IsInjective(f)
  BY <1>1 DEF ExistsBijection, Bijection, Injection
<1>3. s \in [1 .. n -> S] /\ IsInjective(s)
  BY <1>2 DEF SetToSeq
<1>4. s \in Seq(S) /\ Len(s) = n
  BY <1>1, <1>3
<1>5. s \in Injection(1 .. n, S)
  BY <1>3 DEF Injection
<1>6. IsFiniteSet(1 .. n) /\ Cardinality(1 .. n) = n
  BY <1>1, FS_Interval
<1>7. s \in Surjection(1 .. n, S)
  BY <1>5, <1>6, FS_Injection
<1>8. Range(s) = S
  BY <1>3, <1>7 DEF Range, Surjection
<1> QED BY <1>3, <1>4, <1>8

\* The blocks of a clip.
LEMMA SeqRangeFacts ==
    ASSUME NEW T, NEW s \in Seq(T)
    PROVE  /\ Range(s) \subseteq T /\ IsFiniteSet(Range(s))
           /\ IsInjective(s) => Cardinality(Range(s)) = Len(s)
<1>1. Len(s) \in Nat /\ DOMAIN s = 1 .. Len(s) /\ s \in [1 .. Len(s) -> T]
  OBVIOUS
<1>2. Range(s) \subseteq T /\ s \in [1 .. Len(s) -> Range(s)]
  BY <1>1 DEF Range
<1>3. s \in Surjection(1 .. Len(s), Range(s))
  BY <1>1, <1>2 DEF Range, Surjection
<1>4. IsFiniteSet(1 .. Len(s)) /\ Cardinality(1 .. Len(s)) = Len(s)
  BY <1>1, FS_Interval
<1>5. IsFiniteSet(Range(s))
  BY <1>3, <1>4, FS_Surjection
<1>6. ASSUME IsInjective(s) PROVE Cardinality(Range(s)) = Len(s)
  <2>1. s \in Injection(1 .. Len(s), Range(s))
    BY <1>2, <1>6 DEF Injection
  <2> QED BY <2>1, <1>3, <1>4, FS_Surjection
<1>7. IsInjective(s) => Cardinality(Range(s)) = Len(s)
  BY <1>6
<1> QED BY <1>2, <1>5, <1>7

\* An empty clip has no blocks, and only an empty one.
LEMMA EmptyRange ==
    ASSUME NEW T, NEW s \in Seq(T)
    PROVE  s = <<>> <=> Range(s) = {}
<1>1. s = <<>> => Range(s) = {}
  BY DEF Range
<1>2. ASSUME s # <<>> PROVE Range(s) # {}
  <2>1. 1 \in DOMAIN s
    BY <1>2
  <2> QED BY <2>1 DEF Range
<1> QED BY <1>1, <1>2

\* A clip after a push().
LEMMA AppendFacts ==
    ASSUME NEW T, NEW s \in Seq(T), IsInjective(s), NEW x \in T, x \notin Range(s)
    PROVE  /\ Append(s, x) \in Seq(T) /\ Len(Append(s, x)) = Len(s) + 1
           /\ IsInjective(Append(s, x)) /\ Range(Append(s, x)) = Range(s) \cup {x}
<1>1. /\ Append(s, x) \in Seq(T) /\ Len(Append(s, x)) = Len(s) + 1 /\ Len(s) \in Nat
      /\ DOMAIN Append(s, x) = 1 .. Len(s) + 1 /\ DOMAIN s = 1 .. Len(s)
      /\ \A i \in 1 .. Len(s) : Append(s, x)[i] = s[i]
      /\ Append(s, x)[Len(s) + 1] = x
  OBVIOUS
<1>2. \A i \in 1 .. Len(s) + 1 : i \in 1 .. Len(s) \/ i = Len(s) + 1
  BY <1>1
<1>3. \A i \in 1 .. Len(s) : s[i] # x
  BY <1>1 DEF Range
<1>4. IsInjective(Append(s, x))
  BY <1>1, <1>2, <1>3 DEF IsInjective
<1>5. 1 .. Len(s) + 1 = (1 .. Len(s)) \cup {Len(s) + 1}
  BY <1>1
<1>6. Range(Append(s, x)) = Range(s) \cup {x}
  BY <1>1, <1>5 DEF Range
<1> QED BY <1>1, <1>4, <1>6

\* A clip after a pop().
LEMMA FrontFacts ==
    ASSUME NEW T, NEW s \in Seq(T), IsInjective(s), s # <<>>
    PROVE  /\ Front(s) \in Seq(T) /\ Len(Front(s)) = Len(s) - 1
           /\ Last(s) \in Range(s) /\ Last(s) \in T
           /\ IsInjective(Front(s)) /\ Range(Front(s)) = Range(s) \ {Last(s)}
<1> DEFINE n == Len(s)
<1>1. n \in Nat /\ n > 0 /\ DOMAIN s = 1 .. n
  OBVIOUS
<1>2. /\ Front(s) \in Seq(T) /\ Len(Front(s)) = n - 1 /\ DOMAIN Front(s) = 1 .. n - 1
      /\ \A i \in 1 .. n - 1 : Front(s)[i] = s[i]
  BY <1>1 DEF Front
<1>3. n \in 1 .. n /\ 1 .. n = (1 .. n - 1) \cup {n} /\ n \notin 1 .. n - 1
  BY <1>1
<1>4. Last(s) = s[n] /\ Last(s) \in Range(s) /\ Last(s) \in T
  BY <1>1, <1>3 DEF Last, Range
<1>5. IsInjective(Front(s))
  BY <1>1, <1>2, <1>3 DEF IsInjective
<1>6. \A i \in 1 .. n - 1 : s[i] # s[n]
  BY <1>1, <1>3 DEF IsInjective
<1>7. Range(Front(s)) = Range(s) \ {Last(s)}
  BY <1>1, <1>2, <1>3, <1>4, <1>6 DEF Range
<1> QED BY <1>2, <1>4, <1>5, <1>7

\* A clip after several pushes.
LEMMA ConcatFacts ==
    ASSUME NEW T, NEW s \in Seq(T), IsInjective(s), NEW t \in Seq(T), IsInjective(t),
           Range(s) \cap Range(t) = {}
    PROVE  /\ s \o t \in Seq(T) /\ Len(s \o t) = Len(s) + Len(t)
           /\ IsInjective(s \o t) /\ Range(s \o t) = Range(s) \cup Range(t)
<1> DEFINE m == Len(s)
           n == Len(t)
<1>1. /\ m \in Nat /\ n \in Nat /\ DOMAIN s = 1 .. m /\ DOMAIN t = 1 .. n
      /\ s \o t \in Seq(T) /\ Len(s \o t) = m + n /\ DOMAIN (s \o t) = 1 .. m + n
  OBVIOUS
<1>2. \A i \in 1 .. m + n : \/ i \in 1 .. m /\ (s \o t)[i] = s[i]
                            \/ i - m \in 1 .. n /\ (s \o t)[i] = t[i - m]
  BY <1>1
<1>3. \A i \in 1 .. m : i \in 1 .. m + n /\ (s \o t)[i] = s[i]
  BY <1>1
<1>4. \A i \in 1 .. n : i + m \in 1 .. m + n /\ (s \o t)[i + m] = t[i]
  BY <1>1
<1>5. \A i \in 1 .. m, j \in 1 .. n : s[i] # t[j]
  BY <1>1 DEF Range
<1>6. IsInjective(s \o t)
  <2>1. SUFFICES ASSUME NEW i \in 1 .. m + n, NEW j \in 1 .. m + n, (s \o t)[i] = (s \o t)[j]
                 PROVE  i = j
    BY <1>1 DEF IsInjective
  <2>2. /\ \A a, b \in 1 .. m : s[a] = s[b] => a = b
        /\ \A a, b \in 1 .. n : t[a] = t[b] => a = b
    BY <1>1 DEF IsInjective
  <2>3. CASE i \in 1 .. m /\ (s \o t)[i] = s[i]
    BY <2>1, <2>2, <2>3, <1>2, <1>5
  <2>4. CASE i - m \in 1 .. n /\ (s \o t)[i] = t[i - m]
    <3>1. ~(j \in 1 .. m /\ (s \o t)[j] = s[j])
      BY <2>1, <2>4, <1>5
    <3>2. j - m \in 1 .. n /\ t[i - m] = t[j - m]
      BY <3>1, <2>1, <2>4, <1>2
    <3>3. i - m = j - m
      BY <3>2, <2>2, <2>4
    <3> QED BY <3>3, <1>1
  <2> QED BY <1>2, <2>3, <2>4
<1>7. Range(s \o t) = Range(s) \cup Range(t)
  <2>1. Range(s \o t) \subseteq Range(s) \cup Range(t)
    BY <1>1, <1>2 DEF Range
  <2>2. Range(s) \subseteq Range(s \o t)
    BY <1>1, <1>3 DEF Range
  <2>3. Range(t) \subseteq Range(s \o t)
    BY <1>1, <1>4 DEF Range
  <2> QED BY <2>1, <2>2, <2>3
<1> QED BY <1>1, <1>6, <1>7
-----------------------------------------------------------------------------
(* What the steps work on *)

\* The parts of the type invariant that the proofs need most.
LEMMA HeapTypes ==
    ASSUME HeapTypeOK
    PROVE  /\ bitmap_len \in Nat /\ free \in Nat /\ bitmap_len <= Capacity /\ free <= bitmap_len
           /\ used \subseteq Blocks /\ used \subseteq 0 .. bitmap_len - 1
           /\ clip \in Seq(Blocks) /\ Len(clip) \in Nat /\ Len(clip) <= ClipSize
           /\ held \subseteq Blocks /\ InFlight \subseteq Blocks
           /\ Nothing \notin Blocks /\ Nothing \notin Cpus
<1>1. bitmap_len \in Nat /\ free \in Nat /\ bitmap_len <= Capacity /\ free <= bitmap_len
  BY Sizes DEF HeapTypeOK
<1>2. used \subseteq Blocks /\ used \subseteq 0 .. bitmap_len - 1
  BY <1>1, Sizes DEF HeapTypeOK, Blocks
<1>3. clip \in Seq(Blocks) /\ Len(clip) \in Nat /\ Len(clip) <= ClipSize
  BY DEF HeapTypeOK
<1>4. held \subseteq Blocks /\ InFlight \subseteq Blocks
  BY DEF HeapTypeOK, InFlight
<1>5. Nothing \notin Blocks /\ Nothing \notin Cpus
  BY Sizes, HeapCpusAssumption
<1> QED BY <1>1, <1>2, <1>3, <1>4, <1>5

\* All that is counted is finite.
LEMMA HeapIsFinite ==
    ASSUME HeapTypeOK
    PROVE  /\ IsFiniteSet(used) /\ Cardinality(used) \in Nat
           /\ IsFiniteSet(held) /\ Cardinality(held) \in Nat
           /\ IsFiniteSet(Owing) /\ Cardinality(Owing) \in Nat
           /\ IsFiniteSet(Range(clip))
           /\ IsFiniteSet(FreeBits) /\ FreeBits \subseteq Nat /\ FreeBits \subseteq Blocks
<1>1. IsFiniteSet(Blocks) /\ IsFiniteSet(0 .. bitmap_len - 1)
  BY HeapTypes, Sizes, FS_Interval DEF Blocks
<1>2. IsFiniteSet(used) /\ IsFiniteSet(held)
  BY <1>1, HeapTypes, FS_Subset
<1>3. IsFiniteSet(Owing)
  <2>1. Owing \in SUBSET Cpus
    BY DEF Owing
  <2> QED BY <2>1, HeapCpusAssumption, FS_Subset
<1>4. FreeBits \in SUBSET (0 .. bitmap_len - 1)
  BY DEF FreeBits
<1>5. 0 .. bitmap_len - 1 \subseteq Blocks /\ Blocks \subseteq Nat
  BY HeapTypes, Sizes DEF Blocks
<1>6. IsFiniteSet(FreeBits) /\ FreeBits \subseteq Nat /\ FreeBits \subseteq Blocks
  BY <1>1, <1>4, <1>5, FS_Subset
<1>7. IsFiniteSet(Range(clip))
  BY HeapTypes, SeqRangeFacts
<1> QED BY <1>2, <1>3, <1>6, <1>7, FS_CardinalityType

\* bitmap.free() is the number of its free bits.
LEMMA FreeIsExact ==
    ASSUME HeapTypeOK, BlocksAreExclusive, ~heap_panicked
    PROVE  Cardinality(FreeBits) = free
<1>1. FreeBits = (0 .. bitmap_len - 1) \ used
  BY DEF FreeBits
<1>2. IsFiniteSet(0 .. bitmap_len - 1) /\ Cardinality(0 .. bitmap_len - 1) = bitmap_len
  <2>1. bitmap_len \in Nat /\ 0 \in Int /\ bitmap_len - 1 \in Int
    BY HeapTypes
  <2>2. /\ IsFiniteSet(0 .. bitmap_len - 1)
        /\ Cardinality(0 .. bitmap_len - 1) = IF 0 > bitmap_len - 1 THEN 0 ELSE (bitmap_len - 1) - 0 + 1
    BY <2>1, FS_Interval
  <2> QED BY <2>1, <2>2
<1>3. (0 .. bitmap_len - 1) \cap used = used
  BY HeapTypes
<1>4. Cardinality(FreeBits) = bitmap_len - Cardinality(used)
  <2>1. Cardinality((0 .. bitmap_len - 1) \ used)
          = Cardinality(0 .. bitmap_len - 1) - Cardinality((0 .. bitmap_len - 1) \cap used)
    BY <1>2, FS_Difference
  <2> QED BY <2>1, <1>1, <1>2, <1>3
<1> QED BY <1>4 DEF BlocksAreExclusive

\* fill_clip() takes free blocks, as many as half of the clip has room for.
LEMMA FillingFacts ==
    ASSUME HeapTypeOK, BlocksAreExclusive, ~heap_panicked
    PROVE  /\ Filling \subseteq FreeBits /\ IsFiniteSet(Filling)
           /\ Cardinality(Filling) \in Nat /\ Cardinality(Filling) <= free
           /\ Len(clip) + Cardinality(Filling) <= ClipSize
           /\ clip = <<>> /\ free > 0 => Taken # {}
<1> DEFINE count == Max({ClipSize \div 2 - Len(clip), 0})
           limit == Min({count, free})
<1>1. /\ ClipSize \div 2 \in Nat /\ 1 <= ClipSize \div 2 /\ ClipSize \div 2 <= ClipSize
      /\ Len(clip) \in Nat /\ Len(clip) <= ClipSize /\ ClipSize \in Nat
      /\ free \in Nat
  BY Sizes, HeapTypes
<1>2. /\ count \in Nat
      /\ Len(clip) + count <= ClipSize
      /\ clip = <<>> => count > 0
  <2>1. count = IF ClipSize \div 2 - Len(clip) <= 0 THEN 0 ELSE ClipSize \div 2 - Len(clip)
    <3>1. ClipSize \div 2 - Len(clip) \in Int /\ 0 \in Int
      BY <1>1
    <3> QED BY <3>1, MinMax
  <2>2. clip = <<>> => Len(clip) = 0
    OBVIOUS
  <2> HIDE DEF count
  <2> QED BY <1>1, <2>1, <2>2
<1>3. limit \in Nat /\ limit <= count /\ (free > 0 /\ count > 0 => limit > 0)
  <2>1. limit = IF count <= free THEN count ELSE free
    <3> HIDE DEF count
    <3> QED BY <1>1, <1>2, MinMax
  <2> HIDE DEF count, limit
  <2> QED BY <1>1, <1>2, <2>1
<1>4. Taken = {i \in FreeBits : Cardinality({j \in FreeBits : j < i}) < limit}
  BY DEF Taken
<1> HIDE DEF count, limit
<1>5. FreeBits \in SUBSET Nat /\ IsFiniteSet(FreeBits)
  BY HeapIsFinite
<1>6. /\ IsFiniteSet(Taken) /\ Cardinality(Taken) <= limit
      /\ FreeBits # {} /\ limit > 0 => Taken # {}
  BY <1>3, <1>4, <1>5, FirstNumbers
<1>7. Filling \in SUBSET Taken /\ Filling \in SUBSET FreeBits
  BY <1>4 DEF Filling
<1>8. /\ IsFiniteSet(Filling) /\ Cardinality(Filling) \in Nat
      /\ Cardinality(Filling) <= Cardinality(Taken) /\ Cardinality(Filling) <= Cardinality(FreeBits)
      /\ Cardinality(Taken) \in Nat
  BY <1>5, <1>6, <1>7, FS_Subset, FS_CardinalityType
<1>9. Cardinality(FreeBits) = free
  BY FreeIsExact
<1>10. ASSUME clip = <<>>, free > 0 PROVE Taken # {}
  <2>1. FreeBits # {}
    BY <1>9, <1>10, <1>1, FS_EmptySet
  <2> QED BY <2>1, <1>2, <1>3, <1>6, <1>10
<1>11. Len(clip) + Cardinality(Filling) <= ClipSize
  BY <1>1, <1>2, <1>3, <1>6, <1>8
<1> QED BY <1>7, <1>8, <1>9, <1>10, <1>11

\* The clip that fill_clip() leaves.
LEMMA FilledFacts ==
    ASSUME HeapTypeOK, BlocksAreExclusive, ~heap_panicked
    PROVE  /\ Filled \in Seq(Blocks) /\ Len(Filled) <= ClipSize
           /\ IsInjective(Filled) /\ Range(Filled) = Range(clip) \cup Filling
           /\ Filling \cap Range(clip) = {} /\ Filling \cap used = {}
<1>1. /\ IsFiniteSet(Filling) /\ Filling \subseteq FreeBits /\ FreeBits \subseteq Blocks
      /\ Len(clip) + Cardinality(Filling) <= ClipSize
  BY FillingFacts, HeapIsFinite
<1>2. /\ SetToSeq(Filling) \in Seq(Filling) /\ Len(SetToSeq(Filling)) = Cardinality(Filling)
      /\ IsInjective(SetToSeq(Filling)) /\ Range(SetToSeq(Filling)) = Filling
  BY <1>1, SetToSeqFacts
<1>3. SetToSeq(Filling) \in Seq(Blocks)
  BY <1>1, <1>2
<1>4. Filling \cap used = {} /\ Filling \cap Range(clip) = {}
  BY <1>1 DEF FreeBits, BlocksAreExclusive
<1>5. clip \in Seq(Blocks) /\ IsInjective(clip)
  BY HeapTypes DEF BlocksAreExclusive
<1> HIDE DEF Filling
<1>6. /\ Filled \in Seq(Blocks) /\ Len(Filled) = Len(clip) + Cardinality(Filling)
      /\ IsInjective(Filled) /\ Range(Filled) = Range(clip) \cup Filling
  BY <1>2, <1>3, <1>4, <1>5, ConcatFacts DEF Filled
<1> QED BY <1>1, <1>4, <1>6

\* unfill_clip() splits the clip in two.
LEMMA KeptFacts ==
    ASSUME HeapTypeOK, IsInjective(clip)
    PROVE  /\ Kept \in Seq(Blocks) /\ Len(Kept) \in Nat /\ Len(Kept) < ClipSize
           /\ IsInjective(Kept)
           /\ Spilled \subseteq Range(clip) /\ Range(Kept) = Range(clip) \ Spilled
<1> DEFINE m == Min({Len(clip), ClipSize \div 2})
<1>1. /\ ClipSize \div 2 \in Nat /\ ClipSize \div 2 < ClipSize
      /\ clip \in Seq(Blocks) /\ Len(clip) \in Nat
  BY Sizes, HeapTypes
<1>2. m \in Nat /\ m <= Len(clip) /\ m < ClipSize
  <2>1. m = IF Len(clip) <= ClipSize \div 2 THEN Len(clip) ELSE ClipSize \div 2
    BY <1>1, MinMax
  <2> HIDE DEF m
  <2> QED BY <1>1, <2>1, Sizes
<1>3. Kept = SubSeq(clip, 1, m)
  BY DEF Kept
<1> HIDE DEF m
<1>4. /\ Kept \in Seq(Blocks) /\ Len(Kept) = m /\ DOMAIN Kept = 1 .. m
      /\ \A i \in 1 .. m : Kept[i] = clip[i]
  BY <1>1, <1>2, <1>3
<1>5. DOMAIN clip = 1 .. Len(clip)
  BY <1>1
<1>6. \A i, j \in 1 .. Len(clip) : clip[i] = clip[j] => i = j
  BY <1>5 DEF IsInjective
<1>7. IsInjective(Kept)
  BY <1>2, <1>4, <1>6 DEF IsInjective
<1>8. Spilled = {clip[i] : i \in m + 1 .. Len(clip)}
  BY <1>4 DEF Spilled
<1>9. Spilled \subseteq Range(clip)
  BY <1>2, <1>5, <1>8 DEF Range
<1>10. Range(Kept) = {clip[i] : i \in 1 .. m}
  BY <1>4 DEF Range
<1>11. Range(Kept) \subseteq Range(clip) \ Spilled
  <2>1. \A i \in 1 .. m : i \in 1 .. Len(clip) /\ \A j \in m + 1 .. Len(clip) : clip[i] # clip[j]
    BY <1>1, <1>2, <1>6
  <2> QED BY <2>1, <1>5, <1>8, <1>10 DEF Range
<1>12. Range(clip) \ Spilled \subseteq Range(Kept)
  <2>1. \A i \in 1 .. Len(clip) : i \in 1 .. m \/ i \in m + 1 .. Len(clip)
    BY <1>1, <1>2
  <2> QED BY <2>1, <1>5, <1>8, <1>10 DEF Range
<1> QED BY <1>2, <1>4, <1>7, <1>9, <1>11, <1>12

\* A CPU begins to deal with a block.
LEMMA FlightBegins ==
    ASSUME HeapTypeOK, NEW c \in Cpus, NEW b \in Blocks,
           ptr[c] = Nothing, ptr' = [ptr EXCEPT ![c] = b]
    PROVE  /\ InFlight' = InFlight \cup {b}
           /\ ptr' \in [Cpus -> Blocks \cup {Nothing}]
<1>1. ptr \in [Cpus -> Blocks \cup {Nothing}] /\ b # Nothing
  BY HeapTypes DEF HeapTypeOK
<1> QED BY <1>1 DEF InFlight

\* A CPU has done with its block.
LEMMA FlightEnds ==
    ASSUME HeapTypeOK, NEW c \in Cpus,
           \A i, j \in Cpus : ptr[i] = ptr[j] /\ ptr[i] # Nothing => i = j,
           ptr' = [ptr EXCEPT ![c] = Nothing]
    PROVE  /\ InFlight' = InFlight \ {ptr[c]}
           /\ ptr' \in [Cpus -> Blocks \cup {Nothing}]
<1>1. ptr \in [Cpus -> Blocks \cup {Nothing}]
  BY DEF HeapTypeOK
<1> QED BY <1>1 DEF InFlight

\* The CPUs that owe a deallocation to the statistics after one of them has moved.
LEMMA OwingFacts ==
    ASSUME HeapTypeOK, NEW c \in Cpus, NEW p \in Places, pc' = [pc EXCEPT ![c] = p]
    PROVE  /\ p \in Owes => Owing' = Owing \cup {c}
           /\ p \notin Owes => Owing' = Owing \ {c}
           /\ c \in Owing <=> pc[c] \in Owes
           /\ pc' \in [Cpus -> Places]
<1>1. pc \in [Cpus -> Places]
  BY DEF HeapTypeOK
<1> QED BY <1>1 DEF Owing
-----------------------------------------------------------------------------
(* The steps *)

\* stock_up() asks for no more than the slabs hold.
LEMMA StockedFacts ==
    ASSUME HeapTypeOK
    PROVE  /\ Stocked \in Nat /\ bitmap_len <= Stocked /\ Stocked <= Capacity
           /\ Stocked = bitmap_len => bitmap_len = Capacity
           /\ Stocked > bitmap_len => Stocked > 0
<1>1. bitmap_len + ClipSize \in Int /\ Capacity \in Int /\ bitmap_len \in Nat /\ bitmap_len <= Capacity
  BY HeapTypes, Sizes
<1>2. Stocked = IF bitmap_len + ClipSize <= Capacity THEN bitmap_len + ClipSize ELSE Capacity
  BY <1>1, MinMax DEF Stocked
<1> QED BY <1>1, <1>2, Sizes

\* The lock of the allocator is held where the code holds it, and fill_clip() is called when there
\* are free blocks or all of them are in use.
LEMMA CpuStep ==
    ASSUME HeapInv, ~heap_panicked, HeapNext
    PROVE  CpuInv'
<1>0. /\ CpuInv /\ pc \in [Cpus -> Places] /\ ptr \in [Cpus -> Blocks \cup {Nothing}]
      /\ allocator_lock \in Cpus \cup {Nothing}
      /\ (Stocked = bitmap_len => bitmap_len = Capacity) /\ held \subseteq Blocks
      /\ free \in Nat /\ bitmap_len \in Nat /\ Stocked \in Nat
      /\ Nothing \notin Cpus /\ Nothing \notin Blocks
  BY HeapTypes, StockedFacts DEF HeapInv, HeapTypeOK
<1>1. ASSUME NEW c \in Cpus, ClipPop(c) PROVE CpuInv'
  <2>1. Last(clip) \in Blocks
    BY <1>1, HeapTypes, FrontFacts DEF ClipPop, HeapInv, BlocksAreExclusive
  <2> QED BY <1>1, <2>1, <1>0 DEF ClipPop, CpuInv, Carries, Places, bitmapVars, quarryVars
<1>2. ASSUME NEW c \in Cpus, ClipIsEmpty(c) PROVE CpuInv'
  BY <1>2, <1>0 DEF ClipIsEmpty, CpuInv, Carries, Places, bitmapVars, quarryVars
<1>3. ASSUME NEW c \in Cpus, CountAllocation(c) PROVE CpuInv'
  BY <1>3, <1>0 DEF CountAllocation, CpuInv, Carries, Places, bitmapVars, quarryVars
<1>4. ASSUME NEW c \in Cpus, RefillFromBitmap(c) PROVE CpuInv'
  BY <1>4, <1>0 DEF RefillFromBitmap, CpuInv, Carries, Places, bitmapVars, quarryVars
<1>5. ASSUME NEW c \in Cpus, StockUpAtCapacity(c) PROVE CpuInv'
  BY <1>5, <1>0 DEF StockUpAtCapacity, StocksUp, CpuInv, Carries, Places, bitmapVars, quarryVars
<1>6. ASSUME NEW c \in Cpus, StockUpReservesTwice(c) PROVE CpuInv'
  BY <1>6, <1>0 DEF StockUpReservesTwice, StocksUp, CpuInv, Carries, Places, bitmapVars, quarryVars
<1>7. ASSUME NEW c \in Cpus, NEW supply \in FrameSupply, StockUpNoBitmap(c, supply) PROVE CpuInv'
  BY <1>7, <1>0 DEF StockUpNoBitmap, CanGrow, StocksUp, ReturnsNull, CpuInv, Carries, Places, bitmapVars, quarryVars
<1>8. ASSUME NEW c \in Cpus, NEW supply \in FrameSupply, StockUpNoFrame(c, supply) PROVE CpuInv'
  BY <1>8, <1>0 DEF StockUpNoFrame, CanGrow, StocksUp, ReturnsNull, GrowBitmap, CpuInv, Carries, Places, bitmapVars, quarryVars
<1>9. ASSUME NEW c \in Cpus, NEW supply \in FrameSupply, StockUp(c, supply) PROVE CpuInv'
  BY <1>9, <1>0 DEF StockUp, CanGrow, StocksUp, GrowBitmap, CpuInv, Carries, Places, bitmapVars, quarryVars
<1>10. ASSUME NEW c \in Cpus, FillClip(c) PROVE CpuInv'
  BY <1>10, <1>0 DEF FillClip, CpuInv, Carries, Places, bitmapVars, quarryVars
<1>11. ASSUME NEW c \in Cpus, FillFindsNothing(c) PROVE CpuInv'
  BY <1>11, <1>0 DEF FillFindsNothing, CpuInv, Carries, Places, bitmapVars, quarryVars
<1>12. ASSUME NEW c \in Cpus, NEW b \in held, ClipPush(c, b) PROVE CpuInv'
  BY <1>12, <1>0 DEF ClipPush, CpuInv, Carries, Places, bitmapVars, quarryVars
<1>13. ASSUME NEW c \in Cpus, NEW b \in held, ClipIsFull(c, b) PROVE CpuInv'
  BY <1>13, <1>0 DEF ClipIsFull, CpuInv, Carries, Places, bitmapVars, quarryVars
<1>14. ASSUME NEW c \in Cpus, CountDeallocation(c) PROVE CpuInv'
  BY <1>14, <1>0 DEF CountDeallocation, CpuInv, Carries, Places, bitmapVars, quarryVars
<1>15. ASSUME NEW c \in Cpus, LockToUnfill(c) PROVE CpuInv'
  BY <1>15, <1>0 DEF LockToUnfill, CpuInv, Carries, Places, bitmapVars, quarryVars
<1>16. ASSUME NEW c \in Cpus, UnfillClip(c) PROVE CpuInv'
  BY <1>16, <1>0 DEF UnfillClip, UnfillReturning, DeallocateImpl, CpuInv, Carries, Places, bitmapVars, quarryVars
<1>17. ASSUME Unmap PROVE CpuInv'
  BY <1>17, <1>0 DEF Unmap, UnmapReturning, Unused, CpuInv, Carries, Places, bitmapVars, quarryVars
<1>18. ASSUME UnmapFails PROVE CpuInv'
  BY <1>18, <1>0 DEF UnmapFails, Unused, CpuInv, Carries, Places, bitmapVars, quarryVars
<1> QED
  BY <1>1, <1>2, <1>3, <1>4, <1>5, <1>6, <1>7, <1>8, <1>9, <1>10,
     <1>11, <1>12, <1>13, <1>14, <1>15, <1>16, <1>17, <1>18
  DEF HeapNext

\* What the steps preserve of the blocks, whether or not an assertion fails.
BlockCore ==
    /\ bitmap_len \in Nat /\ bitmap_len <= Capacity /\ used \subseteq 0 .. bitmap_len - 1
    /\ clip \in Seq(Blocks) /\ Len(clip) <= ClipSize /\ IsInjective(clip)
    /\ ptr \in [Cpus -> Blocks \cup {Nothing}]
    /\ \A i, j \in Cpus : ptr[i] = ptr[j] /\ ptr[i] # Nothing => i = j
    /\ held \subseteq Blocks
    /\ held \cap Range(clip) = {} /\ held \cap InFlight = {} /\ InFlight \cap Range(clip) = {}
    /\ used = held \cup InFlight \cup Range(clip)
    /\ free = bitmap_len - Cardinality(used)

\* It follows from the invariant, as nothing moves after a panic.
LEMMA CoreHolds ==
    ASSUME HeapInv, ~heap_panicked
    PROVE  BlockCore
BY HeapTypes DEF HeapInv, HeapTypeOK, BlocksAreExclusive, BlockCore

\* It gives back what the invariant says of the blocks.
LEMMA CoreSuffices ==
    ASSUME BlockCore
    PROVE  /\ bitmap_len \in 0 .. Capacity /\ free \in 0 .. bitmap_len
           /\ BlocksAreExclusive
<1>1. bitmap_len \in Nat /\ bitmap_len <= Capacity /\ Capacity \in Nat /\ used \in SUBSET (0 .. bitmap_len - 1)
  BY Sizes DEF BlockCore
<1>2. IsFiniteSet(0 .. bitmap_len - 1) /\ Cardinality(0 .. bitmap_len - 1) = bitmap_len
  <2>1. /\ IsFiniteSet(0 .. bitmap_len - 1)
        /\ Cardinality(0 .. bitmap_len - 1) = IF 0 > bitmap_len - 1 THEN 0 ELSE (bitmap_len - 1) - 0 + 1
    BY <1>1, FS_Interval
  <2> QED BY <1>1, <2>1
<1>3. Cardinality(used) \in Nat /\ Cardinality(used) <= bitmap_len
  BY <1>1, <1>2, FS_Subset, FS_CardinalityType
<1>4. free \in 0 .. bitmap_len
  BY <1>1, <1>3 DEF BlockCore
<1>5. BlocksAreExclusive
  BY DEF BlockCore, BlocksAreExclusive
<1> QED BY <1>1, <1>4, <1>5

\* Steps that move no block.
LEMMA CoreKept ==
    ASSUME BlockCore, UNCHANGED <<bitmap_len, free, used, clip, ptr, held>>
    PROVE  BlockCore'
BY DEF BlockCore, InFlight

\* A CPU that takes a block nobody else deals with.
LEMMA UniqueKept ==
    ASSUME HeapInv, ~heap_panicked, NEW c \in Cpus, NEW b, b \notin InFlight, b # Nothing,
           ptr' = [ptr EXCEPT ![c] = b]
    PROVE  \A i, j \in Cpus : ptr'[i] = ptr'[j] /\ ptr'[i] # Nothing => i = j
<1>1. BlockCore
  BY CoreHolds
<1>2. \A i \in Cpus : ptr[i] # b
  BY DEF InFlight
<1> QED BY <1>1, <1>2 DEF BlockCore

\* The bitmap grows by free blocks.
LEMMA CoreGrows ==
    ASSUME HeapInv, ~heap_panicked, bitmap_len' = Stocked, free' = free + Stocked - bitmap_len,
           UNCHANGED <<used, clip, ptr, held>>
    PROVE  BlockCore'
<1>1. BlockCore /\ Stocked \in Nat /\ bitmap_len <= Stocked /\ Stocked <= Capacity /\ Cardinality(used) \in Nat
  BY CoreHolds, StockedFacts, HeapIsFinite DEF HeapInv
<1>2. used' \subseteq 0 .. bitmap_len' - 1 /\ bitmap_len' \in Nat /\ bitmap_len' <= Capacity
  BY <1>1 DEF BlockCore
<1>3. free' = bitmap_len' - Cardinality(used')
  BY <1>1 DEF BlockCore
<1>4. InFlight' = InFlight
  BY DEF InFlight
<1> QED BY <1>1, <1>2, <1>3, <1>4 DEF BlockCore

\* When nobody uses the heap all the used blocks are in the clip.
LEMMA NothingIsOut ==
    ASSUME HeapInv, ~heap_panicked, Unused
    PROVE  InFlight = {} /\ held = {} /\ used = Range(clip) /\ Owing = {}
<1>1. held = {} /\ \A c \in Cpus : pc[c] = "idle" /\ ptr[c] = Nothing
  BY DEF Unused, HeapInv, CpuInv, Carries
<1>2. InFlight = {}
  BY <1>1 DEF InFlight
<1>3. used = Range(clip)
  BY <1>1, <1>2, CoreHolds DEF BlockCore
<1>4. Owing = {}
  BY <1>1 DEF Owing, Owes
<1> QED BY <1>1, <1>2, <1>3, <1>4

\* unmap() leaves no block used.
LEMMA CoreIsEmptied ==
    ASSUME HeapInv, ~heap_panicked, Unused, UNCHANGED <<ptr, held>>,
           clip' = <<>>, used' = {}, free' = bitmap_len', bitmap_len' \in Nat, bitmap_len' <= Capacity
    PROVE  BlockCore'
<1>1. InFlight = {} /\ held = {} /\ InFlight' = {} /\ held' = {}
  BY NothingIsOut DEF InFlight
<1>2. clip' \in Seq(Blocks) /\ Len(clip') <= ClipSize /\ IsInjective(clip') /\ Range(clip') = {}
  BY Sizes DEF IsInjective, Range
<1>3. Cardinality(used') = 0
  BY FS_EmptySet
<1>4. BlockCore
  BY CoreHolds
<1> QED BY <1>1, <1>2, <1>3, <1>4 DEF BlockCore

\* No step loses a block or has it in two places.
LEMMA BlockStep ==
    ASSUME HeapInv, ~heap_panicked, HeapNext
    PROVE  BlockCore'
<1>0. BlockCore /\ CpuInv /\ HeapTypeOK /\ BlocksAreExclusive
      /\ free \in Nat /\ bitmap_len \in Nat /\ Len(clip) \in Nat /\ Len(clip) <= ClipSize
      /\ Nothing \notin Blocks
  BY CoreHolds, HeapTypes DEF HeapInv
<1> USE <1>0
<1>1. ASSUME NEW c \in Cpus, ClipPop(c) PROVE BlockCore'
  <2>1. /\ clip # <<>> /\ clip' = Front(clip) /\ ptr' = [ptr EXCEPT ![c] = Last(clip)]
        /\ UNCHANGED <<bitmap_len, free, used, held>> /\ ptr[c] = Nothing
    BY <1>1 DEF ClipPop, CpuInv, Carries, bitmapVars
  <2>2. /\ Front(clip) \in Seq(Blocks) /\ Len(Front(clip)) = Len(clip) - 1
        /\ Last(clip) \in Range(clip) /\ Last(clip) \in Blocks
        /\ IsInjective(Front(clip)) /\ Range(Front(clip)) = Range(clip) \ {Last(clip)}
    BY <2>1, FrontFacts DEF BlockCore
  <2>3. /\ InFlight' = InFlight \cup {Last(clip)}
        /\ ptr' \in [Cpus -> Blocks \cup {Nothing}]
    BY <2>1, <2>2, FlightBegins
  <2>4. Last(clip) \notin InFlight /\ Last(clip) \notin held
    BY <2>2 DEF BlockCore
  <2>5. \A i, j \in Cpus : ptr'[i] = ptr'[j] /\ ptr'[i] # Nothing => i = j
    BY <2>1, <2>2, <2>4, UniqueKept
  <2>6. clip' \in Seq(Blocks) /\ Len(clip') <= ClipSize /\ IsInjective(clip')
    BY <2>1, <2>2, <1>0, Sizes
  <2>7. Range(clip') = Range(clip) \ {Last(clip)}
    BY <2>1, <2>2
  <2> QED BY <2>1, <2>2, <2>3, <2>4, <2>5, <2>6, <2>7 DEF BlockCore
<1>2. ASSUME NEW c \in Cpus, ClipIsEmpty(c) PROVE BlockCore'
  BY <1>2, <1>0, CoreKept DEF ClipIsEmpty, bitmapVars, quarryVars
<1>3. ASSUME NEW c \in Cpus, CountAllocation(c) PROVE BlockCore'
  <2>1. /\ held' = held \cup {ptr[c]} /\ ptr' = [ptr EXCEPT ![c] = Nothing]
        /\ UNCHANGED <<bitmap_len, free, used, clip>> /\ ptr[c] # Nothing /\ ptr[c] \in Blocks
    BY <1>3, <1>0 DEF CountAllocation, CpuInv, Carries, bitmapVars, BlockCore
  <2>2. InFlight' = InFlight \ {ptr[c]} /\ ptr' \in [Cpus -> Blocks \cup {Nothing}]
    BY <2>1, FlightEnds DEF BlockCore
  <2>3. ptr[c] \in InFlight
    BY <2>1 DEF InFlight
  <2>4. \A i, j \in Cpus : ptr'[i] = ptr'[j] /\ ptr'[i] # Nothing => i = j
    BY <2>1 DEF BlockCore
  <2> QED BY <2>1, <2>2, <2>3, <2>4 DEF BlockCore
<1>4. ASSUME NEW c \in Cpus, RefillFromBitmap(c) PROVE BlockCore'
  BY <1>4, <1>0, CoreKept DEF RefillFromBitmap, bitmapVars, quarryVars
<1>5. ASSUME NEW c \in Cpus, StockUpAtCapacity(c) PROVE BlockCore'
  BY <1>5, <1>0, CoreKept DEF StockUpAtCapacity, bitmapVars, quarryVars
<1>6. ASSUME NEW c \in Cpus, StockUpReservesTwice(c) PROVE BlockCore'
  BY <1>6, <1>0, CoreKept DEF StockUpReservesTwice, bitmapVars, quarryVars
<1>7. ASSUME NEW c \in Cpus, NEW supply \in FrameSupply, StockUpNoBitmap(c, supply) PROVE BlockCore'
  BY <1>7, <1>0, CoreKept DEF StockUpNoBitmap, CanGrow, bitmapVars, quarryVars
<1>8. ASSUME NEW c \in Cpus, NEW supply \in FrameSupply, StockUpNoFrame(c, supply) PROVE BlockCore'
  <2>1. /\ bitmap_len' = Stocked /\ free' = free + Stocked - bitmap_len
        /\ UNCHANGED <<used, clip, ptr, held>>
    BY <1>8 DEF StockUpNoFrame, CanGrow, GrowBitmap
  <2> QED BY <2>1, CoreGrows
<1>9. ASSUME NEW c \in Cpus, NEW supply \in FrameSupply, StockUp(c, supply) PROVE BlockCore'
  <2>1. /\ bitmap_len' = Stocked /\ free' = free + Stocked - bitmap_len
        /\ UNCHANGED <<used, clip, ptr, held>>
    BY <1>9 DEF StockUp, CanGrow, GrowBitmap
  <2> QED BY <2>1, CoreGrows
<1>10. ASSUME NEW c \in Cpus, FillClip(c) PROVE BlockCore'
  <2>1. /\ used' = used \cup Filling /\ free' = free - Cardinality(Filling)
        /\ clip' = Front(Filled) /\ held' = held \cup {Last(Filled)} /\ Filled # <<>>
        /\ UNCHANGED <<bitmap_len, ptr>>
    BY <1>10 DEF FillClip
  <2>2. /\ Filled \in Seq(Blocks) /\ Len(Filled) <= ClipSize
        /\ IsInjective(Filled) /\ Range(Filled) = Range(clip) \cup Filling
        /\ Filling \cap Range(clip) = {} /\ Filling \cap used = {}
    BY FilledFacts
  <2>3. /\ Front(Filled) \in Seq(Blocks) /\ Len(Front(Filled)) = Len(Filled) - 1
        /\ Last(Filled) \in Range(Filled) /\ Last(Filled) \in Blocks
        /\ IsInjective(Front(Filled)) /\ Range(Front(Filled)) = Range(Filled) \ {Last(Filled)}
    BY <2>1, <2>2, FrontFacts
  <2>4. /\ IsFiniteSet(Filling) /\ Filling \subseteq 0 .. bitmap_len - 1 /\ Cardinality(Filling) \in Nat
    BY FillingFacts DEF FreeBits
  <2>5. Cardinality(used \cup Filling) = Cardinality(used) + Cardinality(Filling)
    <3>1. used \cap Filling = {} /\ IsFiniteSet(used) /\ Cardinality(used) \in Nat
      BY <2>2, HeapIsFinite
    <3>2. Cardinality(used \cup Filling)
            = Cardinality(used) + Cardinality(Filling) - Cardinality(used \cap Filling)
      BY <3>1, <2>4, FS_Union
    <3>3. Cardinality(used \cap Filling) = 0
      BY <3>1, FS_EmptySet
    <3> HIDE DEF Filling
    <3> QED BY <3>1, <3>2, <3>3, <2>4
  <2>6. free' = bitmap_len' - Cardinality(used')
    BY <2>1, <2>4, <2>5, <1>0, HeapIsFinite DEF BlockCore
  <2>7. InFlight' = InFlight
    BY <2>1 DEF InFlight
  <2>8. clip' \in Seq(Blocks) /\ Len(clip') <= ClipSize /\ IsInjective(clip')
    BY <2>1, <2>2, <2>3, Sizes
  <2>9. Range(clip') = (Range(clip) \cup Filling) \ {Last(Filled)}
    BY <2>1, <2>2, <2>3
  <2>10. Last(Filled) \in Range(clip) \cup Filling
    BY <2>2, <2>3
  <2>11. /\ held' \cap Range(clip') = {} /\ held' \cap InFlight' = {}
         /\ InFlight' \cap Range(clip') = {}
         /\ used' = held' \cup InFlight' \cup Range(clip')
    BY <2>1, <2>2, <2>7, <2>9, <2>10 DEF BlockCore
  <2>12. used' \subseteq 0 .. bitmap_len' - 1 /\ held' \subseteq Blocks
    BY <2>1, <2>3, <2>4 DEF BlockCore
  <2> QED BY <2>1, <2>6, <2>8, <2>11, <2>12 DEF BlockCore
<1>11. ASSUME NEW c \in Cpus, FillFindsNothing(c) PROVE BlockCore'
  BY <1>11, <1>0, CoreKept DEF FillFindsNothing, bitmapVars, quarryVars
<1>12. ASSUME NEW c \in Cpus, NEW b \in held, ClipPush(c, b) PROVE BlockCore'
  <2>1. /\ clip' = Append(clip, b) /\ held' = held \ {b} /\ Len(clip) < ClipSize
        /\ UNCHANGED <<bitmap_len, free, used, ptr>> /\ b \in held /\ b \in Blocks
    BY <1>12 DEF ClipPush, bitmapVars, BlockCore
  <2>2. /\ Append(clip, b) \in Seq(Blocks) /\ Len(Append(clip, b)) = Len(clip) + 1
        /\ IsInjective(Append(clip, b)) /\ Range(Append(clip, b)) = Range(clip) \cup {b}
    BY <2>1, AppendFacts DEF BlockCore
  <2>3. InFlight' = InFlight
    BY <2>1 DEF InFlight
  <2>4. clip' \in Seq(Blocks) /\ Len(clip') <= ClipSize /\ IsInjective(clip')
    BY <2>1, <2>2, <1>0, Sizes
  <2>5. Range(clip') = Range(clip) \cup {b}
    BY <2>1, <2>2
  <2> QED BY <2>1, <2>3, <2>4, <2>5 DEF BlockCore
<1>13. ASSUME NEW c \in Cpus, NEW b \in held, ClipIsFull(c, b) PROVE BlockCore'
  <2>1. /\ held' = held \ {b} /\ ptr' = [ptr EXCEPT ![c] = b] /\ ptr[c] = Nothing
        /\ UNCHANGED <<bitmap_len, free, used, clip>> /\ b \in held /\ b \in Blocks
    BY <1>13 DEF ClipIsFull, bitmapVars, BlockCore, CpuInv, Carries
  <2>2. InFlight' = InFlight \cup {b} /\ ptr' \in [Cpus -> Blocks \cup {Nothing}]
    BY <2>1, FlightBegins
  <2>3. b \notin InFlight /\ b \notin Range(clip)
    BY <2>1 DEF BlockCore
  <2>4. \A i, j \in Cpus : ptr'[i] = ptr'[j] /\ ptr'[i] # Nothing => i = j
    BY <2>1, <2>3, UniqueKept
  <2> QED BY <2>1, <2>2, <2>3, <2>4 DEF BlockCore
<1>14. ASSUME NEW c \in Cpus, CountDeallocation(c) PROVE BlockCore'
  BY <1>14, <1>0, CoreKept DEF CountDeallocation, bitmapVars, quarryVars
<1>15. ASSUME NEW c \in Cpus, LockToUnfill(c) PROVE BlockCore'
  BY <1>15, <1>0, CoreKept DEF LockToUnfill, bitmapVars, quarryVars
<1>16. ASSUME NEW c \in Cpus, UnfillClip(c) PROVE BlockCore'
  <2>1. /\ used' = used \ Spilled /\ free' = free + Cardinality(Spilled)
        /\ clip' = Append(Kept, ptr[c]) /\ ptr' = [ptr EXCEPT ![c] = Nothing]
        /\ UNCHANGED <<bitmap_len, held>> /\ ptr[c] # Nothing /\ ptr[c] \in Blocks
    BY <1>16, <1>0 DEF UnfillClip, UnfillReturning, DeallocateImpl, CpuInv, Carries, BlockCore
  <2>2. InFlight' = InFlight \ {ptr[c]} /\ ptr' \in [Cpus -> Blocks \cup {Nothing}]
    BY <2>1, FlightEnds DEF BlockCore
  <2>3. ptr[c] \in InFlight /\ ptr[c] \notin Range(clip)
    BY <2>1 DEF InFlight, BlockCore
  <2>4. /\ Kept \in Seq(Blocks) /\ Len(Kept) \in Nat /\ Len(Kept) < ClipSize
        /\ IsInjective(Kept)
        /\ Spilled \subseteq Range(clip) /\ Range(Kept) = Range(clip) \ Spilled
    BY KeptFacts DEF BlockCore
  <2>5. /\ clip' \in Seq(Blocks) /\ Len(clip') = Len(Kept) + 1
        /\ IsInjective(clip') /\ Range(clip') = Range(Kept) \cup {ptr[c]}
    BY <2>1, <2>3, <2>4, AppendFacts
  <2>6. Len(clip') <= ClipSize
    BY <2>4, <2>5, Sizes
  <2>7. Cardinality(used \ Spilled) = Cardinality(used) - Cardinality(Spilled)
    <3>1. used \cap Spilled = Spilled /\ IsFiniteSet(used)
      BY <2>4, HeapIsFinite DEF BlockCore
    <3>2. Cardinality(used \ Spilled) = Cardinality(used) - Cardinality(used \cap Spilled)
      BY <3>1, FS_Difference
    <3> QED BY <3>1, <3>2
  <2>8. Cardinality(used) \in Nat /\ Cardinality(Spilled) \in Nat
    BY <2>4, HeapIsFinite, FS_Subset, FS_CardinalityType
  <2>9. free' = bitmap_len' - Cardinality(used')
    BY <2>1, <2>7, <2>8, <1>0 DEF BlockCore
  <2>10. \A i, j \in Cpus : ptr'[i] = ptr'[j] /\ ptr'[i] # Nothing => i = j
    BY <2>1 DEF BlockCore
  <2>11. /\ held' \cap Range(clip') = {} /\ held' \cap InFlight' = {}
         /\ InFlight' \cap Range(clip') = {}
         /\ used' = held' \cup InFlight' \cup Range(clip')
    BY <2>1, <2>2, <2>3, <2>4, <2>5 DEF BlockCore
  <2> QED BY <2>1, <2>2, <2>5, <2>6, <2>9, <2>10, <2>11 DEF BlockCore
<1>17. ASSUME Unmap PROVE BlockCore'
  <2>1. /\ bitmap_len' = 0 /\ free' = 0 /\ used' = {} /\ clip' = <<>>
        /\ UNCHANGED <<ptr, held>> /\ Unused
    BY <1>17 DEF Unmap, UnmapReturning
  <2> QED BY <2>1, CoreIsEmptied, Sizes
<1>18. ASSUME UnmapFails PROVE BlockCore'
  <2>1. /\ used' = used \ Range(clip) /\ free' = free + Len(clip) /\ clip' = <<>>
        /\ UNCHANGED <<bitmap_len, ptr, held>> /\ Unused
    BY <1>18 DEF UnmapFails
  <2>2. used = Range(clip)
    BY <2>1, NothingIsOut
  <2>3. Cardinality(used) = Len(clip)
    BY <2>2, SeqRangeFacts DEF BlockCore
  <2>4. free' = bitmap_len' /\ used' = {} /\ bitmap_len' \in Nat /\ bitmap_len' <= Capacity
    BY <2>1, <2>2, <2>3, <1>0, HeapIsFinite DEF BlockCore
  <2> QED BY <2>1, <2>4, CoreIsEmptied
<1> QED
  BY <1>1, <1>2, <1>3, <1>4, <1>5, <1>6, <1>7, <1>8, <1>9, <1>10,
     <1>11, <1>12, <1>13, <1>14, <1>15, <1>16, <1>17, <1>18
  DEF HeapNext

\* The allocations that the statistics must have.
CountCore == info.allocations = Cardinality(held) + Cardinality(Owing)

\* A CPU moves and owes as much as before.
LEMMA OwingKept ==
    ASSUME HeapTypeOK, NEW c \in Cpus, NEW p \in Places, pc' = [pc EXCEPT ![c] = p],
           p \in Owes <=> pc[c] \in Owes
    PROVE  Owing' = Owing
BY OwingFacts DEF Owing

\* A CPU has freed a block that is not counted yet.
LEMMA OwingGrows ==
    ASSUME HeapTypeOK, NEW c \in Cpus, NEW p \in Owes, pc' = [pc EXCEPT ![c] = p], pc[c] \notin Owes
    PROVE  Cardinality(Owing') = Cardinality(Owing) + 1
<1>1. p \in Places
  BY DEF Owes, Places
<1>2. Owing' = Owing \cup {c} /\ c \notin Owing
  BY <1>1, OwingFacts
<1>3. IsFiniteSet(Owing)
  BY HeapIsFinite
<1> QED BY <1>2, <1>3, FS_AddElement

\* A deallocation is counted.
LEMMA OwingShrinks ==
    ASSUME HeapTypeOK, NEW c \in Cpus, NEW p \in Places, pc' = [pc EXCEPT ![c] = p],
           p \notin Owes, pc[c] \in Owes
    PROVE  Cardinality(Owing') = Cardinality(Owing) - 1
<1>1. Owing' = Owing \ {c} /\ c \in Owing
  BY OwingFacts
<1>2. IsFiniteSet(Owing)
  BY HeapIsFinite
<1> QED BY <1>1, <1>2, FS_RemoveElement

\* Each step counts the allocation or the deallocation that it completes.
LEMMA CountStep ==
    ASSUME HeapInv, ~heap_panicked, HeapNext
    PROVE  CountCore'
<1>0. /\ HeapTypeOK /\ CpuInv /\ BlockCore /\ info \in [allocations : Nat, pages : Nat]
      /\ info.allocations = Cardinality(held) + Cardinality(Owing)
      /\ IsFiniteSet(held) /\ Cardinality(held) \in Nat
      /\ IsFiniteSet(Owing) /\ Cardinality(Owing) \in Nat
  BY CoreHolds, HeapIsFinite DEF HeapInv, HeapTypeOK, CountInv
<1> USE <1>0
<1>1. ASSUME NEW c \in Cpus, ClipPop(c) PROVE CountCore'
  <2>1. /\ pc[c] = "idle" /\ pc' = [pc EXCEPT ![c] = "count_allocation"]
        /\ held' = held /\ info'.allocations = info.allocations
    BY <1>1 DEF ClipPop, Counted
  <2> QED BY <2>1, OwingKept DEF Owes, Places, CountCore
<1>2. ASSUME NEW c \in Cpus, ClipIsEmpty(c) PROVE CountCore'
  <2>1. /\ pc[c] = "idle" /\ pc' = [pc EXCEPT ![c] = "refill"]
        /\ held' = held /\ info'.allocations = info.allocations
    BY <1>2 DEF ClipIsEmpty, Counted
  <2> QED BY <2>1, OwingKept DEF Owes, Places, CountCore
<1>3. ASSUME NEW c \in Cpus, CountAllocation(c) PROVE CountCore'
  <2>1. /\ pc[c] = "count_allocation" /\ pc' = [pc EXCEPT ![c] = "idle"]
        /\ held' = held \cup {ptr[c]} /\ info'.allocations = info.allocations + 1
    BY <1>3 DEF CountAllocation, Counted
  <2>2. ptr[c] \in InFlight /\ ptr[c] \notin held
    BY <2>1 DEF CpuInv, Carries, InFlight, BlockCore
  <2>3. Owing' = Owing
    BY <2>1, OwingKept DEF Owes, Places
  <2>4. Cardinality(held \cup {ptr[c]}) = Cardinality(held) + 1
    BY <2>2, FS_AddElement
  <2> QED BY <2>1, <2>3, <2>4 DEF CountCore
<1>4. ASSUME NEW c \in Cpus, RefillFromBitmap(c) PROVE CountCore'
  <2>1. /\ pc[c] = "refill" /\ pc' = [pc EXCEPT ![c] = "fill"]
        /\ held' = held /\ info'.allocations = info.allocations
    BY <1>4 DEF RefillFromBitmap, Counted
  <2> QED BY <2>1, OwingKept DEF Owes, Places, CountCore
<1>5. ASSUME NEW c \in Cpus, StockUpAtCapacity(c) PROVE CountCore'
  <2>1. /\ pc[c] = "refill" /\ pc' = [pc EXCEPT ![c] = "fill"]
        /\ held' = held /\ info'.allocations = info.allocations
    BY <1>5 DEF StockUpAtCapacity, StocksUp, Counted
  <2> QED BY <2>1, OwingKept DEF Owes, Places, CountCore
<1>6. ASSUME NEW c \in Cpus, StockUpReservesTwice(c) PROVE CountCore'
  BY <1>6 DEF StockUpReservesTwice, CountCore, Owing
<1>7. ASSUME NEW c \in Cpus, NEW supply \in FrameSupply, StockUpNoBitmap(c, supply) PROVE CountCore'
  <2>1. /\ pc[c] = "refill" /\ pc' = [pc EXCEPT ![c] = "idle"]
        /\ held' = held /\ info'.allocations = info.allocations
    BY <1>7 DEF StockUpNoBitmap, CanGrow, StocksUp, ReturnsNull, Counted
  <2> QED BY <2>1, OwingKept DEF Owes, Places, CountCore
<1>8. ASSUME NEW c \in Cpus, NEW supply \in FrameSupply, StockUpNoFrame(c, supply) PROVE CountCore'
  <2>1. /\ pc[c] = "refill" /\ pc' = [pc EXCEPT ![c] = "idle"]
        /\ held' = held /\ info'.allocations = info.allocations
    BY <1>8 DEF StockUpNoFrame, CanGrow, StocksUp, ReturnsNull, Counted
  <2> QED BY <2>1, OwingKept DEF Owes, Places, CountCore
<1>9. ASSUME NEW c \in Cpus, NEW supply \in FrameSupply, StockUp(c, supply) PROVE CountCore'
  <2>1. /\ pc[c] = "refill" /\ pc' = [pc EXCEPT ![c] = "fill"]
        /\ held' = held /\ info'.allocations = info.allocations
    BY <1>9 DEF StockUp, CanGrow, StocksUp, Counted
  <2> QED BY <2>1, OwingKept DEF Owes, Places, CountCore
<1>10. ASSUME NEW c \in Cpus, FillClip(c) PROVE CountCore'
  <2>1. /\ pc[c] = "fill" /\ pc' = [pc EXCEPT ![c] = "idle"] /\ Filled # <<>>
        /\ held' = held \cup {Last(Filled)} /\ info'.allocations = info.allocations + 1
    BY <1>10 DEF FillClip, Counted
  <2>2. /\ Filled \in Seq(Blocks) /\ IsInjective(Filled)
        /\ Range(Filled) = Range(clip) \cup Filling /\ Filling \cap used = {}
    BY FilledFacts DEF HeapInv
  <2>3. Last(Filled) \in Range(clip) \cup Filling
    BY <2>1, <2>2, FrontFacts
  <2>4. Last(Filled) \notin held
    BY <2>2, <2>3 DEF BlockCore
  <2>5. Owing' = Owing
    BY <2>1, OwingKept DEF Owes, Places
  <2>6. Cardinality(held \cup {Last(Filled)}) = Cardinality(held) + 1
    BY <2>4, FS_AddElement
  <2> QED BY <2>1, <2>5, <2>6 DEF CountCore
<1>11. ASSUME NEW c \in Cpus, FillFindsNothing(c) PROVE CountCore'
  <2>1. /\ pc[c] = "fill" /\ pc' = [pc EXCEPT ![c] = "idle"]
        /\ held' = held /\ info'.allocations = info.allocations
    BY <1>11 DEF FillFindsNothing, Counted
  <2> QED BY <2>1, OwingKept DEF Owes, Places, CountCore
<1>12. ASSUME NEW c \in Cpus, NEW b \in held, ClipPush(c, b) PROVE CountCore'
  <2>1. /\ pc[c] = "idle" /\ pc' = [pc EXCEPT ![c] = "count_deallocation"]
        /\ held' = held \ {b} /\ info'.allocations = info.allocations
    BY <1>12 DEF ClipPush
  <2>2. Cardinality(Owing') = Cardinality(Owing) + 1
    BY <2>1, OwingGrows DEF Owes, Places
  <2>3. Cardinality(held \ {b}) = Cardinality(held) - 1
    BY FS_RemoveElement
  <2> QED BY <2>1, <2>2, <2>3 DEF CountCore
<1>13. ASSUME NEW c \in Cpus, NEW b \in held, ClipIsFull(c, b) PROVE CountCore'
  <2>1. /\ pc[c] = "idle" /\ pc' = [pc EXCEPT ![c] = "spill"]
        /\ held' = held \ {b} /\ info'.allocations = info.allocations
    BY <1>13 DEF ClipIsFull
  <2>2. Cardinality(Owing') = Cardinality(Owing) + 1
    BY <2>1, OwingGrows DEF Owes, Places
  <2>3. Cardinality(held \ {b}) = Cardinality(held) - 1
    BY FS_RemoveElement
  <2> QED BY <2>1, <2>2, <2>3 DEF CountCore
<1>14. ASSUME NEW c \in Cpus, CountDeallocation(c) PROVE CountCore'
  <2>1. /\ pc[c] = "count_deallocation" /\ pc' = [pc EXCEPT ![c] = "idle"]
        /\ held' = held /\ info'.allocations = info.allocations - 1
    BY <1>14 DEF CountDeallocation, Counted
  <2>2. Cardinality(Owing') = Cardinality(Owing) - 1
    BY <2>1, OwingShrinks DEF Owes, Places
  <2> QED BY <2>1, <2>2 DEF CountCore
<1>15. ASSUME NEW c \in Cpus, LockToUnfill(c) PROVE CountCore'
  <2>1. /\ pc[c] = "spill" /\ pc' = [pc EXCEPT ![c] = "unfill"]
        /\ held' = held /\ info'.allocations = info.allocations
    BY <1>15 DEF LockToUnfill, Counted
  <2> QED BY <2>1, OwingKept DEF Owes, Places, CountCore
<1>16. ASSUME NEW c \in Cpus, UnfillClip(c) PROVE CountCore'
  <2>1. /\ pc[c] = "unfill" /\ pc' = [pc EXCEPT ![c] = "idle"]
        /\ held' = held /\ info'.allocations = info.allocations - 1
    BY <1>16 DEF UnfillClip, UnfillReturning, Counted
  <2>2. Cardinality(Owing') = Cardinality(Owing) - 1
    BY <2>1, OwingShrinks DEF Owes, Places
  <2> QED BY <2>1, <2>2 DEF CountCore
<1>17. ASSUME Unmap PROVE CountCore'
  <2>1. UNCHANGED <<pc, held>> /\ info'.allocations = info.allocations
    BY <1>17 DEF Unmap, UnmapReturning, Counted
  <2> QED BY <2>1 DEF CountCore, Owing
<1>18. ASSUME UnmapFails PROVE CountCore'
  <2>1. UNCHANGED <<pc, held>> /\ info'.allocations = info.allocations
    BY <1>18 DEF UnmapFails, Counted
  <2> QED BY <2>1 DEF CountCore, Owing
<1> QED
  BY <1>1, <1>2, <1>3, <1>4, <1>5, <1>6, <1>7, <1>8, <1>9, <1>10,
     <1>11, <1>12, <1>13, <1>14, <1>15, <1>16, <1>17, <1>18
  DEF HeapNext

\* What the steps preserve of the pages, whether or not an assertion fails.
PageCore ==
    /\ mapped \subseteq PagesFor(bitmap_len)
    /\ PagesFor(bitmap_len) \subseteq mapped => info.pages = Cardinality(PagesFor(bitmap_len)) + BitmapPages(bitmap_len)
    /\ ~shortage => /\ mapped = PagesFor(bitmap_len) /\ slabs = SlabsFor(bitmap_len)
                    /\ bitmap_block <=> bitmap_len > 0
    /\ ~quarry => bitmap_len = 0
    /\ slabs \subseteq 0 .. SlabCount - 1
    /\ info.pages \in Nat

\* It follows from the invariant.
LEMMA PageCoreHolds ==
    ASSUME HeapInv, ~heap_panicked
    PROVE  PageCore
BY DEF HeapInv, HeapTypeOK, PageInv, PageCore

\* Steps that map and reserve nothing.
LEMMA PageCoreKept ==
    ASSUME PageCore, UNCHANGED <<bitmap_len, bitmap_block, slabs, mapped, shortage>>,
           info'.pages = info.pages, quarry' = quarry \/ quarry' = TRUE
    PROVE  PageCore'
BY DEF PageCore

\* The pages and slabs that stock_up() adds.
LEMMA NewPagesFacts ==
    ASSUME HeapTypeOK
    PROVE  /\ NewSlabPages \in SUBSET SlabPages /\ IsFiniteSet(NewSlabPages)
           /\ Cardinality(NewSlabPages) \in Nat /\ NewBitmapPages \in Nat
           /\ PagesFor(Stocked) = PagesFor(bitmap_len) \cup NewSlabPages
           /\ NewSlabPages \cap PagesFor(bitmap_len) = {}
           /\ Cardinality(PagesFor(Stocked)) = Cardinality(PagesFor(bitmap_len)) + Cardinality(NewSlabPages)
           /\ BitmapPages(Stocked) = BitmapPages(bitmap_len) + NewBitmapPages
           /\ Cardinality(PagesFor(bitmap_len)) \in Nat /\ BitmapPages(bitmap_len) \in Nat
           /\ SlabsFor(bitmap_len) \subseteq SlabsFor(Stocked)
           /\ SlabsFor(Stocked) \subseteq 0 .. SlabCount - 1
<1>1. Stocked \in Nat /\ bitmap_len \in Nat /\ bitmap_len <= Stocked /\ Stocked <= Capacity
  BY StockedFacts, HeapTypes
<1>2. /\ PagesFor(bitmap_len) \subseteq PagesFor(Stocked)
      /\ SlabsFor(bitmap_len) \subseteq SlabsFor(Stocked)
      /\ SlabsFor(Stocked) \subseteq 0 .. SlabCount - 1
      /\ BitmapPages(bitmap_len) \in Nat /\ BitmapPages(Stocked) \in Nat
      /\ BitmapPages(bitmap_len) <= BitmapPages(Stocked)
  BY <1>1, MoreTakesMore
<1>3. /\ NewSlabPages \in SUBSET SlabPages
      /\ PagesFor(Stocked) = PagesFor(bitmap_len) \cup NewSlabPages
      /\ NewSlabPages \cap PagesFor(bitmap_len) = {}
  BY <1>2, PagesAreFinite DEF NewSlabPages
<1>4. IsFiniteSet(NewSlabPages) /\ IsFiniteSet(PagesFor(bitmap_len))
  BY <1>3, PagesAreFinite, FS_Subset
<1>5. Cardinality(NewSlabPages) \in Nat /\ Cardinality(PagesFor(bitmap_len)) \in Nat
  BY <1>4, FS_CardinalityType
<1>6. Cardinality(PagesFor(bitmap_len) \cup NewSlabPages)
        = Cardinality(PagesFor(bitmap_len)) + Cardinality(NewSlabPages)
          - Cardinality(PagesFor(bitmap_len) \cap NewSlabPages)
  BY <1>4, FS_Union
<1>7. Cardinality(PagesFor(bitmap_len) \cap NewSlabPages) = 0
  <2>1. PagesFor(bitmap_len) \cap NewSlabPages = {}
    BY <1>3
  <2> QED BY <2>1, FS_EmptySet
<1>8. Cardinality(PagesFor(Stocked)) = Cardinality(PagesFor(bitmap_len)) + Cardinality(NewSlabPages)
  BY <1>3, <1>5, <1>6, <1>7
<1>9. NewBitmapPages \in Nat /\ BitmapPages(Stocked) = BitmapPages(bitmap_len) + NewBitmapPages
  BY <1>2 DEF NewBitmapPages
<1> QED BY <1>2, <1>3, <1>4, <1>5, <1>8, <1>9

\* What is mapped, reserved and counted follows the length of the bitmap.
LEMMA PageStep ==
    ASSUME HeapInv, ~heap_panicked, HeapNext
    PROVE  PageCore'
<1>0. PageCore /\ HeapTypeOK /\ bitmap_len \in Nat /\ info.pages \in Nat
  BY PageCoreHolds, HeapTypes DEF HeapInv, PageCore
<1>1. ASSUME NEW c \in Cpus, ClipPop(c) PROVE PageCore'
  BY <1>1, <1>0, PageCoreKept DEF ClipPop, Counted, bitmapVars, quarryVars
<1>2. ASSUME NEW c \in Cpus, ClipIsEmpty(c) PROVE PageCore'
  BY <1>2, <1>0, PageCoreKept DEF ClipIsEmpty, Counted, bitmapVars, quarryVars
<1>3. ASSUME NEW c \in Cpus, CountAllocation(c) PROVE PageCore'
  BY <1>3, <1>0, PageCoreKept DEF CountAllocation, Counted, bitmapVars, quarryVars
<1>4. ASSUME NEW c \in Cpus, RefillFromBitmap(c) PROVE PageCore'
  BY <1>4, <1>0, PageCoreKept DEF RefillFromBitmap, Counted, bitmapVars, quarryVars
<1>5. ASSUME NEW c \in Cpus, StockUpAtCapacity(c) PROVE PageCore'
  BY <1>5, <1>0, PageCoreKept DEF StockUpAtCapacity, Counted, bitmapVars, quarryVars
<1>6. ASSUME NEW c \in Cpus, StockUpReservesTwice(c) PROVE PageCore'
  BY <1>6, <1>0, PageCoreKept DEF StockUpReservesTwice, Counted, bitmapVars, quarryVars
<1>7. ASSUME NEW c \in Cpus, NEW supply \in FrameSupply, StockUpNoBitmap(c, supply) PROVE PageCore'
  <2>1. /\ UNCHANGED <<bitmap_len, slabs, mapped, info>> /\ shortage' = TRUE /\ quarry' = TRUE
    BY <1>7 DEF StockUpNoBitmap, CanGrow
  <2> QED BY <2>1, <1>0 DEF PageCore
<1>8. ASSUME NEW c \in Cpus, NEW supply \in FrameSupply, StockUpNoFrame(c, supply) PROVE PageCore'
  <2> DEFINE first == FirstPages(NewSlabPages, supply - NewBitmapPages)
  <2>1. /\ bitmap_len' = Stocked /\ shortage' = TRUE /\ quarry' = TRUE /\ info' = info
        /\ slabs' = slabs \cup (SlabsFor(Stocked) \ SlabsFor(bitmap_len))
        /\ mapped' = mapped \cup first
        /\ supply \in NewBitmapPages .. NewBitmapPages + Cardinality(NewSlabPages) - 1
    BY <1>8 DEF StockUpNoFrame, CanGrow, GrowBitmap
  <2>2. /\ supply - NewBitmapPages \in Nat
        /\ supply - NewBitmapPages < Cardinality(NewSlabPages)
    BY <2>1, <1>0, NewPagesFacts
  <2>3. first \subseteq NewSlabPages /\ ~(NewSlabPages \subseteq first)
    BY <2>2, <1>0, NewPagesFacts, FirstPagesFacts
  <2> HIDE DEF first
  <2>4. ~(PagesFor(Stocked) \subseteq mapped')
    BY <2>1, <2>3, <1>0, NewPagesFacts DEF PageCore
  <2>5. mapped' \subseteq PagesFor(Stocked) /\ slabs' \subseteq 0 .. SlabCount - 1
    BY <2>1, <2>3, <1>0, NewPagesFacts DEF PageCore
  <2> QED BY <2>1, <2>4, <2>5, <1>0 DEF PageCore
<1>9. ASSUME NEW c \in Cpus, NEW supply \in FrameSupply, StockUp(c, supply) PROVE PageCore'
  <2>1. /\ bitmap_len' = Stocked /\ shortage' = shortage /\ quarry' = TRUE /\ bitmap_block' = TRUE
        /\ info'.pages = info.pages + (NewBitmapPages + Cardinality(NewSlabPages))
        /\ slabs' = slabs \cup (SlabsFor(Stocked) \ SlabsFor(bitmap_len))
        /\ mapped' = mapped \cup NewSlabPages
        /\ Stocked > bitmap_len
    BY <1>9 DEF StockUp, CanGrow, GrowBitmap, Counted
  <2>2. mapped' \subseteq PagesFor(Stocked) /\ slabs' \subseteq 0 .. SlabCount - 1
    BY <2>1, <1>0, NewPagesFacts DEF PageCore
  <2>3. ASSUME PagesFor(Stocked) \subseteq mapped'
        PROVE  info'.pages = Cardinality(PagesFor(Stocked)) + BitmapPages(Stocked)
    <3>1. PagesFor(bitmap_len) \subseteq mapped
      BY <2>1, <2>3, <1>0, NewPagesFacts
    <3>2. info.pages = Cardinality(PagesFor(bitmap_len)) + BitmapPages(bitmap_len)
      BY <3>1, <1>0 DEF PageCore
    <3> QED BY <2>1, <3>2, <1>0, NewPagesFacts
  <2>4. ASSUME ~shortage' PROVE mapped' = PagesFor(Stocked) /\ slabs' = SlabsFor(Stocked)
    BY <2>1, <2>4, <1>0, NewPagesFacts DEF PageCore
  <2>5. Stocked \in Nat /\ Stocked > 0
    BY <2>1, <1>0, StockedFacts
  <2>6. info'.pages \in Nat
    BY <2>1, <1>0, NewPagesFacts DEF PageCore
  <2> QED BY <2>1, <2>2, <2>3, <2>4, <2>5, <2>6 DEF PageCore
<1>10. ASSUME NEW c \in Cpus, FillClip(c) PROVE PageCore'
  BY <1>10, <1>0, PageCoreKept DEF FillClip, Counted, bitmapVars, quarryVars
<1>11. ASSUME NEW c \in Cpus, FillFindsNothing(c) PROVE PageCore'
  BY <1>11, <1>0, PageCoreKept DEF FillFindsNothing, Counted, bitmapVars, quarryVars
<1>12. ASSUME NEW c \in Cpus, NEW b \in held, ClipPush(c, b) PROVE PageCore'
  BY <1>12, <1>0, PageCoreKept DEF ClipPush, Counted, bitmapVars, quarryVars
<1>13. ASSUME NEW c \in Cpus, NEW b \in held, ClipIsFull(c, b) PROVE PageCore'
  BY <1>13, <1>0, PageCoreKept DEF ClipIsFull, Counted, bitmapVars, quarryVars
<1>14. ASSUME NEW c \in Cpus, CountDeallocation(c) PROVE PageCore'
  BY <1>14, <1>0, PageCoreKept DEF CountDeallocation, Counted, bitmapVars, quarryVars
<1>15. ASSUME NEW c \in Cpus, LockToUnfill(c) PROVE PageCore'
  BY <1>15, <1>0, PageCoreKept DEF LockToUnfill, Counted, bitmapVars, quarryVars
<1>16. ASSUME NEW c \in Cpus, UnfillClip(c) PROVE PageCore'
  BY <1>16, <1>0, PageCoreKept DEF UnfillClip, UnfillReturning, Counted, bitmapVars, quarryVars
<1>17. ASSUME Unmap PROVE PageCore'
  <2>1. /\ bitmap_len' = 0 /\ quarry' = FALSE /\ shortage' = shortage
        /\ bitmap_block' = (bitmap_block /\ bitmap_len = 0)
        /\ info'.pages = info.pages - (Cardinality(PagesFor(bitmap_len)) + BitmapPages(bitmap_len))
        /\ slabs' = slabs \ SlabsFor(bitmap_len) /\ mapped' = mapped \ PagesFor(bitmap_len)
        /\ quarry => PagesFor(bitmap_len) \subseteq mapped
    BY <1>17 DEF Unmap, UnmapReturning, UnmapsAll, Counted
  <2>2. PagesFor(bitmap_len) \subseteq mapped
    BY <2>1, <1>0, NothingTakesNothing DEF PageCore
  <2>3. info'.pages = 0
    BY <2>1, <2>2, <1>0, NewPagesFacts DEF PageCore
  <2>4. /\ mapped' = {} /\ slabs' \subseteq 0 .. SlabCount - 1
        /\ ~shortage' => slabs' = {}
    BY <2>1, <1>0 DEF PageCore
  <2>6. ~shortage' => ~bitmap_block'
    <3>1. ~shortage => (bitmap_block <=> bitmap_len > 0)
      BY <1>0 DEF PageCore
    <3>2. ~(bitmap_len > 0 /\ bitmap_len = 0)
      BY <1>0
    <3> QED BY <2>1, <3>1, <3>2, Zenon
  <2>5. /\ PagesFor(bitmap_len') = {} /\ SlabsFor(bitmap_len') = {}
        /\ Cardinality(PagesFor(bitmap_len')) = 0 /\ BitmapPages(bitmap_len') = 0
    BY <2>1, NothingTakesNothing
  <2> QED BY <2>1, <2>3, <2>4, <2>5, <2>6 DEF PageCore
<1>18. ASSUME UnmapFails PROVE PageCore'
  <2> DEFINE missing == PagesFor(bitmap_len) \ mapped
             freed == {q \in PagesFor(bitmap_len) : \A p \in missing : Before(q, p)}
  <2>1. /\ UNCHANGED <<bitmap_len, quarry, info, shortage, bitmap_block>>
        /\ mapped' = mapped \ freed /\ slabs' \subseteq slabs
        /\ quarry /\ ~(PagesFor(bitmap_len) \subseteq mapped)
    BY <1>18 DEF UnmapFails, UnmapsAll
  <2> HIDE DEF freed
  <2> QED BY <2>1, <1>0 DEF PageCore
<1> QED
  BY <1>1, <1>2, <1>3, <1>4, <1>5, <1>6, <1>7, <1>8, <1>9, <1>10,
     <1>11, <1>12, <1>13, <1>14, <1>15, <1>16, <1>17, <1>18
  DEF HeapNext

\* An assertion fails only after the fallback has run out of frames.
LEMMA PanicStep ==
    ASSUME HeapInv, ~heap_panicked, HeapNext
    PROVE  NoHeapPanic'
<1>0. PageCore /\ BlockCore /\ HeapTypeOK /\ bitmap_len \in Nat /\ bitmap_len <= Capacity /\ ~heap_panicked
  BY CoreHolds, PageCoreHolds, HeapTypes DEF HeapInv
<1>1. ASSUME NEW c \in Cpus, ClipPop(c) PROVE NoHeapPanic'
  BY <1>1, <1>0 DEF ClipPop, NoHeapPanic
<1>2. ASSUME NEW c \in Cpus, ClipIsEmpty(c) PROVE NoHeapPanic'
  BY <1>2, <1>0 DEF ClipIsEmpty, NoHeapPanic
<1>3. ASSUME NEW c \in Cpus, CountAllocation(c) PROVE NoHeapPanic'
  BY <1>3, <1>0 DEF CountAllocation, NoHeapPanic
<1>4. ASSUME NEW c \in Cpus, RefillFromBitmap(c) PROVE NoHeapPanic'
  BY <1>4, <1>0 DEF RefillFromBitmap, NoHeapPanic
<1>5. ASSUME NEW c \in Cpus, StockUpAtCapacity(c) PROVE NoHeapPanic'
  BY <1>5, <1>0 DEF StockUpAtCapacity, NoHeapPanic
<1>6. ASSUME NEW c \in Cpus, StockUpReservesTwice(c) PROVE NoHeapPanic'
  BY <1>6, <1>0 DEF StockUpReservesTwice, PageCore, NoHeapPanic
<1>7. ASSUME NEW c \in Cpus, NEW supply \in FrameSupply, StockUpNoBitmap(c, supply) PROVE NoHeapPanic'
  BY <1>7, <1>0 DEF StockUpNoBitmap, CanGrow, NoHeapPanic
<1>8. ASSUME NEW c \in Cpus, NEW supply \in FrameSupply, StockUpNoFrame(c, supply) PROVE NoHeapPanic'
  BY <1>8, <1>0 DEF StockUpNoFrame, CanGrow, NoHeapPanic
<1>9. ASSUME NEW c \in Cpus, NEW supply \in FrameSupply, StockUp(c, supply) PROVE NoHeapPanic'
  BY <1>9, <1>0 DEF StockUp, CanGrow, NoHeapPanic
<1>10. ASSUME NEW c \in Cpus, FillClip(c) PROVE NoHeapPanic'
  BY <1>10, <1>0 DEF FillClip, NoHeapPanic
<1>11. ASSUME NEW c \in Cpus, FillFindsNothing(c) PROVE NoHeapPanic'
  BY <1>11, <1>0 DEF FillFindsNothing, NoHeapPanic
<1>12. ASSUME NEW c \in Cpus, NEW b \in held, ClipPush(c, b) PROVE NoHeapPanic'
  BY <1>12, <1>0 DEF ClipPush, NoHeapPanic
<1>13. ASSUME NEW c \in Cpus, NEW b \in held, ClipIsFull(c, b) PROVE NoHeapPanic'
  BY <1>13, <1>0 DEF ClipIsFull, NoHeapPanic
<1>14. ASSUME NEW c \in Cpus, CountDeallocation(c) PROVE NoHeapPanic'
  BY <1>14, <1>0 DEF CountDeallocation, NoHeapPanic
<1>15. ASSUME NEW c \in Cpus, LockToUnfill(c) PROVE NoHeapPanic'
  BY <1>15, <1>0 DEF LockToUnfill, NoHeapPanic
<1>16. ASSUME NEW c \in Cpus, UnfillClip(c) PROVE NoHeapPanic'
  <2>1. /\ heap_panicked' = (\E b \in Spilled : b \notin used \/ SlabOf(b) \notin slabs)
        /\ shortage' = shortage
    BY <1>16 DEF UnfillClip, UnfillReturning, DeallocateImpl
  <2>2. Spilled \subseteq used
    BY <1>0, KeptFacts DEF BlockCore
  <2>3. ASSUME ~shortage, NEW b \in Spilled PROVE SlabOf(b) \in slabs
    <3>1. b \in Nat /\ b < bitmap_len
      BY <2>2, <1>0 DEF BlockCore
    <3>2. SlabOf(b) \in SlabsFor(bitmap_len)
      BY <3>1, <1>0, BlocksArePaged
    <3> QED BY <3>2, <2>3, <1>0 DEF PageCore
  <2> QED BY <2>1, <2>2, <2>3 DEF NoHeapPanic
<1>17. ASSUME Unmap PROVE NoHeapPanic'
  <2>1. /\ shortage' = shortage /\ Unused
        /\ heap_panicked' = \/ info.allocations # 0
                            \/ \E b \in Range(clip) : b \notin used
                            \/ used \ Range(clip) # {}
                            \/ slabs # SlabsFor(bitmap_len)
                            \/ info.pages # Cardinality(PagesFor(bitmap_len)) + BitmapPages(bitmap_len)
    BY <1>17 DEF Unmap, UnmapReturning
  <2>2. held = {} /\ Owing = {} /\ used = Range(clip)
    BY <2>1, NothingIsOut
  <2>3. info.allocations = 0
    BY <2>2, FS_EmptySet, <1>0 DEF HeapInv, CountInv
  <2>4. ~shortage => slabs = SlabsFor(bitmap_len) /\ info.pages = Cardinality(PagesFor(bitmap_len)) + BitmapPages(bitmap_len)
    BY <1>0 DEF PageCore
  <2> QED BY <2>1, <2>2, <2>3, <2>4 DEF NoHeapPanic
<1>18. ASSUME UnmapFails PROVE NoHeapPanic'
  BY <1>18, <1>0 DEF UnmapFails, UnmapsAll, PageCore, NoHeapPanic
<1> QED
  BY <1>1, <1>2, <1>3, <1>4, <1>5, <1>6, <1>7, <1>8, <1>9, <1>10,
     <1>11, <1>12, <1>13, <1>14, <1>15, <1>16, <1>17, <1>18
  DEF HeapNext

\* The variables that the other parts say nothing of.
RestTypes ==
    /\ bitmap_block \in BOOLEAN /\ quarry \in BOOLEAN /\ shortage \in BOOLEAN /\ heap_panicked \in BOOLEAN
    /\ allocator_lock \in Cpus \cup {Nothing}
    /\ pc \in [Cpus -> Places]
    /\ info \in [allocations : Int, pages : Int]

\* The rest of the type invariant.
LEMMA RestStep ==
    ASSUME HeapInv, ~heap_panicked, HeapNext
    PROVE  RestTypes'
<1>0. /\ RestTypes /\ bitmap_len \in Nat /\ NewBitmapPages \in Nat /\ BitmapPages(bitmap_len) \in Nat
      /\ Cardinality(NewSlabPages) \in Nat /\ Cardinality(PagesFor(bitmap_len)) \in Nat
  BY HeapTypes, NewPagesFacts DEF HeapInv, HeapTypeOK, RestTypes
<1>1. ASSUME NEW c \in Cpus, ClipPop(c) PROVE RestTypes'
  BY <1>1, <1>0 DEF ClipPop, RestTypes, Places, Counted, bitmapVars, quarryVars
<1>2. ASSUME NEW c \in Cpus, ClipIsEmpty(c) PROVE RestTypes'
  BY <1>2, <1>0 DEF ClipIsEmpty, RestTypes, Places, Counted, bitmapVars, quarryVars
<1>3. ASSUME NEW c \in Cpus, CountAllocation(c) PROVE RestTypes'
  BY <1>3, <1>0 DEF CountAllocation, RestTypes, Places, Counted, bitmapVars, quarryVars
<1>4. ASSUME NEW c \in Cpus, RefillFromBitmap(c) PROVE RestTypes'
  BY <1>4, <1>0 DEF RefillFromBitmap, RestTypes, Places, Counted, bitmapVars, quarryVars
<1>5. ASSUME NEW c \in Cpus, StockUpAtCapacity(c) PROVE RestTypes'
  BY <1>5, <1>0 DEF StockUpAtCapacity, RestTypes, Places, Counted, bitmapVars, quarryVars
<1>6. ASSUME NEW c \in Cpus, StockUpReservesTwice(c) PROVE RestTypes'
  BY <1>6, <1>0 DEF StockUpReservesTwice, RestTypes, Places, Counted, bitmapVars, quarryVars
<1>7. ASSUME NEW c \in Cpus, NEW supply \in FrameSupply, StockUpNoBitmap(c, supply) PROVE RestTypes'
  BY <1>7, <1>0 DEF StockUpNoBitmap, CanGrow, ReturnsNull, RestTypes, Places, Counted, bitmapVars, quarryVars
<1>8. ASSUME NEW c \in Cpus, NEW supply \in FrameSupply, StockUpNoFrame(c, supply) PROVE RestTypes'
  BY <1>8, <1>0 DEF StockUpNoFrame, CanGrow, ReturnsNull, RestTypes, Places, Counted, bitmapVars, quarryVars
<1>9. ASSUME NEW c \in Cpus, NEW supply \in FrameSupply, StockUp(c, supply) PROVE RestTypes'
  BY <1>9, <1>0 DEF StockUp, CanGrow, RestTypes, Places, Counted, bitmapVars, quarryVars
<1>10. ASSUME NEW c \in Cpus, FillClip(c) PROVE RestTypes'
  BY <1>10, <1>0 DEF FillClip, RestTypes, Places, Counted, bitmapVars, quarryVars
<1>11. ASSUME NEW c \in Cpus, FillFindsNothing(c) PROVE RestTypes'
  BY <1>11, <1>0 DEF FillFindsNothing, RestTypes, Places, Counted, bitmapVars, quarryVars
<1>12. ASSUME NEW c \in Cpus, NEW b \in held, ClipPush(c, b) PROVE RestTypes'
  BY <1>12, <1>0 DEF ClipPush, RestTypes, Places, Counted, bitmapVars, quarryVars
<1>13. ASSUME NEW c \in Cpus, NEW b \in held, ClipIsFull(c, b) PROVE RestTypes'
  BY <1>13, <1>0 DEF ClipIsFull, RestTypes, Places, Counted, bitmapVars, quarryVars
<1>14. ASSUME NEW c \in Cpus, CountDeallocation(c) PROVE RestTypes'
  BY <1>14, <1>0 DEF CountDeallocation, RestTypes, Places, Counted, bitmapVars, quarryVars
<1>15. ASSUME NEW c \in Cpus, LockToUnfill(c) PROVE RestTypes'
  BY <1>15, <1>0 DEF LockToUnfill, RestTypes, Places, Counted, bitmapVars, quarryVars
<1>16. ASSUME NEW c \in Cpus, UnfillClip(c) PROVE RestTypes'
  BY <1>16, <1>0 DEF UnfillClip, UnfillReturning, DeallocateImpl, RestTypes, Places, Counted, bitmapVars, quarryVars
<1>17. ASSUME Unmap PROVE RestTypes'
  <2>1. UNCHANGED <<allocator_lock, pc, shortage>> /\ quarry' = FALSE
    BY <1>17 DEF Unmap, UnmapReturning
  <2>2. bitmap_block' \in BOOLEAN /\ heap_panicked' \in BOOLEAN
    BY <1>17, Zenon DEF Unmap, UnmapReturning
  <2>3. info' = Counted(info, 0, -(Cardinality(PagesFor(bitmap_len)) + BitmapPages(bitmap_len)))
    BY <1>17 DEF Unmap, UnmapReturning
  <2>4. info' \in [allocations : Int, pages : Int]
    BY <2>3, <1>0 DEF RestTypes, Counted
  <2>5. /\ quarry' \in BOOLEAN /\ shortage' \in BOOLEAN
        /\ allocator_lock' \in Cpus \cup {Nothing} /\ pc' \in [Cpus -> Places]
    BY <2>1, <1>0 DEF RestTypes
  <2> QED BY <2>2, <2>4, <2>5, Zenon DEF RestTypes
<1>18. ASSUME UnmapFails PROVE RestTypes'
  BY <1>18, <1>0 DEF UnmapFails, RestTypes, Places, Counted, bitmapVars, quarryVars
<1> QED
  BY <1>1, <1>2, <1>3, <1>4, <1>5, <1>6, <1>7, <1>8, <1>9, <1>10,
     <1>11, <1>12, <1>13, <1>14, <1>15, <1>16, <1>17, <1>18
  DEF HeapNext

\* The parts make the whole.
LEMMA PartsSuffice ==
    BlockCore /\ CountCore /\ PageCore /\ RestTypes /\ CpuInv /\ NoHeapPanic => HeapInv
<1> SUFFICES ASSUME BlockCore, CountCore, PageCore, RestTypes, CpuInv, NoHeapPanic
             PROVE  HeapInv
  OBVIOUS
<1>1. bitmap_len \in 0 .. Capacity /\ free \in 0 .. bitmap_len /\ BlocksAreExclusive
  BY CoreSuffices
<1>2. IsFiniteSet(held) /\ IsFiniteSet(Owing)
  <2>1. IsFiniteSet(Blocks) /\ held \in SUBSET Blocks
    BY Sizes, FS_Interval DEF Blocks, BlockCore
  <2>2. Owing \in SUBSET Cpus
    BY DEF Owing
  <2> QED BY <2>1, <2>2, HeapCpusAssumption, FS_Subset
<1>3. info.allocations \in Nat
  BY <1>2, FS_CardinalityType DEF CountCore
<1>4. info \in [allocations : Nat, pages : Nat]
  BY <1>3 DEF PageCore, RestTypes
<1>5. mapped \subseteq SlabPages
  BY PagesAreFinite DEF PageCore
<1>6. HeapTypeOK
  BY <1>1, <1>4, <1>5 DEF HeapTypeOK, BlockCore, PageCore, RestTypes
<1>7. CountInv /\ PageInv
  BY DEF CountInv, CountCore, PageInv, PageCore
<1> QED BY <1>1, <1>6, <1>7 DEF HeapInv

\* The empty class.
LEMMA HeapInitially == HeapInit => HeapInv
<1>1. SUFFICES ASSUME HeapInit PROVE HeapInv
  OBVIOUS
<1>2. InFlight = {} /\ Owing = {}
  BY <1>1 DEF HeapInit, InFlight, Owing, Owes
<1>3. Range(clip) = {} /\ IsInjective(clip) /\ clip \in Seq(Blocks) /\ Len(clip) <= ClipSize
  BY <1>1, Sizes DEF HeapInit, Range, IsInjective
<1>4. Cardinality({}) = 0
  BY FS_EmptySet
<1>5. BlockCore
  BY <1>1, <1>2, <1>3, <1>4, Sizes DEF HeapInit, BlockCore
<1>6. CountCore
  BY <1>1, <1>2, <1>4 DEF HeapInit, CountCore, Balances
<1>8. CpuInv
  BY <1>1, HeapCpusAssumption DEF HeapInit, CpuInv, Carries
<1>9. RestTypes /\ NoHeapPanic
  <2>1. info \in [allocations : Int, pages : Int] /\ pc \in [Cpus -> Places] /\ ~heap_panicked
    BY <1>1 DEF HeapInit, Balances, Places
  <2>2. /\ bitmap_block \in BOOLEAN /\ quarry \in BOOLEAN /\ shortage \in BOOLEAN
        /\ heap_panicked \in BOOLEAN /\ allocator_lock \in Cpus \cup {Nothing}
    BY <1>1 DEF HeapInit
  <2> QED BY <2>1, <2>2, Zenon DEF RestTypes, NoHeapPanic
<1>7. PageCore
  BY <1>1, NothingTakesNothing DEF HeapInit, PageCore, Balances
<1> QED BY <1>5, <1>6, <1>7, <1>8, <1>9, PartsSuffice

\* Each step of a CPU and each unmap() preserves the invariant.
LEMMA HeapStep == HeapInv /\ [HeapNext]_heapVars => HeapInv'
<1>1. ASSUME HeapInv, HeapNext PROVE HeapInv'
  <2>1. ~heap_panicked
    BY <1>1 DEF HeapNext
  <2>2. (BlockCore /\ CountCore /\ PageCore /\ RestTypes /\ CpuInv /\ NoHeapPanic)'
    BY <1>1, <2>1, BlockStep, CountStep, PageStep, RestStep, CpuStep, PanicStep
  <2>3. (BlockCore /\ CountCore /\ PageCore /\ RestTypes /\ CpuInv /\ NoHeapPanic)' => HeapInv'
    BY PartsSuffice, PTL
  <2> QED BY <2>2, <2>3
<1>2. ASSUME HeapInv, UNCHANGED heapVars PROVE HeapInv'
  BY <1>2
     DEF HeapInv, HeapTypeOK, CpuInv, BlocksAreExclusive, InFlight, CountInv, Owing, PageInv,
         NoHeapPanic, heapVars, bitmapVars, quarryVars, cpuVars
<1> QED BY <1>1, <1>2

\* The inductive invariant of a size class: who has which block, who has the lock, and what is
\* mapped and counted.
THEOREM HeapInvariance == HeapSpec => []HeapInv
<1> QED BY HeapInitially, HeapStep, PTL DEF HeapSpec

\* A block that fixed_size_allocate() returns is in no other place, and all its pages are mapped
\* unless the fallback has run out of frames.
THEOREM BlocksAreAlwaysUsable == HeapSpec => []BlocksAreUsable
<1>1. ASSUME HeapInv PROVE BlocksAreUsable
  <2>1. ASSUME ~shortage, ~heap_panicked, NEW b \in held PROVE PagesOf(b) \subseteq mapped
    <3>1. b \in Nat /\ b < bitmap_len /\ bitmap_len \in Nat /\ bitmap_len <= Capacity
      BY <1>1, <2>1, CoreHolds DEF BlockCore
    <3>2. PagesOf(b) \subseteq PagesFor(bitmap_len)
      BY <3>1, BlocksArePaged
    <3> QED BY <3>2, <1>1, <2>1 DEF HeapInv, PageInv
  <2>2. ~shortage => ~heap_panicked
    BY <1>1 DEF HeapInv, NoHeapPanic
  <2> QED BY <1>1, <2>1, <2>2 DEF HeapInv, BlocksAreUsable, HandedOutIsMapped
<1> QED BY <1>1, HeapInvariance, PTL

\* fixed_size_allocate() returns null when all the blocks of the class are with callers or on the
\* way to them, or when there are no frames.
THEOREM NullIsAlwaysHonest == HeapSpec => []NullIsHonest
<1>1. ASSUME HeapInv PROVE NullIsHonest
  <2>1. SUFFICES ASSUME NEW c \in Cpus, pc[c] = "fill", Filled = <<>>, ~shortage
                 PROVE  held \cup InFlight = Blocks
    BY DEF NullIsHonest
  <2>2. ~heap_panicked /\ HeapTypeOK /\ BlocksAreExclusive /\ BlockCore
    BY <1>1, <2>1, CoreHolds DEF HeapInv, NoHeapPanic
  <2>3. Range(clip) = {} /\ Filling = {} /\ clip = <<>>
    <3>1. Range(Filled) = Range(clip) \cup Filling /\ Filled \in Seq(Blocks) /\ clip \in Seq(Blocks)
      BY <2>2, FilledFacts, HeapTypes
    <3>2. Range(Filled) = {}
      BY <3>1, <2>1, EmptyRange
    <3> QED BY <3>1, <3>2, EmptyRange
  <2>4. Taken = {}
    <3>1. SUFFICES ASSUME NEW i \in Taken PROVE FALSE
      OBVIOUS
    <3>2. i \in Nat /\ i < bitmap_len /\ bitmap_len \in Nat /\ bitmap_len <= Capacity
      BY <2>2, HeapTypes DEF Taken, FreeBits
    <3>3. SlabOf(i) \in slabs
      BY <3>2, <1>1, <2>1, BlocksArePaged DEF HeapInv, PageInv
    <3> QED BY <3>3, <2>3 DEF Filling
  <2>5. ~(free > 0)
    BY <2>2, <2>3, <2>4, FillingFacts
  <2>6. free = 0 /\ bitmap_len = Capacity
    BY <1>1, <2>1, <2>2, <2>5, HeapTypes DEF HeapInv, CpuInv
  <2>7. FreeBits = {}
    BY <2>2, <2>6, FreeIsExact, HeapIsFinite, FS_EmptySet
  <2>8. Blocks \subseteq used
    BY <2>6, <2>7 DEF FreeBits, Blocks
  <2> QED BY <2>2, <2>3, <2>8, HeapTypes DEF BlockCore
<1> QED BY <1>1, HeapInvariance, PTL

\* The statistics count each block of a caller until its deallocation is complete, and each mapped
\* page of slabs and of the bitmap.
THEOREM StatisticsAreAlwaysExact == HeapSpec => []StatisticsAreExact
<1>1. HeapInv => StatisticsAreExact
  <2>1. {c \in Cpus : pc[c] \in {"count_deallocation", "spill", "unfill"}} = Owing
    BY DEF Owing, Owes
  <2> QED BY <2>1 DEF HeapInv, CountInv, PageInv, StatisticsAreExact
<1> QED BY <1>1, HeapInvariance, PTL

\* As long as there are frames no assertion of the heap fails, and Dispatcher::unmap() leaves
\* neither memory nor address space behind.
THEOREM HeapIsAlwaysReturned == HeapSpec => []HeapIsReturned
<1>1. ASSUME HeapInv PROVE HeapIsReturned
  <2>1. ASSUME ~quarry, ~shortage PROVE mapped = {} /\ slabs = {} /\ ~bitmap_block /\ bitmap_len = 0
    BY <1>1, <2>1, NothingTakesNothing DEF HeapInv, PageInv
  <2> QED BY <1>1, <2>1 DEF HeapInv, HeapIsReturned, UnmapReleasesAll
<1> QED BY <1>1, HeapInvariance, PTL
=============================================================================
