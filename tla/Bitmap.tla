------------------------------- MODULE Bitmap -------------------------------
(***************************************************************************)
(* ku/src/collections/bitmap.rs: the bitmap of fixed size, which looks for *)
(* a clear bit an entry at a time, from the entry of the last allocation.  *)
(* `bits' maps the numbers of the bits of a slice to whether they are set. *)
(***************************************************************************)
EXTENDS Integers, Sequences, SequencesExt

CONSTANTS BitsPerEntry   \* u64::BITS

Entries(len) == (len + BitsPerEntry - 1) \div BitsPerEntry
NoElement == -1      \* None
Unreachable == -2    \* hint::unreachable_unchecked()

\* Bitmap::count_free()
CountFree(bits, len) == Cardinality({i \in 0 .. len - 1 : ~bits[i]})

\* Bitmap::new(); free = NoElement is None.
NewBitmap(bits, len, free) ==
    LET count == IF free = NoElement THEN CountFree(bits, len) ELSE free
        cursor == (len - count) \div BitsPerEntry IN
    [bits |-> [i \in 0 .. Entries(len) * BitsPerEntry - 1 |-> bits[i]], len |-> len, free |-> count,
     cursor |-> IF cursor >= Entries(len) THEN 0 ELSE cursor]

\* The clear bits of an entry.
ClearBits(b, index) == {i \in index * BitsPerEntry .. (index + 1) * BitsPerEntry - 1 : ~b.bits[i]}

\* Whether Bitmap::allocate() takes the first clear bit of an entry.
FitsUnbounded(b, index) == ClearBits(b, index) # {}
Fits(b, index) == ClearBits(b, index) # {} /\ Min(ClearBits(b, index)) < b.len

\* Bitmap::allocate() gives [bitmap, element].
AllocateElement(b) ==
    LET n == Entries(b.len)
        indexAt(offset) == (b.cursor + offset) % n
        found == {offset \in 0 .. n - 1 : Fits(b, indexAt(offset))}
        index == indexAt(Min(found))
        element == Min(ClearBits(b, index)) IN
    IF b.free = 0 THEN [bitmap |-> b, element |-> NoElement]
    ELSE IF found = {} THEN [bitmap |-> b, element |-> Unreachable]
    ELSE [element |-> element,
          bitmap |-> [b EXCEPT !.bits[element] = TRUE, !.cursor = index, !.free = @ - 1]]

\* Bitmap::set_free()
SetFree(b, element) == [b EXCEPT !.bits[element] = FALSE, !.free = @ + 1]

\* Bitmap::bulk_allocate() gives [bitmap, elements].
BulkAllocate(b, count) ==
    LET step(r, i) == LET a == AllocateElement(r.bitmap) IN
                      [bitmap |-> a.bitmap, elements |-> Append(r.elements, a.element)]
    IN FoldLeft(step, [bitmap |-> b, elements |-> <<>>], [i \in 1 .. Min({count, b.free}) |-> i])
=============================================================================
