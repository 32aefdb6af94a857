-------------------------- MODULE SchedulingProofs --------------------------
(***************************************************************************)
(* Proofs about the process table and the scheduler for any number of      *)
(* CPUs, slots, epochs and processes.                                      *)
(*                                                                         *)
(* First the process table, under the lock of its callers: its inductive   *)
(* invariant, and that it implements the registry of pids.                 *)
(*                                                                         *)
(* Then the scheduler, in three layers.  Where a CPU is in the code tells  *)
(* which locks it owns and whose process it deals with (ControlInv).  A    *)
(* pid is a token that exists once, in the queue or in the hands of a CPU, *)
(* and every process in the table has its token (TokenInv).  As long as    *)
(* the kernel itself destroys nobody's process, every token is that of a   *)
(* live process (UserInv), and this rules out panics and deadlocks.        *)
(***************************************************************************)
EXTENDS Scheduling, FiniteSetTheorems, SequenceTheorems, TLAPS

\* The inductive invariant: types, each slot keeps its own slot number, and
\* the free list is intact.
TableInv == TableTypeOK /\ SlotPids /\ FreeListIntact

\* While some slot is used, process_count is positive: the free list is a
\* list without repetitions of the other slots (pigeonhole).
LEMMA CountIsPositive ==
  ASSUME TableTypeOK,
         NEW stack \in [1 .. SlotCount - process_count -> Slots],
         FreeStack(stack, SlotCount - process_count),
         NEW s \in Slots, IsUsed(s)
  PROVE  process_count > 0
<1> SUFFICES ASSUME process_count = 0 PROVE FALSE
  BY SlotCountAssumption DEF TableTypeOK
<1> DEFINE Others == Slots \ {s}
<1>1. stack \in [1 .. SlotCount -> Others]
  <2> SUFFICES ASSUME NEW i \in 1 .. SlotCount PROVE stack[i] # s
    BY SlotCountAssumption
  <2> QED
    BY SlotCountAssumption DEF FreeStack
<1>2. IsFiniteSet(Slots) /\ Cardinality(Slots) = SlotCount
  BY SlotCountAssumption, FS_Interval DEF Slots
<1>3. IsFiniteSet(Others) /\ Cardinality(Others) = SlotCount - 1
  BY <1>2, FS_RemoveElement
<1>4. IsFiniteSet(1 .. SlotCount) /\ Cardinality(1 .. SlotCount) = SlotCount
  BY SlotCountAssumption, FS_Interval
<1>5. PICK i, j \in 1 .. SlotCount : i # j /\ stack[i] = stack[j]
  <2> HIDE DEF Others
  <2>1. Cardinality(Others) < Cardinality(1 .. SlotCount)
    BY <1>3, <1>4, SlotCountAssumption
  <2> QED
    BY <1>1, <1>3, <1>4, <2>1, FS_PigeonHole
<1> QED
  BY <1>5, SlotCountAssumption DEF FreeStack

\* Table::new() builds a table that satisfies the invariant.
LEMMA InitEstablishesInv == TableInit => TableInv
<1> SUFFICES ASSUME TableInit PROVE TableInv
  OBVIOUS
<1> USE SlotCountAssumption, MaxEpochAssumption DEF Slots
<1>1. \A s \in Slots : NewPid(s) \in Pid
  BY DEF NewPid, Pid
<1>2. TableTypeOK
  <2>1. table \in [Slots -> Slot]
    BY <1>1 DEF TableInit, Slot, FreeSlot
  <2>2. panicked \in BOOLEAN
    BY Zenon DEF TableInit
  <2>3. free \in Pid \cup {None} /\ process_count \in 0 .. SlotCount
    BY <1>1 DEF TableInit
  <2> QED
    BY <2>1, <2>2, <2>3 DEF TableTypeOK
<1>3. SlotPids
  BY DEF TableInit, SlotPids, NewPid, FreeSlot
<1>4. FreeListIntact
  <2> DEFINE stack == [i \in 1 .. SlotCount |-> SlotCount - i]
  <2>1. stack \in [1 .. SlotCount - process_count -> Slots]
    BY DEF TableInit
  <2>2. FreeStack(stack, SlotCount)
    <3>1. \A i, j \in 1 .. SlotCount : stack[i] = stack[j] => i = j
      OBVIOUS
    <3>2. \A s \in Slots : ~IsUsed(s)
      BY DEF TableInit, IsUsed, FreeSlot
    <3>3. \A s \in Slots : \E i \in 1 .. SlotCount : stack[i] = s
      <4> SUFFICES ASSUME NEW s \in Slots
                   PROVE  \E i \in 1 .. SlotCount : stack[i] = s
        OBVIOUS
      <4> WITNESS SlotCount - s \in 1 .. SlotCount
      <4> QED OBVIOUS
    <3>4. free = IF SlotCount = 0 THEN None ELSE table[stack[SlotCount]].pid
      BY DEF TableInit, FreeSlot, NewPid
    <3>5. \A i \in 1 .. SlotCount :
             table[stack[i]].next = IF i = 1 THEN None ELSE table[stack[i - 1]].pid
      BY DEF TableInit, FreeSlot, NewPid
    <3> QED
      BY <3>1, <3>2, <3>3, <3>4, <3>5 DEF FreeStack
  <2>3. SlotCount - process_count = SlotCount
    BY DEF TableInit
  <2> QED
    BY <2>1, <2>2, <2>3 DEF FreeListIntact
<1> QED
  BY <1>2, <1>3, <1>4 DEF TableInv

\* Table::allocate() pops the top of the stack of free slots.
LEMMA AllocatePreservesInv == TableInv /\ Allocate => TableInv'
<1> SUFFICES ASSUME TableInv, Allocate PROVE TableInv'
  OBVIOUS
<1> USE SlotCountAssumption, MaxEpochAssumption, NoneAssumption
<1>0. PICK n \in Int : n = SlotCount - process_count
  BY DEF TableInv, TableTypeOK
<1>1. PICK stack \in [1 .. n -> Slots] : FreeStack(stack, n)
  BY <1>0 DEF TableInv, FreeListIntact
<1>2. n \in Nat /\ n > 0 /\ free = table[stack[n]].pid
  BY <1>0, <1>1 DEF Allocate, CanAllocate, FreeStack, TableInv, TableTypeOK
<1> DEFINE top == stack[n]
<1>3. top \in Slots /\ free.slot = top /\ free \in Pid
  BY <1>1, <1>2 DEF TableInv, SlotPids, TableTypeOK, Slot, Pid, Slots
<1>4. /\ table' = [table EXCEPT ![top] = UsedSlot(free)]
      /\ free' = table[top].next
      /\ process_count' = process_count + 1
      /\ panicked' = panicked
  BY <1>3 DEF Allocate
<1>5. UsedSlot(free) \in Slot
  BY <1>3 DEF UsedSlot, Slot
<1>6. ~IsUsed(top) /\ table[top].next \in Pid \cup {None}
  <2>1. ~IsUsed(top)
    BY <1>1, <1>2, <1>3 DEF FreeStack
  <2>2. table[top] \in Slot
    BY <1>3 DEF TableInv, TableTypeOK
  <2> QED
    BY <2>1, <2>2 DEF IsUsed, Slot
<1>7. TableTypeOK'
  <2>1. panicked' \in BOOLEAN
    BY <1>4, Zenon DEF TableInv, TableTypeOK
  <2>2. /\ table' \in [Slots -> Slot]
        /\ free' \in Pid \cup {None}
        /\ process_count' \in 0 .. SlotCount
    BY <1>0, <1>2, <1>3, <1>4, <1>5, <1>6 DEF TableInv, TableTypeOK
  <2> QED
    BY <2>1, <2>2 DEF TableTypeOK
<1>8. SlotPids'
  BY <1>3, <1>4 DEF TableInv, TableTypeOK, SlotPids, UsedSlot
<1>9. FreeListIntact'
  <2> DEFINE rest == [i \in 1 .. n - 1 |-> stack[i]]
  <2>1. SlotCount - process_count' = n - 1
    BY <1>0, <1>2, <1>4 DEF TableInv, TableTypeOK
  <2>2. rest \in [1 .. n - 1 -> Slots]
    BY <1>2
  <2>3. \A i, j \in 1 .. n - 1 : rest[i] = rest[j] => i = j
    BY <1>1, <1>2 DEF FreeStack
  <2>4. \A i \in 1 .. n - 1 : rest[i] \in Slots /\ rest[i] # top
    BY <1>1, <1>2, <2>2 DEF FreeStack
  <2>5. \A s \in Slots : s # top => table'[s] = table[s]
    BY <1>4 DEF TableInv, TableTypeOK
  <2>6. \A s \in Slots : ~IsUsed(s)' <=> \E i \in 1 .. n - 1 : rest[i] = s
    <3> SUFFICES ASSUME NEW s \in Slots
                 PROVE  ~IsUsed(s)' <=> \E i \in 1 .. n - 1 : rest[i] = s
      OBVIOUS
    <3>1. CASE s = top
      <4>1. IsUsed(s)'
        BY <1>3, <1>4, <3>1 DEF IsUsed, UsedSlot, TableInv, TableTypeOK
      <4> QED
        BY <2>4, <3>1, <4>1
    <3>2. CASE s # top
      <4>1. IsUsed(s)' <=> IsUsed(s)
        BY <2>5, <3>2 DEF IsUsed
      <4>2. ~IsUsed(s) <=> \E i \in 1 .. n : stack[i] = s
        BY <1>1 DEF FreeStack
      <4> QED
        BY <1>2, <3>2, <4>1, <4>2
    <3> QED
      BY <3>1, <3>2
  <2>7. free' = IF n - 1 = 0 THEN None ELSE table'[rest[n - 1]].pid
    BY <1>1, <1>2, <1>4, <2>4, <2>5 DEF FreeStack
  <2>8. \A i \in 1 .. n - 1 :
           table'[rest[i]].next = IF i = 1 THEN None ELSE table'[rest[i - 1]].pid
    BY <1>1, <1>2, <2>4, <2>5 DEF FreeStack
  <2>9. FreeStack(rest, n - 1)'
    BY <2>3, <2>6, <2>7, <2>8, <2>1, <1>2 DEF FreeStack
  <2> QED
    BY <2>1, <2>2, <2>9 DEF FreeListIntact
<1> QED
  BY <1>7, <1>8, <1>9 DEF TableInv

\* Table::free() pushes the slot onto the stack of free slots.
LEMMA FreePreservesInv ==
  ASSUME TableInv, NEW freed \in Pid, Free(freed)
  PROVE  TableInv'
<1> USE SlotCountAssumption, MaxEpochAssumption, NoneAssumption
<1>0. PICK n \in Int : n = SlotCount - process_count
  BY DEF TableInv, TableTypeOK
<1> DEFINE s0 == freed.slot
           next == NextEpoch(freed)
<1>1. PICK stack \in [1 .. n -> Slots] : FreeStack(stack, n)
  BY <1>0 DEF TableInv, FreeListIntact
<1>2. s0 \in Slots /\ IsUsed(s0)
  BY DEF Free, Found, Pid
<1>3. process_count > 0 /\ n \in Nat
  BY <1>0, <1>1, <1>2, CountIsPositive DEF TableInv, TableTypeOK
<1>4. next \in Pid /\ next.slot = s0
  BY DEF Free, NextEpoch, Pid
<1>5. /\ table' = [table EXCEPT ![s0] = FreeSlot(next, free)]
      /\ free' = next
      /\ process_count' = process_count - 1
      /\ panicked' = panicked
  BY DEF Free
<1>6. FreeSlot(next, free) \in Slot
  BY <1>4 DEF FreeSlot, Slot, TableInv, TableTypeOK
<1>7. TableTypeOK'
  <2>1. panicked' \in BOOLEAN
    BY <1>5, Zenon DEF TableInv, TableTypeOK
  <2>2. table' \in [Slots -> Slot]
    BY <1>2, <1>5, <1>6 DEF TableInv, TableTypeOK
  <2>3. free' \in Pid \cup {None}
    BY <1>4, <1>5
  <2>4. process_count' \in 0 .. SlotCount
    BY <1>3, <1>5 DEF TableInv, TableTypeOK
  <2> QED
    BY <2>1, <2>2, <2>3, <2>4 DEF TableTypeOK
<1>8. SlotPids'
  BY <1>4, <1>5 DEF TableInv, TableTypeOK, SlotPids, FreeSlot
<1>9. FreeListIntact'
  <2> DEFINE longer == [i \in 1 .. n + 1 |-> IF i = n + 1 THEN s0 ELSE stack[i]]
  <2>1. SlotCount - process_count' = n + 1
    BY <1>0, <1>3, <1>5 DEF TableInv, TableTypeOK
  <2>2. longer \in [1 .. n + 1 -> Slots]
    BY <1>2, <1>3
  <2>3. \A i \in 1 .. n : stack[i] \in Slots /\ stack[i] # s0 /\ longer[i] = stack[i]
    BY <1>1, <1>2, <1>3 DEF FreeStack
  <2>4. longer[n + 1] = s0
    BY <1>3
  <2>5. \A i, j \in 1 .. n + 1 : longer[i] = longer[j] => i = j
    <3>1. \A i, j \in 1 .. n : stack[i] = stack[j] => i = j
      BY <1>1 DEF FreeStack
    <3>2. \A i \in 1 .. n + 1 : i \in 1 .. n \/ i = n + 1
      BY <1>3
    <3> HIDE DEF longer
    <3> QED
      BY <2>3, <2>4, <3>1, <3>2
  <2>6. \A s \in Slots : s # s0 => table'[s] = table[s]
    BY <1>5 DEF TableInv, TableTypeOK
  <2>7. table'[s0] = FreeSlot(next, free)
    BY <1>2, <1>5 DEF TableInv, TableTypeOK
  <2>8. \A s \in Slots : ~IsUsed(s)' <=> \E i \in 1 .. n + 1 : longer[i] = s
    <3> SUFFICES ASSUME NEW s \in Slots
                 PROVE  ~IsUsed(s)' <=> \E i \in 1 .. n + 1 : longer[i] = s
      OBVIOUS
    <3>1. CASE s = s0
      <4>1. ~IsUsed(s)'
        BY <2>7, <3>1 DEF IsUsed, FreeSlot
      <4>2. n + 1 \in 1 .. n + 1
        BY <1>3
      <4> HIDE DEF longer
      <4> QED
        BY <2>4, <3>1, <4>1, <4>2
    <3>2. CASE s # s0
      <4>1. IsUsed(s)' <=> IsUsed(s)
        BY <2>6, <3>2 DEF IsUsed
      <4>2. ~IsUsed(s) <=> \E i \in 1 .. n : stack[i] = s
        BY <1>1 DEF FreeStack
      <4>3. \A i \in 1 .. n + 1 : i \in 1 .. n \/ i = n + 1
        BY <1>3
      <4>4. \A i \in 1 .. n : i \in 1 .. n + 1
        BY <1>3
      <4> HIDE DEF longer
      <4> QED
        BY <2>3, <2>4, <3>2, <4>1, <4>2, <4>3, <4>4
    <3> QED
      BY <3>1, <3>2
  <2>9. free' = IF n + 1 = 0 THEN None ELSE table'[longer[n + 1]].pid
    BY <1>3, <1>5, <2>4, <2>7 DEF FreeSlot
  <2>10. \A i \in 1 .. n + 1 :
            table'[longer[i]].next = IF i = 1 THEN None ELSE table'[longer[i - 1]].pid
    <3> SUFFICES ASSUME NEW i \in 1 .. n + 1
                 PROVE  table'[longer[i]].next
                           = IF i = 1 THEN None ELSE table'[longer[i - 1]].pid
      OBVIOUS
    <3>1. CASE i = n + 1
      <4>1. table'[longer[i]].next = free
        BY <2>4, <2>7, <3>1 DEF FreeSlot
      <4>2. free = IF n = 0 THEN None ELSE table[stack[n]].pid
        BY <1>1 DEF FreeStack
      <4>3. n # 0 => n \in 1 .. n
        BY <1>3
      <4> HIDE DEF longer
      <4> QED
        BY <1>3, <2>3, <2>6, <3>1, <4>1, <4>2, <4>3
    <3>2. CASE i # n + 1
      <4>1. i \in 1 .. n /\ (i # 1 => i - 1 \in 1 .. n)
        BY <1>3, <3>2
      <4> HIDE DEF longer
      <4> QED
        BY <1>1, <2>3, <2>6, <4>1 DEF FreeStack
    <3> QED
      BY <3>1, <3>2
  <2>11. FreeStack(longer, n + 1)'
    BY <2>5, <2>8, <2>9, <2>10 DEF FreeStack
  <2> QED
    BY <2>1, <2>2, <2>11 DEF FreeListIntact
<1> QED
  BY <1>7, <1>8, <1>9 DEF TableInv

\* The free list is intact as long as nobody touches the table.
LEMMA SameTableSameList ==
  ASSUME FreeListIntact, UNCHANGED <<free, process_count, table>>
  PROVE  FreeListIntact'
<1>1. PICK stack \in [1 .. SlotCount - process_count -> Slots] :
         FreeStack(stack, SlotCount - process_count)
  BY DEF FreeListIntact
<1>2. SlotCount - process_count' = SlotCount - process_count
  OBVIOUS
<1>3. FreeStack(stack, SlotCount - process_count)'
  BY <1>1 DEF FreeStack, IsUsed
<1> QED
  BY <1>1, <1>2, <1>3, Zenon DEF FreeListIntact

\* Every step of the table preserves the invariant.
LEMMA StepPreservesInv == TableInv /\ [TableNext]_tableVars => TableInv'
<1> SUFFICES ASSUME TableInv, [TableNext]_tableVars PROVE TableInv'
  OBVIOUS
<1>1. CASE Allocate
  BY <1>1, AllocatePreservesInv
<1>2. ASSUME NEW freed \in Pid, Free(freed) PROVE TableInv'
  BY <1>2, FreePreservesInv
<1>3. ASSUME NEW freed \in Pid, EpochOverflow(freed) PROVE TableInv'
  <2>1. UNCHANGED <<free, process_count, table>> /\ panicked' \in BOOLEAN
    BY <1>3, Zenon DEF EpochOverflow
  <2>2. TableTypeOK' /\ SlotPids'
    BY <2>1 DEF TableInv, TableTypeOK, SlotPids
  <2>3. FreeListIntact'
    BY <2>1, SameTableSameList DEF TableInv
  <2> QED
    BY <2>2, <2>3 DEF TableInv
<1>4. CASE UNCHANGED tableVars
  <2>1. TableTypeOK' /\ SlotPids'
    BY <1>4 DEF tableVars, TableInv, TableTypeOK, SlotPids
  <2>2. FreeListIntact'
    BY <1>4, SameTableSameList DEF tableVars, TableInv
  <2> QED
    BY <2>1, <2>2 DEF TableInv
<1> QED
  BY <1>1, <1>2, <1>3, <1>4 DEF TableNext

\* The process table always satisfies its inductive invariant.
THEOREM TableInvariance == TableSpec => []TableInv
  BY InitEstablishesInv, StepPreservesInv, PTL DEF TableSpec

\* The types of struct Table and enum Slot are preserved by every operation.
THEOREM TableTypeCorrect == TableSpec => []TableTypeOK
<1>1. TableInv => TableTypeOK
  BY DEF TableInv
<1> QED
  BY <1>1, TableInvariance, PTL

\* The free list of the process table is never damaged, for any table size.
THEOREM FreeListAlwaysIntact == TableSpec => []FreeListIntact
<1>1. TableInv => FreeListIntact
  BY DEF TableInv
<1> QED
  BY <1>1, TableInvariance, PTL

\* Table::allocate() refuses only when every slot is used.
THEOREM RefusalIsHonest == TableSpec => []RefusesOnlyWhenFull
<1>1. TableInv => RefusesOnlyWhenFull
  <2> SUFFICES ASSUME TableInv, ~CanAllocate, NEW s \in Slots, ~IsUsed(s) PROVE FALSE
    BY DEF RefusesOnlyWhenFull
  <2> USE SlotCountAssumption, MaxEpochAssumption, NoneAssumption
  <2> DEFINE n == SlotCount - process_count
  <2>1. PICK stack \in [1 .. n -> Slots] : FreeStack(stack, n)
    BY DEF TableInv, FreeListIntact
  <2>2. n \in Nat /\ n > 0
    BY <2>1 DEF FreeStack, TableInv, TableTypeOK
  <2>3. stack[n] \in Slots /\ ~IsUsed(stack[n]) /\ free = table[stack[n]].pid
    BY <2>1, <2>2 DEF FreeStack
  <2>4. free \in Pid /\ free.slot = stack[n]
    BY <2>3 DEF TableInv, TableTypeOK, SlotPids, Slot
  <2> QED
    BY <2>3, <2>4 DEF CanAllocate
<1> QED
  BY <1>1, TableInvariance, PTL

\* The live and retired pids of the table, when only panicked changes.
LEMMA SameTableSameIds ==
  ASSUME table' = table
  PROVE  LiveIds' = LiveIds /\ RetiredIds' = RetiredIds
  BY DEF LiveIds, RetiredIds, IsUsed

\* Table::allocate() issues the pid at the head of the free list: it is not
\* live, because its slot is free, and not spent, because it carries the
\* current epoch of the slot.
LEMMA AllocateIssues ==
  ASSUME TableInv, Allocate
  PROVE  free \in Pid /\ Registry!Issue(free)
<1> USE SlotCountAssumption, MaxEpochAssumption, NoneAssumption
<1> DEFINE s0 == free.slot
<1>1. PICK stack \in [1 .. SlotCount - process_count -> Slots] :
         FreeStack(stack, SlotCount - process_count)
  BY DEF TableInv, FreeListIntact
<1>2. free \in Pid /\ s0 \in Slots /\ ~IsUsed(s0)
  BY DEF TableInv, TableTypeOK, Allocate, CanAllocate, Pid
<1>3. table[s0].pid = free
  <2>1. free # None
    BY DEF Allocate, CanAllocate
  <2>2. SlotCount - process_count \in Nat
    BY DEF TableInv, TableTypeOK
  <2>3. PICK s \in Slots : free = table[s].pid
    BY <1>1, <2>1, <2>2 DEF FreeStack
  <2>4. s = s0
    BY <2>3 DEF TableInv, SlotPids
  <2> QED
    BY <2>3, <2>4
<1>4. table' = [table EXCEPT ![s0] = UsedSlot(free)]
  BY DEF Allocate
<1>5. \A s \in Slots : s # s0 => table'[s] = table[s]
  BY <1>4 DEF TableInv, TableTypeOK
<1>6. table'[s0] = [kind |-> "Used", pid |-> free]
  BY <1>2, <1>4 DEF TableInv, TableTypeOK, UsedSlot
<1>7. free \notin LiveIds
  BY <1>2 DEF LiveIds, TableInv, SlotPids
<1>8. free \notin RetiredIds
  BY <1>2, <1>3 DEF RetiredIds, Pid
<1>9. LiveIds' = LiveIds \cup {free}
  <2>1. ASSUME NEW id \in LiveIds' PROVE id \in LiveIds \cup {free}
    <3>1. PICK s \in Slots : IsUsed(s)' /\ id = table'[s].pid
      BY <2>1 DEF LiveIds
    <3>2. CASE s = s0
      BY <1>6, <3>1, <3>2
    <3>3. CASE s # s0
      BY <1>5, <3>1, <3>3 DEF LiveIds, IsUsed
    <3> QED
      BY <3>2, <3>3
  <2>2. ASSUME NEW id \in LiveIds PROVE id \in LiveIds'
    <3>1. PICK s \in Slots : IsUsed(s) /\ id = table[s].pid
      BY <2>2 DEF LiveIds
    <3>2. s # s0
      BY <1>2, <3>1
    <3> QED
      BY <1>5, <3>1, <3>2 DEF LiveIds, IsUsed
  <2>3. free \in LiveIds'
    BY <1>2, <1>6 DEF LiveIds, IsUsed
  <2> QED
    BY <2>1, <2>2, <2>3
<1>10. RetiredIds' = RetiredIds
  <2>1. \A s \in Slots : table'[s].pid = table[s].pid
    BY <1>3, <1>5, <1>6
  <2>2. \A id \in Pid : id.slot \in Slots
    BY DEF Pid
  <2> QED
    BY <2>1, <2>2 DEF RetiredIds
<1> QED
  BY <1>2, <1>7, <1>8, <1>9, <1>10 DEF Registry!Issue

\* Table::free() retires the pid: its slot moves on to the next epoch.
LEMMA FreeRetires ==
  ASSUME TableInv, NEW freed \in Pid, Free(freed)
  PROVE  Registry!Retire(freed)
<1> USE SlotCountAssumption, MaxEpochAssumption, NoneAssumption
<1> DEFINE s0 == freed.slot
           next == NextEpoch(freed)
<1>1. s0 \in Slots /\ IsUsed(s0) /\ table[s0].pid = freed /\ freed.epoch \in 0 .. MaxEpoch
  BY DEF Free, Found, Pid
<1>2. next.slot = s0 /\ next.epoch = freed.epoch + 1
  BY DEF NextEpoch, Pid
<1>3. table' = [table EXCEPT ![s0] = FreeSlot(next, free)]
  BY DEF Free
<1>4. \A s \in Slots : s # s0 => table'[s] = table[s]
  BY <1>3 DEF TableInv, TableTypeOK
<1>5. table'[s0].kind = "Free" /\ table'[s0].pid = next
  BY <1>1, <1>3 DEF TableInv, TableTypeOK, FreeSlot
<1>6. freed \in LiveIds
  BY <1>1 DEF LiveIds
<1>7. LiveIds' = LiveIds \ {freed}
  <2>1. ASSUME NEW id \in LiveIds' PROVE id \in LiveIds \ {freed}
    <3>1. PICK s \in Slots : IsUsed(s)' /\ id = table'[s].pid
      BY <2>1 DEF LiveIds
    <3>2. s # s0
      BY <1>5, <3>1 DEF IsUsed
    <3>3. IsUsed(s) /\ id = table[s].pid
      BY <1>4, <3>1, <3>2 DEF IsUsed
    <3>4. id.slot = s
      BY <3>3 DEF TableInv, SlotPids
    <3> QED
      BY <3>2, <3>3, <3>4 DEF LiveIds
  <2>2. ASSUME NEW id \in LiveIds \ {freed} PROVE id \in LiveIds'
    <3>1. PICK s \in Slots : IsUsed(s) /\ id = table[s].pid
      BY <2>2 DEF LiveIds
    <3>2. s # s0
      BY <1>1, <2>2, <3>1
    <3> QED
      BY <1>4, <3>1, <3>2 DEF LiveIds, IsUsed
  <2> QED
    BY <2>1, <2>2
<1>8. RetiredIds' = RetiredIds \cup {freed}
  <2> HIDE DEF next
  <2>1. ASSUME NEW id \in Pid
        PROVE  id.epoch < table'[id.slot].pid.epoch
                 <=> id.epoch < table[id.slot].pid.epoch \/ id = freed
    <3>1. id.slot \in Slots /\ id.epoch \in 0 .. MaxEpoch
      BY DEF Pid
    <3>2. CASE id.slot # s0
      BY <1>4, <3>1, <3>2
    <3>3. CASE id.slot = s0
      <4>1. id = freed <=> id.epoch = freed.epoch
        BY <3>3 DEF Pid
      <4>2. id.epoch < freed.epoch + 1 <=> id.epoch < freed.epoch \/ id.epoch = freed.epoch
        BY <1>1, <3>1
      <4> QED
        BY <1>1, <1>2, <1>5, <3>3, <4>1, <4>2
    <3> QED
      BY <3>2, <3>3
  <2> QED
    BY <2>1 DEF RetiredIds
<1> QED
  BY <1>6, <1>7, <1>8 DEF Registry!Retire

\* The table starts with nothing live and nothing spent.
LEMMA InitIsRegistryInit == TableInit => Registry!RegistryInit
<1> SUFFICES ASSUME TableInit PROVE Registry!RegistryInit
  OBVIOUS
<1>1. LiveIds = {}
  BY DEF LiveIds, IsUsed, TableInit, FreeSlot
<1>2. RetiredIds = {}
  <2> SUFFICES ASSUME NEW id \in Pid PROVE ~(id.epoch < table[id.slot].pid.epoch)
    BY DEF RetiredIds
  <2>1. id.slot \in Slots /\ id.epoch \in 0 .. MaxEpoch
    BY DEF Pid
  <2>2. table[id.slot].pid.epoch = 0
    BY <2>1 DEF TableInit, FreeSlot, NewPid
  <2> QED
    BY <2>1, <2>2, MaxEpochAssumption
<1> QED
  BY <1>1, <1>2 DEF Registry!RegistryInit

\* Every step of the table is a step of the registry of pids, or none.
LEMMA StepIsRegistryStep ==
  TableInv /\ [TableNext]_tableVars => [Registry!RegistryNext]_(Registry!registryVars)
<1> SUFFICES ASSUME TableInv, [TableNext]_tableVars
             PROVE  [Registry!RegistryNext]_(Registry!registryVars)
  OBVIOUS
<1>1. CASE Allocate
  BY <1>1, AllocateIssues DEF Registry!RegistryNext
<1>2. ASSUME NEW freed \in Pid, Free(freed)
      PROVE  [Registry!RegistryNext]_(Registry!registryVars)
  BY <1>2, FreeRetires DEF Registry!RegistryNext
<1>3. ASSUME table' = table
      PROVE  [Registry!RegistryNext]_(Registry!registryVars)
  BY <1>3, SameTableSameIds DEF Registry!registryVars
<1> QED
  BY <1>1, <1>2, <1>3 DEF TableNext, EpochOverflow, tableVars

\* A pid is unique for the whole uptime, for every table size and any number
\* of epochs: Table::allocate() and Table::free() implement the registry of
\* identifiers, in which an identifier is issued at most once.
THEOREM PidsAreNeverReused == TableSpec => ImplementsRegistry
  BY InitIsRegistryInit, StepIsRegistryStep, TableInvariance, PTL
  DEF TableSpec, ImplementsRegistry, Registry!RegistrySpec

\* All that the process table promises about its own state, for every size of it.
THEOREM TableAlwaysSound == TableSpec => []TableIsSound
<1>1. TableTypeOK /\ FreeListIntact /\ RefusesOnlyWhenFull => TableIsSound
  BY DEF TableIsSound
<1> QED
  BY <1>1, TableTypeCorrect, FreeListAlwaysIntact, RefusalIsHonest, PTL
-----------------------------------------------------------------------------
\* The CPU is at a point where the code uses the pid it has.
HasPid(c) ==
    \/ pc[c] \in {"get", "get_process", "enter_user_mode", "user", "save_context",
                  "enqueue", "handler", "panic_in_enclosing", "yield", "free",
                  "free_process"}
    \/ pc[c] = "left_user_mode" /\ user_context[c] # None

\* The CPU is in user mode, or in the kernel because the user program called it.
OnUserBehalf(c) ==
    \/ pc[c] \in {"user", "handler"}
    \/ pc[c] \in {"get", "get_process"} /\ op[c] \in AllUserOps

\* What the local state of a CPU says at each point of the code.
ControlFlow ==
    \A c \in Cpus :
        /\ HasPid(c) => pid[c] \in Pid
        /\ OnUserBehalf(c) => current_process[c] = pid[c]
        /\ pc[c] \in {"get", "get_process"} => op[c] \in {"run_one", "preempted"} \cup UserOps
        /\ pc[c] = "handler" => op[c] \in UserOps
        /\ pc[c] \in {"free", "free_process"} => op[c] \in {"exit", "fault", "kernel_free"}
        /\ pc[c] = "left_user_mode" /\ rsp[c] # "saved" =>
              user_context[c] = None /\ op[c] = "fault"

\* The inductive invariant of control: types, the flow above, and the locks.
ControlInv ==
    /\ SchedulingTypeOK /\ TableInv
    /\ ControlFlow /\ LocksProtect /\ ContextIsFresh

\* A pid is queued or held at most once, whether its process lives or not.
TokensAreUnique ==
    \A p \in Pid :
        /\ \A c, d \in Cpus : Holds(c, p) /\ Holds(d, p) => c = d
        /\ \A c \in Cpus : Holds(c, p) => ~InQueue(p)
        /\ \A i, j \in 1 .. Len(queue) : queue[i] = p /\ queue[j] = p => i = j

\* Only pids that the table has issued are queued or held.
TokensAreIssued ==
    \A p \in Pid :
        InQueue(p) \/ (\E c \in Cpus : Holds(c, p)) => p \in LiveIds \cup RetiredIds

TokenInv == TokensAreUnique /\ TokensAreIssued /\ NoProcessIsLost

(***************************************************************************)
(* The four things that a step of a CPU can do with tokens: none moves,    *)
(* except that tokens of dead processes may be dropped; the CPU takes one  *)
(* from the queue, puts one into it, or gets that of a new process.        *)
(***************************************************************************)
HoldsNothing(c) == \A p \in Pid : ~Holds(c, p)
OthersHoldTheSame(c) == \A d \in Cpus \ {c}, p \in Pid : Holds(d, p)' <=> Holds(d, p)

OnlyDeadTokensDropped ==
    /\ queue' = queue
    /\ LiveIds' \subseteq LiveIds
    /\ (LiveIds \cup RetiredIds)' = LiveIds \cup RetiredIds
    /\ \A d \in Cpus, p \in Pid : Holds(d, p)' => Holds(d, p)
    /\ \A d \in Cpus, p \in LiveIds' : Holds(d, p) => Holds(d, p)'

TakesToken(c) ==
    /\ queue # <<>> /\ queue' = Tail(queue)
    /\ HoldsNothing(c)
    /\ \A p \in Pid : Holds(c, p)' <=> p = Head(queue)
    /\ OthersHoldTheSame(c)
    /\ table' = table

PutsToken(c) ==
    /\ pid[c] \in Pid /\ Holds(c, pid[c])
    /\ queue' = Append(queue, pid[c])
    /\ HoldsNothing(c)'
    /\ OthersHoldTheSame(c)
    /\ table' = table

GetsNewToken(c) ==
    /\ queue' = queue
    /\ HoldsNothing(c)
    /\ Registry!Issue(free) /\ free \in Pid
    /\ \A p \in Pid : Holds(c, p)' <=> p = free
    /\ OthersHoldTheSame(c)

\* As long as only their own programs end processes, tokens are of live ones.
TokensAreLive ==
    \A p \in Pid : InQueue(p) \/ (\E c \in Cpus : Holds(c, p)) => p \in LiveIds

\* Locks are owned only where the code is inside of what they protect, or by an
\* unknown call that has leaked the lock of the process it was called by.
MayOwnProcess(c) ==
    \/ pc[c] \in {"enter_user_mode", "save_context", "handler", "yield",
                  "panic_in_enclosing"}
    \/ /\ "unknown" \in UserOps
       /\ \/ pc[c] = "user" /\ op[c] = "unknown"
          \/ pc[c] \in {"get", "get_process"}
          \/ pc[c] = "left_user_mode" /\ user_context[c] # None

LocksAreAccounted ==
    \A c \in Cpus :
        /\ table_lock = c => pc[c] \in {"get_process", "free_process"}
        /\ base_lock = c => pc[c] = "create"
        /\ \A s \in Slots : process_lock[s] = c => MayOwnProcess(c) /\ s = SlotOf(c)

\* The CPU executes on the page tables of its process, which is Running.
UserIsLoaded ==
    \A c \in Cpus : OnUserBehalf(c) =>
        page_table_root[c] = pid[c] /\ state[SlotOf(c)] = "Running"

NeverKernelFree == \A c \in Cpus : op[c] # "kernel_free"

UserInv ==
    TokensAreLive /\ LocksAreAccounted /\ UserIsLoaded /\ NeverKernelFree /\ NoPanic

\* One step of one CPU: the body of Next.
CpuStep(c) ==
    \/ KernelStep(c)
    \/ TimerTick(c)
    \/ \E o \in UserOps : EnterKernel(c, o)
    \/ CreateDuplicatesBase(c) \/ KernelFree(c)
-----------------------------------------------------------------------------
\* Table::get() and Table::free() find exactly the live processes.
LEMMA FoundIsLive ==
  ASSUME TableInv, NEW p \in Pid
  PROVE  Found(p) <=> p \in LiveIds
  BY SlotCountAssumption DEF Found, LiveIds, Slots, Pid, TableInv, SlotPids

\* The pids that the table has ever issued are pids.
LEMMA IdsArePids ==
  ASSUME TableInv
  PROVE  LiveIds \subseteq Pid /\ RetiredIds \subseteq Pid
  BY DEF TableInv, TableTypeOK, LiveIds, RetiredIds, Slot

\* The head of the free list, when there is one.
LEMMA HeadIsFree ==
  ASSUME TableInv, CanAllocate
  PROVE  free \in Pid /\ free.slot \in Slots /\ ~IsUsed(free.slot)
  BY DEF TableInv, TableTypeOK, CanAllocate, Pid

\* What a CPU does to the table is one operation of the table, or nothing.
LEMMA StepIsTableStep ==
  ASSUME ControlInv, NEW c \in Cpus, CpuStep(c)
  PROVE  \/ UNCHANGED tableVars
         \/ At(c, "allocate") /\ Allocate
         \/ At(c, "free_process") /\ pid[c] \in Pid /\ Free(pid[c])
<1>1. CASE CreateAllocates(c)
  BY <1>1 DEF CreateAllocates
<1>2. CASE FreeProcess(c)
  BY <1>2 DEF FreeProcess, ControlInv, ControlFlow, HasPid, At
<1>3. ASSUME ~CreateAllocates(c), ~FreeProcess(c) PROVE UNCHANGED tableVars
  BY <1>3 DEF CpuStep, KernelStep, TimerTick, Dequeue, NothingToDo, GetLocksTable,
     GetFindsProcess, GetFindsNothing, EnterUserMode, LeaveUserMode,
     StackAssertionFails, SaveContext, EnqueueProcess, Return, LogValuePanics,
         ReturnUnknown, Exit,
     YieldEnqueues, YieldLeaves, FatalTrap, FreeLocksTable, FreeFindsNothing,
     CreateInitializes, CreateReturnsToBase, CreateRefused, WakeUp, Preempt,
     EnterKernel, CreateDuplicatesBase, KernelFree
<1> QED
  BY <1>1, <1>2, <1>3

\* The scheduler keeps the inductive invariant of the process table.
LEMMA StepPreservesTable ==
  ASSUME ControlInv, NEW c \in Cpus, CpuStep(c)
  PROVE  TableInv'
  BY StepIsTableStep, StepPreservesInv DEF TableNext, ControlInv

\* A process that a CPU has found and locked stays in its slot: whoever wants
\* to destroy it has to lock it first.
LEMMA LockedStaysFound ==
  ASSUME ControlInv, NEW c \in Cpus, CpuStep(c),
         NEW p \in Pid, Found(p),
         process_lock[p.slot] # None \/ ~At(c, "free_process")
  PROVE  Found(p)'
<1> USE SlotCountAssumption
<1>0. p.slot \in Slots /\ table \in [Slots -> Slot]
  BY DEF Pid, ControlInv, TableInv, TableTypeOK
<1>1. CASE UNCHANGED tableVars
  BY <1>1 DEF tableVars, Found, IsUsed
<1>2. CASE At(c, "allocate") /\ Allocate
  <2>1. p.slot # free.slot
    BY <1>2, HeadIsFree DEF Allocate, Found, ControlInv
  <2> QED
    BY <1>0, <1>2, <2>1 DEF Allocate, Found, IsUsed
<1>3. CASE At(c, "free_process") /\ pid[c] \in Pid /\ Free(pid[c])
  <2>1. SlotIsUnlocked(c)
    BY <1>3 DEF CpuStep, KernelStep, TimerTick, Dequeue, NothingToDo, GetLocksTable,
       GetFindsProcess, GetFindsNothing, EnterUserMode, LeaveUserMode,
       StackAssertionFails, SaveContext, EnqueueProcess, Return, LogValuePanics,
         ReturnUnknown, Exit,
       YieldEnqueues, YieldLeaves, FatalTrap, FreeLocksTable, FreeFindsNothing,
       FreeProcess, CreateInitializes, CreateReturnsToBase, CreateAllocates, CreateRefused,
       WakeUp, Preempt, EnterKernel, CreateDuplicatesBase, KernelFree, At, Handles
  <2>2. p.slot # pid[c].slot
    BY <1>3, <2>1 DEF SlotIsUnlocked, SlotOf, Free, Found
  <2> QED
    BY <1>0, <1>3, <2>2 DEF Free, Found, IsUsed
<1> QED
  BY <1>1, <1>2, <1>3, StepIsTableStep

\* Every step keeps the types.
LEMMA TypesPreserved ==
  ASSUME ControlInv, TableInv', NEW c \in Cpus, CpuStep(c)
  PROVE  SchedulingTypeOK'
<1> USE CpuAssumption, RootAssumption, NoneAssumption, OpsAssumption
    DEF At, Goto, Handles, tableVars, lockVars, localVars, SlotOf, UnlockProcess
<1> USE DEF SchedulingTypeOK, Owner, OptionPid, Locations, Calls, AllUserOps
<1> HIDE DEF TableTypeOK
<1>0. SchedulingTypeOK /\ TableTypeOK'
  BY DEF TableInv, ControlInv
<1>a. HasPid(c) => pid[c] \in Pid /\ SlotOf(c) \in Slots
  BY DEF ControlInv, ControlFlow, Pid
<1>1. CASE Dequeue(c)
  BY <1>0, <1>1 DEF Dequeue
<1>2. CASE NothingToDo(c)
  BY <1>0, <1>2 DEF NothingToDo
<1>3. CASE GetLocksTable(c)
  BY <1>0, <1>3 DEF GetLocksTable
<1>4. CASE GetFindsProcess(c)
  BY <1>0, <1>4 DEF GetFindsProcess
<1>5. CASE GetFindsNothing(c)
  BY <1>0, <1>5 DEF GetFindsNothing
<1>6. CASE EnterUserMode(c)
  BY <1>0, <1>a, <1>6 DEF EnterUserMode, HasPid
<1>7. CASE LeaveUserMode(c)
  <2>1. "preempted" \in Calls /\ "get" \in Locations /\ "run_one" \in Locations
    OBVIOUS
  <2>2. /\ op' = op \/ op' = [op EXCEPT ![c] = "preempted"]
        /\ \E l \in {"get", "run_one"} : pc' = [pc EXCEPT ![c] = l]
    BY <1>7, Zenon DEF LeaveUserMode
  <2>3. op \in [Cpus -> Calls] /\ pc \in [Cpus -> Locations]
    BY <1>0
  <2>4. op' \in [Cpus -> Calls] /\ pc' \in [Cpus -> Locations]
    <3> HIDE DEF Calls, Locations, SchedulingTypeOK
    <3> QED BY <2>1, <2>2, <2>3
  <2>5. current_process' \in [Cpus -> OptionPid] /\ user_context' \in [Cpus -> OptionPid]
    BY <1>0, <1>7 DEF LeaveUserMode
  <2>6. UNCHANGED <<queue, table_lock, base_lock, process_lock, state, pid, page_table_root, rsp>>
    BY <1>7 DEF LeaveUserMode
  <2> QED BY <1>0, <2>5, <2>6, <2>4
<1>8. CASE StackAssertionFails(c)
  BY <1>0, <1>8 DEF StackAssertionFails
<1>9. CASE SaveContext(c)
  BY <1>0, <1>9 DEF SaveContext
<1>10. CASE EnqueueProcess(c)
  BY <1>0, <1>a, <1>10 DEF EnqueueProcess, Enqueue, HasPid
<1>11. CASE Return(c)
  BY <1>0, <1>11 DEF Return
<1>12. CASE ReturnUnknown(c)
  BY <1>0, <1>12 DEF ReturnUnknown
<1>30. CASE LogValuePanics(c)
  BY <1>0, <1>30 DEF LogValuePanics
<1>13. CASE Exit(c)
  BY <1>0, <1>13 DEF Exit
<1>14. CASE YieldEnqueues(c)
  BY <1>0, <1>a, <1>14 DEF YieldEnqueues, Enqueue, HasPid
<1>15. CASE YieldLeaves(c)
  BY <1>0, <1>15 DEF YieldLeaves
<1>16. CASE FatalTrap(c)
  BY <1>0, <1>16 DEF FatalTrap
<1>17. CASE FreeLocksTable(c)
  BY <1>0, <1>17 DEF FreeLocksTable
<1>18. CASE FreeProcess(c)
  BY <1>0, <1>18 DEF FreeProcess, DropAddressSpace, AfterFree
<1>19. CASE FreeFindsNothing(c)
  BY <1>0, <1>19 DEF FreeFindsNothing, AfterFree
<1>20. CASE CreateInitializes(c)
  BY <1>0, <1>20 DEF CreateInitializes
<1>21. CASE CreateReturnsToBase(c)
  BY <1>0, <1>21 DEF CreateReturnsToBase
<1>22. CASE CreateAllocates(c)
  <2>1. free \in Pid /\ free.slot \in Slots
    BY <1>22, HeadIsFree DEF CreateAllocates, Allocate, ControlInv
  <2> QED
    BY <1>0, <1>22, <2>1 DEF CreateAllocates
<1>23. CASE CreateRefused(c)
  BY <1>0, <1>23 DEF CreateRefused
<1>24. CASE WakeUp(c)
  BY <1>0, <1>24 DEF WakeUp
<1>25. CASE Preempt(c)
  BY <1>0, <1>25 DEF Preempt
<1>26. ASSUME NEW o \in UserOps, EnterKernel(c, o) PROVE SchedulingTypeOK'
  BY <1>0, <1>26 DEF EnterKernel
<1>27. CASE CreateDuplicatesBase(c)
  BY <1>0, <1>27 DEF CreateDuplicatesBase
<1>28. CASE KernelFree(c)
  <2>1. PICK p \in LiveIds \cup RetiredIds : pid' = [pid EXCEPT ![c] = p]
    BY <1>28 DEF KernelFree
  <2>2. p \in Pid
    BY IdsArePids DEF ControlInv
  <2> QED
    BY <1>0, <1>28, <2>1, <2>2 DEF KernelFree
<1> QED
  BY <1>1, <1>2, <1>3, <1>4, <1>5, <1>6, <1>7, <1>8, <1>9, <1>10, <1>11,
     <1>12, <1>30, <1>13, <1>14, <1>15, <1>16, <1>17, <1>18, <1>19, <1>20,
     <1>21, <1>22, <1>23, <1>24, <1>25, <1>26, <1>27, <1>28
  DEF CpuStep, KernelStep, TimerTick

\* Every step leads the CPU along the control flow.
LEMMA FlowPreserved ==
  ASSUME ControlInv, TableInv', NEW c \in Cpus, CpuStep(c)
  PROVE  ControlFlow'
<1> USE CpuAssumption, RootAssumption, NoneAssumption, OpsAssumption
    DEF At, Goto, Handles, tableVars, lockVars, localVars, SlotOf, UnlockProcess
<1>0. SchedulingTypeOK /\ ControlFlow /\ ContextIsFresh
  BY DEF ControlInv
<1> USE DEF SchedulingTypeOK, ControlFlow, HasPid, OnUserBehalf, AllUserOps
<1> HIDE DEF TableTypeOK
<1>1. CASE Dequeue(c)
  BY <1>0, <1>1 DEF Dequeue
<1>2. CASE NothingToDo(c)
  BY <1>0, <1>2 DEF NothingToDo
<1>3. CASE GetLocksTable(c)
  BY <1>0, <1>3 DEF GetLocksTable
<1>4. CASE GetFindsProcess(c)
  BY <1>0, <1>4 DEF GetFindsProcess
<1>5. CASE GetFindsNothing(c)
  BY <1>0, <1>5 DEF GetFindsNothing
<1>6. CASE EnterUserMode(c)
  BY <1>0, <1>6 DEF EnterUserMode
<1>7. CASE LeaveUserMode(c)
  BY <1>0, <1>7 DEF LeaveUserMode
<1>8. CASE StackAssertionFails(c)
  BY <1>0, <1>8 DEF StackAssertionFails
<1>9. CASE SaveContext(c)
  BY <1>0, <1>9 DEF SaveContext
<1>10. CASE EnqueueProcess(c)
  BY <1>0, <1>10 DEF EnqueueProcess
<1>11. CASE Return(c)
  BY <1>0, <1>11 DEF Return
<1>12. CASE ReturnUnknown(c)
  BY <1>0, <1>12 DEF ReturnUnknown
<1>30. CASE LogValuePanics(c)
  BY <1>0, <1>30 DEF LogValuePanics
<1>13. CASE Exit(c)
  BY <1>0, <1>13 DEF Exit
<1>14. CASE YieldEnqueues(c)
  BY <1>0, <1>14 DEF YieldEnqueues
<1>15. CASE YieldLeaves(c)
  BY <1>0, <1>15 DEF YieldLeaves
<1>16. CASE FatalTrap(c)
  BY <1>0, <1>16 DEF FatalTrap
<1>17. CASE FreeLocksTable(c)
  BY <1>0, <1>17 DEF FreeLocksTable
<1>18. CASE FreeProcess(c)
  BY <1>0, <1>18 DEF FreeProcess, DropAddressSpace, AfterFree, ContextIsFresh
<1>19. CASE FreeFindsNothing(c)
  BY <1>0, <1>19 DEF FreeFindsNothing, AfterFree, ContextIsFresh
<1>20. CASE CreateInitializes(c)
  BY <1>0, <1>20 DEF CreateInitializes
<1>21. CASE CreateReturnsToBase(c)
  BY <1>0, <1>21 DEF CreateReturnsToBase
<1>22. CASE CreateAllocates(c)
  <2>1. free \in Pid
    BY <1>22, HeadIsFree DEF CreateAllocates, Allocate, ControlInv
  <2> QED
    BY <1>0, <1>22, <2>1 DEF CreateAllocates
<1>23. CASE CreateRefused(c)
  BY <1>0, <1>23 DEF CreateRefused
<1>24. CASE WakeUp(c)
  BY <1>0, <1>24 DEF WakeUp
<1>25. CASE Preempt(c)
  BY <1>0, <1>25 DEF Preempt
<1>26. ASSUME NEW o \in UserOps, EnterKernel(c, o) PROVE ControlFlow'
  BY <1>0, <1>26 DEF EnterKernel
<1>27. CASE CreateDuplicatesBase(c)
  BY <1>0, <1>27 DEF CreateDuplicatesBase
<1>28. CASE KernelFree(c)
  <2>1. PICK p \in LiveIds \cup RetiredIds : pid' = [pid EXCEPT ![c] = p]
    BY <1>28 DEF KernelFree
  <2>2. p \in Pid
    BY IdsArePids DEF ControlInv
  <2> QED
    BY <1>0, <1>28, <2>1, <2>2 DEF KernelFree
<1> QED
  BY <1>1, <1>2, <1>3, <1>4, <1>5, <1>6, <1>7, <1>8, <1>9, <1>10, <1>11,
     <1>12, <1>30, <1>13, <1>14, <1>15, <1>16, <1>17, <1>18, <1>19, <1>20,
     <1>21, <1>22, <1>23, <1>24, <1>25, <1>26, <1>27, <1>28
  DEF CpuStep, KernelStep, TimerTick

\* Every step keeps the discipline of the locks.
LEMMA LocksPreserved ==
  ASSUME ControlInv, TableInv', NEW c \in Cpus, CpuStep(c)
  PROVE  LocksProtect'
<1> USE CpuAssumption, RootAssumption, NoneAssumption, OpsAssumption
    DEF At, Goto, Handles, tableVars, lockVars, localVars, SlotOf, UnlockProcess
<1>0. SchedulingTypeOK /\ LocksProtect
  BY DEF ControlInv
<1>a. \A d \in Cpus : HasPid(d) => pid[d] \in Pid /\ pid[d].slot \in Slots
  BY DEF ControlInv, ControlFlow, Pid
<1>b. \A p \in Pid : Found(p) /\ (process_lock[p.slot] # None \/ ~At(c, "free_process")) => Found(p)'
  BY LockedStaysFound
<1> USE DEF SchedulingTypeOK, LocksProtect, HasPid
<1> HIDE DEF TableTypeOK
<1>1. CASE Dequeue(c)
  BY <1>0, <1>a, <1>b, <1>1 DEF Dequeue
<1>2. CASE NothingToDo(c)
  BY <1>0, <1>a, <1>b, <1>2 DEF NothingToDo
<1>3. CASE GetLocksTable(c)
  BY <1>0, <1>a, <1>b, <1>3 DEF GetLocksTable
<1>4. CASE GetFindsProcess(c)
  <2>1. process_lock[SlotOf(c)] = None
    BY <1>4 DEF GetFindsProcess, SlotIsUnlocked, Found
  <2> QED
    BY <1>0, <1>a, <1>b, <1>4, <2>1 DEF GetFindsProcess
<1>5. CASE GetFindsNothing(c)
  BY <1>0, <1>a, <1>b, <1>5 DEF GetFindsNothing
<1>6. CASE EnterUserMode(c)
  BY <1>0, <1>a, <1>b, <1>6 DEF EnterUserMode
<1>7. CASE LeaveUserMode(c)
  BY <1>0, <1>a, <1>b, <1>7 DEF LeaveUserMode
<1>8. CASE StackAssertionFails(c)
  BY <1>0, <1>a, <1>b, <1>8 DEF StackAssertionFails
<1>9. CASE SaveContext(c)
  BY <1>0, <1>a, <1>b, <1>9 DEF SaveContext
<1>10. CASE EnqueueProcess(c)
  BY <1>0, <1>a, <1>b, <1>10 DEF EnqueueProcess
<1>11. CASE Return(c)
  BY <1>0, <1>a, <1>b, <1>11 DEF Return
<1>12. CASE ReturnUnknown(c)
  BY <1>0, <1>a, <1>b, <1>12 DEF ReturnUnknown
<1>30. CASE LogValuePanics(c)
  BY <1>0, <1>a, <1>b, <1>30 DEF LogValuePanics
<1>13. CASE Exit(c)
  BY <1>0, <1>a, <1>b, <1>13 DEF Exit
<1>14. CASE YieldEnqueues(c)
  BY <1>0, <1>a, <1>b, <1>14 DEF YieldEnqueues
<1>15. CASE YieldLeaves(c)
  BY <1>0, <1>a, <1>b, <1>15 DEF YieldLeaves
<1>16. CASE FatalTrap(c)
  BY <1>0, <1>a, <1>b, <1>16 DEF FatalTrap
<1>17. CASE FreeLocksTable(c)
  BY <1>0, <1>a, <1>b, <1>17 DEF FreeLocksTable
<1>18. CASE FreeProcess(c)
  BY <1>0, <1>a, <1>b, <1>18 DEF FreeProcess, DropAddressSpace, AfterFree
<1>19. CASE FreeFindsNothing(c)
  BY <1>0, <1>a, <1>b, <1>19 DEF FreeFindsNothing, AfterFree
<1>20. CASE CreateInitializes(c)
  BY <1>0, <1>a, <1>b, <1>20 DEF CreateInitializes
<1>21. CASE CreateReturnsToBase(c)
  BY <1>0, <1>a, <1>b, <1>21 DEF CreateReturnsToBase
<1>22. CASE CreateAllocates(c)
  BY <1>0, <1>a, <1>b, <1>22 DEF CreateAllocates
<1>23. CASE CreateRefused(c)
  BY <1>0, <1>a, <1>b, <1>23 DEF CreateRefused
<1>24. CASE WakeUp(c)
  BY <1>0, <1>a, <1>b, <1>24 DEF WakeUp
<1>25. CASE Preempt(c)
  BY <1>0, <1>a, <1>b, <1>25 DEF Preempt
<1>26. ASSUME NEW o \in UserOps, EnterKernel(c, o) PROVE LocksProtect'
  BY <1>0, <1>a, <1>b, <1>26 DEF EnterKernel
<1>27. CASE CreateDuplicatesBase(c)
  BY <1>0, <1>a, <1>b, <1>27 DEF CreateDuplicatesBase
<1>28. CASE KernelFree(c)
  BY <1>0, <1>a, <1>b, <1>28 DEF KernelFree
<1> QED
  BY <1>1, <1>2, <1>3, <1>4, <1>5, <1>6, <1>7, <1>8, <1>9, <1>10, <1>11,
     <1>12, <1>30, <1>13, <1>14, <1>15, <1>16, <1>17, <1>18, <1>19, <1>20,
     <1>21, <1>22, <1>23, <1>24, <1>25, <1>26, <1>27, <1>28
  DEF CpuStep, KernelStep, TimerTick

\* Every step keeps the saved user context with its process.
LEMMA ContextPreserved ==
  ASSUME ControlInv, TableInv', NEW c \in Cpus, CpuStep(c)
  PROVE  ContextIsFresh'
<1> USE CpuAssumption, RootAssumption, NoneAssumption, OpsAssumption
    DEF At, Goto, Handles, tableVars, lockVars, localVars, SlotOf, UnlockProcess
<1>0. SchedulingTypeOK /\ ContextIsFresh /\ ControlFlow
  BY DEF ControlInv
<1> USE DEF SchedulingTypeOK, ContextIsFresh
<1> HIDE DEF TableTypeOK
<1>1. CASE Dequeue(c)
  BY <1>0, <1>1 DEF Dequeue
<1>2. CASE NothingToDo(c)
  BY <1>0, <1>2 DEF NothingToDo
<1>3. CASE GetLocksTable(c)
  BY <1>0, <1>3 DEF GetLocksTable
<1>4. CASE GetFindsProcess(c)
  BY <1>0, <1>4 DEF GetFindsProcess
<1>5. CASE GetFindsNothing(c)
  BY <1>0, <1>5 DEF GetFindsNothing
<1>6. CASE EnterUserMode(c)
  BY <1>0, <1>6 DEF EnterUserMode
<1>7. CASE LeaveUserMode(c)
  BY <1>0, <1>7 DEF LeaveUserMode
<1>8. CASE StackAssertionFails(c)
  BY <1>0, <1>8 DEF StackAssertionFails, ControlFlow
<1>9. CASE SaveContext(c)
  BY <1>0, <1>9 DEF SaveContext
<1>10. CASE EnqueueProcess(c)
  BY <1>0, <1>10 DEF EnqueueProcess
<1>11. CASE Return(c)
  BY <1>0, <1>11 DEF Return
<1>12. CASE ReturnUnknown(c)
  BY <1>0, <1>12 DEF ReturnUnknown
<1>30. CASE LogValuePanics(c)
  BY <1>0, <1>30 DEF LogValuePanics
<1>13. CASE Exit(c)
  BY <1>0, <1>13 DEF Exit
<1>14. CASE YieldEnqueues(c)
  BY <1>0, <1>14 DEF YieldEnqueues
<1>15. CASE YieldLeaves(c)
  BY <1>0, <1>15 DEF YieldLeaves
<1>16. CASE FatalTrap(c)
  BY <1>0, <1>16 DEF FatalTrap
<1>17. CASE FreeLocksTable(c)
  BY <1>0, <1>17 DEF FreeLocksTable
<1>18. CASE FreeProcess(c)
  BY <1>0, <1>18 DEF FreeProcess, DropAddressSpace, AfterFree
<1>19. CASE FreeFindsNothing(c)
  BY <1>0, <1>19 DEF FreeFindsNothing, AfterFree
<1>20. CASE CreateInitializes(c)
  BY <1>0, <1>20 DEF CreateInitializes
<1>21. CASE CreateReturnsToBase(c)
  BY <1>0, <1>21 DEF CreateReturnsToBase
<1>22. CASE CreateAllocates(c)
  BY <1>0, <1>22 DEF CreateAllocates
<1>23. CASE CreateRefused(c)
  BY <1>0, <1>23 DEF CreateRefused
<1>24. CASE WakeUp(c)
  BY <1>0, <1>24 DEF WakeUp
<1>25. CASE Preempt(c)
  BY <1>0, <1>25 DEF Preempt, ControlFlow, OnUserBehalf
<1>26. ASSUME NEW o \in UserOps, EnterKernel(c, o) PROVE ContextIsFresh'
  BY <1>0, <1>26 DEF EnterKernel
<1>27. CASE CreateDuplicatesBase(c)
  BY <1>0, <1>27 DEF CreateDuplicatesBase
<1>28. CASE KernelFree(c)
  BY <1>0, <1>28 DEF KernelFree
<1> QED
  BY <1>1, <1>2, <1>3, <1>4, <1>5, <1>6, <1>7, <1>8, <1>9, <1>10, <1>11,
     <1>12, <1>30, <1>13, <1>14, <1>15, <1>16, <1>17, <1>18, <1>19, <1>20,
     <1>21, <1>22, <1>23, <1>24, <1>25, <1>26, <1>27, <1>28
  DEF CpuStep, KernelStep, TimerTick

\* A stuttering step.
LEMMA StutterPreservesControl ==
  ASSUME ControlInv, UNCHANGED vars
  PROVE  ControlInv'
<1>1. TableInv'
  BY StepPreservesInv DEF ControlInv, vars, tableVars
<1>2. SchedulingTypeOK'
  BY <1>1 DEF ControlInv, TableInv, SchedulingTypeOK, vars
<1>3. ControlFlow' /\ LocksProtect' /\ ContextIsFresh'
  BY DEF ControlInv, ControlFlow, HasPid, OnUserBehalf, LocksProtect, ContextIsFresh,
     SlotOf, Found, IsUsed, vars
<1> QED
  BY <1>1, <1>2, <1>3 DEF ControlInv

\* The inductive invariant of control holds initially and is preserved.
LEMMA InitEstablishesControl == Init => ControlInv
<1> SUFFICES ASSUME Init PROVE ControlInv
  OBVIOUS
<1> USE CpuAssumption, RootAssumption, NoneAssumption DEF Init
<1>1. TableInv
  BY InitEstablishesInv
<1>2. SchedulingTypeOK
  <2> HIDE DEF TableInit, TableTypeOK
  <2> QED
    BY <1>1 DEF TableInv, SchedulingTypeOK, Owner, OptionPid, Locations, Calls
<1>3. ControlFlow /\ LocksProtect /\ ContextIsFresh
  BY DEF ControlFlow, HasPid, OnUserBehalf, LocksProtect, ContextIsFresh
<1> QED
  BY <1>1, <1>2, <1>3 DEF ControlInv

\* Every step of every CPU keeps the types, the locks and the freshness of contexts.
LEMMA StepPreservesControl == ControlInv /\ [Next]_vars => ControlInv'
<1> SUFFICES ASSUME ControlInv, [Next]_vars PROVE ControlInv'
  OBVIOUS
<1>1. ASSUME NEW c \in Cpus, CpuStep(c) PROVE ControlInv'
  BY <1>1, StepPreservesTable, TypesPreserved, FlowPreserved, LocksPreserved,
     ContextPreserved DEF ControlInv
<1>2. CASE UNCHANGED vars
  BY <1>2, StutterPreservesControl
<1> QED
  BY <1>1, <1>2 DEF Next, CpuStep

\* The inductive invariant of control: who is where in the kernel holds which lock.
THEOREM ControlInvariance == Spec => []ControlInv
  BY InitEstablishesControl, StepPreservesControl, PTL DEF Spec

\* The sections of the kernel are entered with their locks, and a saved user
\* context is used by the process it belongs to: for any number of CPUs and
\* processes, whatever user programs do, and also while the kernel destroys
\* processes that are queued or being executed.
THEOREM ProcessesAlwaysProtected == Spec => []ProcessesAreProtected
<1>1. ControlInv => ProcessesAreProtected
  BY DEF ControlInv, ProcessesAreProtected
<1> QED
  BY <1>1, ControlInvariance, PTL

\* Whatever the scheduler does to the process table is a behaviour of the
\* table, so that all that is proved of the table holds under the scheduler.
THEOREM SchedulerUsesTable == Spec => TableSpec
<1>1. Init => TableInit
  BY DEF Init
<1>2. ControlInv /\ [Next]_vars => [TableNext]_tableVars
  <2> SUFFICES ASSUME ControlInv, [Next]_vars PROVE [TableNext]_tableVars
    OBVIOUS
  <2>1. ASSUME NEW c \in Cpus, CpuStep(c) PROVE [TableNext]_tableVars
    BY <2>1, StepIsTableStep DEF TableNext
  <2>2. CASE UNCHANGED vars
    BY <2>2 DEF vars, tableVars
  <2> QED
    BY <2>1, <2>2 DEF Next, CpuStep
<1> QED
  BY <1>1, <1>2, ControlInvariance, PTL DEF Spec, TableSpec

\* Dropping tokens of dead processes leaves every living one its token.
LEMMA DroppingPreservesTokens ==
  ASSUME ControlInv, TokenInv, OnlyDeadTokensDropped
  PROVE  TokenInv'
<1> USE DEF OnlyDeadTokensDropped
<1>1. \A p \in Pid : InQueue(p)' <=> InQueue(p)
  BY DEF InQueue
<1>2. TokensAreUnique'
  BY <1>1 DEF TokenInv, TokensAreUnique
<1>3. TokensAreIssued'
  BY <1>1 DEF TokenInv, TokensAreIssued
<1>4. LiveIds \subseteq Pid
  BY IdsArePids DEF ControlInv
<1>5. NoProcessIsLost'
  BY <1>1, <1>4 DEF TokenInv, NoProcessIsLost
<1> QED
  BY <1>2, <1>3, <1>5 DEF TokenInv

\* The queue without its head, and with one more pid at its end.
LEMMA QueueAfterTail ==
  ASSUME queue \in Seq(Pid), queue # <<>>, queue' = Tail(queue), NEW p \in Pid,
         \A i, j \in 1 .. Len(queue) : queue[i] = p /\ queue[j] = p => i = j
  PROVE  /\ InQueue(p) <=> p = Head(queue) \/ InQueue(p)'
         /\ p = Head(queue) => ~InQueue(p)'
         /\ \A i, j \in 1 .. Len(queue)' : queue'[i] = p /\ queue'[j] = p => i = j
<1>1. Len(queue) \in Nat \ {0} /\ Head(queue) = queue[1]
  BY EmptySeq
<1>2. Len(queue)' = Len(queue) - 1
  BY <1>1
<1>3. \A i \in 1 .. Len(queue) - 1 : queue'[i] = queue[i + 1]
  BY <1>1
<1>4. \A i \in 1 .. Len(queue) : i # 1 => i - 1 \in 1 .. Len(queue) - 1 /\ queue[i] = queue'[i - 1]
  BY <1>1, <1>3
<1>5. \A i \in 1 .. Len(queue) - 1 : i + 1 \in 1 .. Len(queue) /\ i + 1 # 1
  BY <1>1
<1>6. 1 \in 1 .. Len(queue)
  BY <1>1
<1>7. InQueue(p) => p = Head(queue) \/ InQueue(p)'
  BY <1>1, <1>2, <1>4 DEF InQueue
<1>8. InQueue(p)' => InQueue(p)
  BY <1>2, <1>3, <1>5 DEF InQueue
<1>9. p = Head(queue) => InQueue(p) /\ ~InQueue(p)'
  BY <1>1, <1>2, <1>3, <1>5, <1>6 DEF InQueue
<1>10. \A i, j \in 1 .. Len(queue)' : queue'[i] = p /\ queue'[j] = p => i = j
  <2> SUFFICES ASSUME NEW i \in 1 .. Len(queue)', NEW j \in 1 .. Len(queue)',
                      queue'[i] = p, queue'[j] = p
               PROVE  i = j
    OBVIOUS
  <2>1. i + 1 = j + 1
    BY <1>2, <1>3, <1>5
  <2> QED
    BY <1>1, <1>2, <2>1
<1> QED
  BY <1>7, <1>8, <1>9, <1>10

\* What is in the queue after Scheduler::enqueue().
LEMMA QueueAfterAppend ==
  ASSUME queue \in Seq(Pid), NEW q \in Pid, queue' = Append(queue, q), NEW p \in Pid
  PROVE  /\ InQueue(p)' <=> p = q \/ InQueue(p)
         /\ (p = q => ~InQueue(p))
              /\ (\A i, j \in 1 .. Len(queue) : queue[i] = p /\ queue[j] = p => i = j)
            => \A i, j \in 1 .. Len(queue)' : queue'[i] = p /\ queue'[j] = p => i = j
<1> DEFINE n == Len(queue)
<1>1. n \in Nat /\ Len(queue)' = n + 1 /\ queue'[n + 1] = q
  BY AppendProperties
<1>2. \A i \in 1 .. n : queue'[i] = queue[i]
  OBVIOUS
<1>3. \A i \in 1 .. n + 1 : i \in 1 .. n \/ i = n + 1
  BY <1>1
<1>4. \A i \in 1 .. n : i \in 1 .. n + 1
  BY <1>1
<1>5. n + 1 \in 1 .. n + 1
  BY <1>1
<1> HIDE DEF n
<1>6. InQueue(p)' <=> p = q \/ InQueue(p)
  <2>1. InQueue(p)' <=> \E i \in 1 .. n + 1 : queue'[i] = p
    BY <1>1 DEF InQueue
  <2>2. InQueue(p) <=> \E i \in 1 .. n : queue[i] = p
    BY DEF InQueue, n
  <2> QED
    BY <1>1, <1>2, <1>3, <1>4, <1>5, <2>1, <2>2
<1>7. ASSUME p = q => ~InQueue(p),
             \A i, j \in 1 .. n : queue[i] = p /\ queue[j] = p => i = j,
             NEW i \in 1 .. n + 1, NEW j \in 1 .. n + 1,
             queue'[i] = p, queue'[j] = p
      PROVE  i = j
  <2>1. \A k \in 1 .. n : queue[k] = p => p # q
    BY <1>7 DEF InQueue, n
  <2> QED
    BY <1>1, <1>2, <1>3, <1>7, <2>1
<1> QED
  BY <1>1, <1>6, <1>7 DEF n

\* The token at the head of the queue goes to the CPU that takes it.
LEMMA TakingPreservesTokens ==
  ASSUME ControlInv, TokenInv, NEW c \in Cpus, TakesToken(c)
  PROVE  TokenInv'
<1> USE DEF TakesToken, HoldsNothing, OthersHoldTheSame
<1>1. \A p \in Pid :
         /\ InQueue(p) <=> p = Head(queue) \/ InQueue(p)'
         /\ p = Head(queue) => ~InQueue(p)'
         /\ \A i, j \in 1 .. Len(queue)' : queue'[i] = p /\ queue'[j] = p => i = j
  BY QueueAfterTail DEF ControlInv, SchedulingTypeOK, TokenInv, TokensAreUnique
<1>2. LiveIds' = LiveIds /\ RetiredIds' = RetiredIds /\ LiveIds \subseteq Pid
  BY IdsArePids, SameTableSameIds DEF ControlInv
<1>3. TokensAreUnique'
  BY <1>1 DEF TokenInv, TokensAreUnique
<1>4. TokensAreIssued'
  BY <1>1, <1>2 DEF TokenInv, TokensAreIssued
<1>5. NoProcessIsLost'
  BY <1>1, <1>2 DEF TokenInv, NoProcessIsLost
<1> QED
  BY <1>3, <1>4, <1>5 DEF TokenInv

\* The token that a CPU puts into the queue leaves its hands.
LEMMA PuttingPreservesTokens ==
  ASSUME ControlInv, TokenInv, NEW c \in Cpus, PutsToken(c)
  PROVE  TokenInv'
<1> USE DEF PutsToken, HoldsNothing, OthersHoldTheSame
<1>1. \A p \in Pid :
         /\ InQueue(p)' <=> p = pid[c] \/ InQueue(p)
         /\ \A i, j \in 1 .. Len(queue)' : queue'[i] = p /\ queue'[j] = p => i = j
  BY QueueAfterAppend DEF ControlInv, SchedulingTypeOK, TokenInv, TokensAreUnique
<1>2. LiveIds' = LiveIds /\ RetiredIds' = RetiredIds /\ LiveIds \subseteq Pid
  BY IdsArePids, SameTableSameIds DEF ControlInv
<1>a. \A p \in Pid : Holds(c, p) => p = pid[c]
  BY DEF Holds
<1>3. TokensAreUnique'
  BY <1>1 DEF TokenInv, TokensAreUnique
<1>4. TokensAreIssued'
  BY <1>1, <1>2 DEF TokenInv, TokensAreIssued
<1>5. NoProcessIsLost'
  BY <1>1, <1>2, <1>a DEF TokenInv, NoProcessIsLost
<1> QED
  BY <1>3, <1>4, <1>5 DEF TokenInv

\* The token of a new process exists nowhere else, because its pid has never
\* been issued before.
LEMMA IssuingPreservesTokens ==
  ASSUME ControlInv, TokenInv, NEW c \in Cpus, GetsNewToken(c)
  PROVE  TokenInv'
<1> USE DEF GetsNewToken, HoldsNothing, OthersHoldTheSame, Registry!Issue
<1>1. \A p \in Pid : InQueue(p)' <=> InQueue(p)
  BY DEF InQueue
<1>2. LiveIds \subseteq Pid
  BY IdsArePids DEF ControlInv
<1>3. ~InQueue(free) /\ \A d \in Cpus : ~Holds(d, free)
  BY DEF TokenInv, TokensAreIssued
<1>4. TokensAreUnique'
  BY <1>1, <1>3 DEF TokenInv, TokensAreUnique
<1>5. TokensAreIssued'
  BY <1>1 DEF TokenInv, TokensAreIssued
<1>6. NoProcessIsLost'
  BY <1>1, <1>2 DEF TokenInv, NoProcessIsLost
<1> QED
  BY <1>4, <1>5, <1>6 DEF TokenInv

\* Which of the four a step does.
LEMMA StepMovesTokens ==
  ASSUME ControlInv, NEW c \in Cpus, CpuStep(c)
  PROVE  OnlyDeadTokensDropped \/ TakesToken(c) \/ PutsToken(c) \/ GetsNewToken(c)
<1> USE CpuAssumption, RootAssumption, NoneAssumption, OpsAssumption
    DEF At, Goto, Handles, tableVars, lockVars, localVars, SlotOf, UnlockProcess
<1>0. SchedulingTypeOK /\ ControlFlow /\ ContextIsFresh /\ TableInv
  BY DEF ControlInv
<1>a. LiveIds \subseteq Pid
  BY <1>0, IdsArePids
<1>b. table' = table => LiveIds' = LiveIds /\ RetiredIds' = RetiredIds
  BY SameTableSameIds
<1>c. pid[c] \in Pid /\ ~Found(pid[c]) => pid[c] \notin LiveIds
  BY <1>0, FoundIsLive
<1> USE DEF SchedulingTypeOK, ControlFlow, ContextIsFresh, HasPid, OnUserBehalf, Holds
<1> HIDE DEF TableTypeOK
<1>1. CASE Dequeue(c)
  <2>1. TakesToken(c)
    BY <1>0, <1>1 DEF Dequeue, TakesToken, HoldsNothing, OthersHoldTheSame
  <2> QED
    BY <2>1
<1>2. CASE NothingToDo(c)
  <2>1. OnlyDeadTokensDropped
    BY <1>0, <1>a, <1>b, <1>2 DEF NothingToDo, OnlyDeadTokensDropped
  <2> QED
    BY <2>1
<1>3. CASE GetLocksTable(c)
  <2>1. OnlyDeadTokensDropped
    BY <1>0, <1>a, <1>b, <1>3 DEF GetLocksTable, OnlyDeadTokensDropped
  <2> QED
    BY <2>1
<1>4. CASE GetFindsProcess(c)
  <2>1. OnlyDeadTokensDropped
    BY <1>0, <1>a, <1>b, <1>4 DEF GetFindsProcess, OnlyDeadTokensDropped
  <2> QED
    BY <2>1
<1>5. CASE GetFindsNothing(c)
  <2>1. OnlyDeadTokensDropped
    BY <1>0, <1>a, <1>b, <1>c, <1>5 DEF GetFindsNothing, OnlyDeadTokensDropped
  <2> QED
    BY <2>1
<1>6. CASE EnterUserMode(c)
  <2>1. OnlyDeadTokensDropped
    BY <1>0, <1>a, <1>b, <1>6 DEF EnterUserMode, OnlyDeadTokensDropped
  <2> QED
    BY <2>1
<1>7. CASE LeaveUserMode(c)
  <2>1. OnlyDeadTokensDropped
    BY <1>0, <1>a, <1>b, <1>7 DEF LeaveUserMode, OnlyDeadTokensDropped
  <2> QED
    BY <2>1
<1>8. CASE StackAssertionFails(c)
  <2>1. OnlyDeadTokensDropped
    BY <1>0, <1>a, <1>b, <1>8 DEF StackAssertionFails, OnlyDeadTokensDropped
  <2> QED
    BY <2>1
<1>9. CASE SaveContext(c)
  <2>1. OnlyDeadTokensDropped
    BY <1>0, <1>a, <1>b, <1>9 DEF SaveContext, OnlyDeadTokensDropped
  <2> QED
    BY <2>1
<1>10. CASE EnqueueProcess(c)
  <2>1. PutsToken(c)
    BY <1>0, <1>10 DEF EnqueueProcess, Enqueue, PutsToken, HoldsNothing, OthersHoldTheSame
  <2> QED
    BY <2>1
<1>11. CASE Return(c)
  <2>1. OnlyDeadTokensDropped
    BY <1>0, <1>a, <1>b, <1>11 DEF Return, OnlyDeadTokensDropped
  <2> QED
    BY <2>1
<1>12. CASE ReturnUnknown(c)
  <2>1. OnlyDeadTokensDropped
    BY <1>0, <1>a, <1>b, <1>12 DEF ReturnUnknown, OnlyDeadTokensDropped
  <2> QED
    BY <2>1
<1>30. CASE LogValuePanics(c)
  <2>1. OnlyDeadTokensDropped
    BY <1>0, <1>a, <1>b, <1>30 DEF LogValuePanics, OnlyDeadTokensDropped
  <2> QED
    BY <2>1
<1>13. CASE Exit(c)
  <2>1. OnlyDeadTokensDropped
    BY <1>0, <1>a, <1>b, <1>13 DEF Exit, OnlyDeadTokensDropped
  <2> QED
    BY <2>1
<1>14. CASE YieldEnqueues(c)
  <2>1. PutsToken(c)
    BY <1>0, <1>14 DEF YieldEnqueues, Enqueue, PutsToken, HoldsNothing, OthersHoldTheSame
  <2> QED
    BY <2>1
<1>15. CASE YieldLeaves(c)
  <2>1. OnlyDeadTokensDropped
    BY <1>0, <1>a, <1>b, <1>15 DEF YieldLeaves, OnlyDeadTokensDropped
  <2> QED
    BY <2>1
<1>16. CASE FatalTrap(c)
  <2>1. OnlyDeadTokensDropped
    BY <1>0, <1>a, <1>b, <1>16 DEF FatalTrap, OnlyDeadTokensDropped
  <2> QED
    BY <2>1
<1>17. CASE FreeLocksTable(c)
  <2>1. OnlyDeadTokensDropped
    BY <1>0, <1>a, <1>b, <1>17 DEF FreeLocksTable, OnlyDeadTokensDropped
  <2> QED
    BY <2>1
<1>18. CASE FreeProcess(c)
  <2>1. pid[c] \in Pid /\ Registry!Retire(pid[c])
    BY <1>0, <1>18, FreeRetires DEF FreeProcess
  <2>2. OnlyDeadTokensDropped
    BY <1>0, <1>a, <1>18, <2>1
    DEF FreeProcess, AfterFree, Registry!Retire, OnlyDeadTokensDropped
  <2> QED
    BY <2>2
<1>19. CASE FreeFindsNothing(c)
  <2>1. OnlyDeadTokensDropped
    BY <1>0, <1>a, <1>b, <1>c, <1>19 DEF FreeFindsNothing, AfterFree, OnlyDeadTokensDropped
  <2> QED
    BY <2>1
<1>20. CASE CreateInitializes(c)
  <2>1. OnlyDeadTokensDropped
    BY <1>0, <1>a, <1>b, <1>20 DEF CreateInitializes, OnlyDeadTokensDropped
  <2> QED
    BY <2>1
<1>21. CASE CreateReturnsToBase(c)
  <2>1. OnlyDeadTokensDropped
    BY <1>0, <1>a, <1>b, <1>21 DEF CreateReturnsToBase, OnlyDeadTokensDropped
  <2> QED
    BY <2>1
<1>22. CASE CreateAllocates(c)
  <2>1. free \in Pid /\ Registry!Issue(free)
    BY <1>0, <1>22, AllocateIssues DEF CreateAllocates
  <2>2. GetsNewToken(c)
    BY <1>0, <1>22, <2>1 DEF CreateAllocates, GetsNewToken, HoldsNothing, OthersHoldTheSame
  <2> QED
    BY <2>2
<1>23. CASE CreateRefused(c)
  <2>1. OnlyDeadTokensDropped
    BY <1>0, <1>a, <1>b, <1>23 DEF CreateRefused, OnlyDeadTokensDropped
  <2> QED
    BY <2>1
<1>24. CASE WakeUp(c)
  <2>1. OnlyDeadTokensDropped
    BY <1>0, <1>a, <1>b, <1>24 DEF WakeUp, OnlyDeadTokensDropped
  <2> QED
    BY <2>1
<1>25. CASE Preempt(c)
  <2>1. OnlyDeadTokensDropped
    BY <1>0, <1>a, <1>b, <1>25 DEF Preempt, OnlyDeadTokensDropped
  <2> QED
    BY <2>1
<1>26. ASSUME NEW o \in UserOps, EnterKernel(c, o) PROVE OnlyDeadTokensDropped \/ TakesToken(c) \/ PutsToken(c) \/ GetsNewToken(c)
  <2>1. OnlyDeadTokensDropped
    BY <1>0, <1>a, <1>b, <1>26 DEF EnterKernel, OnlyDeadTokensDropped
  <2> QED
    BY <2>1
<1>27. CASE CreateDuplicatesBase(c)
  <2>1. OnlyDeadTokensDropped
    BY <1>0, <1>a, <1>b, <1>27 DEF CreateDuplicatesBase, OnlyDeadTokensDropped
  <2> QED
    BY <2>1
<1>28. CASE KernelFree(c)
  <2>1. OnlyDeadTokensDropped
    BY <1>0, <1>a, <1>b, <1>28 DEF KernelFree, OnlyDeadTokensDropped
  <2> QED
    BY <2>1
<1> QED
  BY <1>1, <1>2, <1>3, <1>4, <1>5, <1>6, <1>7, <1>8, <1>9, <1>10, <1>11,
     <1>12, <1>30, <1>13, <1>14, <1>15, <1>16, <1>17, <1>18, <1>19, <1>20,
     <1>21, <1>22, <1>23, <1>24, <1>25, <1>26, <1>27, <1>28
  DEF CpuStep, KernelStep, TimerTick

\* Every step keeps the places of a process unique and never loses it.
LEMMA StepPreservesTokens ==
  ControlInv /\ TokenInv /\ [Next]_vars => TokenInv'
<1> SUFFICES ASSUME ControlInv, TokenInv, [Next]_vars PROVE TokenInv'
  OBVIOUS
<1>1. ASSUME NEW c \in Cpus, CpuStep(c) PROVE TokenInv'
  BY <1>1, StepMovesTokens, DroppingPreservesTokens, TakingPreservesTokens,
     PuttingPreservesTokens, IssuingPreservesTokens
<1>2. CASE UNCHANGED vars
  <2>1. LiveIds' = LiveIds /\ RetiredIds' = RetiredIds
    BY <1>2, SameTableSameIds DEF vars
  <2>2. OnlyDeadTokensDropped
    BY <1>2, <2>1 DEF vars, OnlyDeadTokensDropped, Holds
  <2> QED
    BY <2>2, DroppingPreservesTokens
<1> QED
  BY <1>1, <1>2 DEF Next, CpuStep

\* No process is anywhere at the start.
LEMMA InitEstablishesTokens == Init => TokenInv
<1> SUFFICES ASSUME Init PROVE TokenInv
  OBVIOUS
<1>1. LiveIds = {}
  BY InitIsRegistryInit DEF Init, Registry!RegistryInit
<1>2. \A p \in Pid : ~InQueue(p) /\ \A c \in Cpus : ~Holds(c, p)
  BY DEF Init, InQueue, Holds
<1>3. Len(queue) = 0
  BY DEF Init
<1> QED
  BY <1>1, <1>2, <1>3 DEF TokenInv, TokensAreUnique, TokensAreIssued, NoProcessIsLost

\* The inductive invariant of the places of a process: the queue and the hands of the CPUs.
THEOREM TokenInvariance == Spec => []TokenInv
  BY InitEstablishesTokens, StepPreservesTokens, ControlInvariance, PTL DEF Spec

\* A process in the table is queued once or in the hands of one CPU, for any
\* number of CPUs and processes: run_one(), sched_yield(), exit(), fatal traps
\* and the timer neither lose nor duplicate it.
THEOREM EachProcessAlwaysInOnePlace == Spec => []EachProcessIsInOnePlace
<1>1. ControlInv /\ TokenInv => EachProcessIsInOnePlace
  <2> SUFFICES ASSUME ControlInv, TokenInv PROVE EachProcessIsInOnePlace
    OBVIOUS
  <2>1. LiveIds \subseteq Pid
    BY IdsArePids DEF ControlInv
  <2> QED
    BY <2>1 DEF TokenInv, TokensAreUnique, EachProcessIsInOnePlace, AtMostOnce
<1> QED
  BY <1>1, ControlInvariance, TokenInvariance, PTL

-----------------------------------------------------------------------------
\* The CPUs do not deal with two processes of one slot at a time.
LEMMA OneCpuPerSlot ==
  ASSUME ControlInv, TokensAreUnique, TokensAreLive,
         NEW c \in Cpus, NEW d \in Cpus,
         pid[c] \in Pid, pid[d] \in Pid, Holds(c, pid[c]), Holds(d, pid[d]),
         SlotOf(c) = SlotOf(d)
  PROVE  c = d
<1>1. Found(pid[c]) /\ Found(pid[d])
  BY FoundIsLive DEF ControlInv, TokensAreLive
<1>2. pid[c] = pid[d]
  BY <1>1 DEF Found, SlotOf
<1> QED
  BY <1>2 DEF TokensAreUnique

\* A process is destroyed only by the CPU that holds its token, which is gone
\* together with it.
LEMMA StepKeepsTokensLive ==
  ASSUME ControlInv, TokenInv, UserInv, NEW c \in Cpus, CpuStep(c)
  PROVE  TokensAreLive'
<1>1. LiveIds \subseteq Pid
  BY IdsArePids DEF ControlInv
<1>2. CASE LiveIds' = LiveIds /\ OnlyDeadTokensDropped
  <2>1. \A p \in Pid : InQueue(p)' <=> InQueue(p)
    BY <1>2 DEF OnlyDeadTokensDropped, InQueue
  <2> QED
    BY <1>2, <2>1 DEF OnlyDeadTokensDropped, UserInv, TokensAreLive
<1>3. CASE TakesToken(c)
  <2>1. \A p \in Pid : InQueue(p) <=> p = Head(queue) \/ InQueue(p)'
    BY <1>3, QueueAfterTail
    DEF TakesToken, ControlInv, SchedulingTypeOK, TokenInv, TokensAreUnique
  <2>2. LiveIds' = LiveIds
    BY <1>3, SameTableSameIds DEF TakesToken
  <2> QED
    BY <1>3, <2>1, <2>2 DEF TakesToken, OthersHoldTheSame, UserInv, TokensAreLive
<1>4. CASE PutsToken(c)
  <2>1. \A p \in Pid : InQueue(p)' <=> p = pid[c] \/ InQueue(p)
    BY <1>4, QueueAfterAppend DEF PutsToken, ControlInv, SchedulingTypeOK
  <2>2. LiveIds' = LiveIds
    BY <1>4, SameTableSameIds DEF PutsToken
  <2> QED
    BY <1>4, <2>1, <2>2
    DEF PutsToken, HoldsNothing, OthersHoldTheSame, UserInv, TokensAreLive
<1>5. CASE GetsNewToken(c)
  <2>1. \A p \in Pid : InQueue(p)' <=> InQueue(p)
    BY <1>5 DEF GetsNewToken, InQueue
  <2> QED
    BY <1>5, <2>1 DEF GetsNewToken, Registry!Issue, OthersHoldTheSame, UserInv, TokensAreLive
<1>6. CASE FreeProcess(c)
  <2>1. pid[c] \in Pid /\ Holds(c, pid[c])
    BY <1>6 DEF FreeProcess, At, ControlInv, ControlFlow, HasPid, Holds, UserInv, NeverKernelFree
  <2>2. Registry!Retire(pid[c])
    BY <1>6, <2>1, FreeRetires DEF FreeProcess, ControlInv
  <2>3. ~InQueue(pid[c]) /\ \A d \in Cpus \ {c} : ~Holds(d, pid[c])
    BY <2>1 DEF TokenInv, TokensAreUnique
  <2>4. \A p \in Pid : InQueue(p)' <=> InQueue(p)
    BY <1>6 DEF FreeProcess, InQueue
  <2>5. pc' \in [Cpus -> Locations] /\ pc'[c] \in {"left_user_mode", "panic", "run_one"}
        /\ user_context'[c] = None
    BY <1>6, <2>1 DEF FreeProcess, AfterFree, Goto, At, Locations, ControlInv,
       SchedulingTypeOK, ContextIsFresh
  <2>6. \A p \in Pid : ~Holds(c, p)'
    BY <2>5 DEF Holds
  <2>7. \A d \in Cpus, p \in Pid : Holds(d, p)' => Holds(d, p)
    <3>1. UNCHANGED <<pid, op, user_context>>
      BY <1>6 DEF FreeProcess
    <3>2. \A d \in Cpus \ {c} : pc'[d] = pc[d]
      BY <1>6 DEF FreeProcess, AfterFree, Goto, ControlInv, SchedulingTypeOK
    <3> QED
      BY <2>5, <3>1, <3>2 DEF Holds
  <2> QED
    BY <2>2, <2>3, <2>4, <2>6, <2>7 DEF Registry!Retire, UserInv, TokensAreLive
<1>7. ASSUME ~FreeProcess(c), OnlyDeadTokensDropped PROVE LiveIds' = LiveIds
  <2>1. CASE UNCHANGED tableVars
    BY <2>1, SameTableSameIds DEF tableVars
  <2>2. CASE Allocate
    <3>1. free \in LiveIds' /\ free \notin LiveIds
      BY <2>2, AllocateIssues DEF ControlInv, Registry!Issue
    <3> QED
      BY <1>7, <3>1 DEF OnlyDeadTokensDropped
  <2>3. CASE At(c, "free_process") /\ Free(pid[c])
    <3>1. ~Found(pid[c])
      BY <1>7, <2>3 DEF CpuStep, KernelStep, TimerTick, Dequeue, NothingToDo, GetLocksTable,
         GetFindsProcess, GetFindsNothing, EnterUserMode, LeaveUserMode,
         StackAssertionFails, SaveContext, EnqueueProcess, Return, LogValuePanics,
         ReturnUnknown, Exit,
         YieldEnqueues, YieldLeaves, FatalTrap, FreeLocksTable, FreeFindsNothing,
         CreateInitializes, CreateReturnsToBase, CreateAllocates, CreateRefused,
         WakeUp, Preempt, EnterKernel, CreateDuplicatesBase, KernelFree, At, Handles
    <3> QED
      BY <2>3, <3>1 DEF Free
  <2> QED
    BY <2>1, <2>2, <2>3, StepIsTableStep
<1> QED
  BY <1>2, <1>3, <1>4, <1>5, <1>6, <1>7, StepMovesTokens

\* A lock is owned only inside of what it protects, or leaked.
LEMMA StepKeepsLocksAccounted ==
  ASSUME "free" \notin KernelOps, ControlInv, TokenInv, UserInv,
         NEW c \in Cpus, CpuStep(c)
  PROVE  LocksAreAccounted'
<1> USE CpuAssumption, RootAssumption, NoneAssumption, OpsAssumption
    DEF At, Goto, Handles, tableVars, lockVars, localVars, SlotOf, UnlockProcess
<1>0. SchedulingTypeOK /\ ControlFlow /\ LocksProtect /\ LocksAreAccounted /\ NeverKernelFree
  BY DEF ControlInv, UserInv
<1>l. \A d \in Cpus : pid[d] \in Pid /\ Holds(d, pid[d]) => Found(pid[d])
  BY FoundIsLive DEF ControlInv, UserInv, TokensAreLive
<1>m. \A d \in Cpus : HasPid(d) => pid[d] \in Pid /\ pid[d].slot \in Slots
  BY DEF ControlInv, ControlFlow, Pid
<1> USE DEF SchedulingTypeOK, LocksAreAccounted, MayOwnProcess, HasPid
<1> HIDE DEF TableTypeOK
<1>1. CASE Dequeue(c)
  BY <1>0, <1>m, <1>1 DEF Dequeue
<1>2. CASE NothingToDo(c)
  BY <1>0, <1>m, <1>2 DEF NothingToDo
<1>3. CASE GetLocksTable(c)
  BY <1>0, <1>m, <1>3 DEF GetLocksTable
<1>4. CASE GetFindsProcess(c)
  <2>1. process_lock[SlotOf(c)] = None
    BY <1>4 DEF GetFindsProcess, SlotIsUnlocked, Found
  <2> QED
    BY <1>0, <1>m, <1>4, <2>1 DEF GetFindsProcess
<1>5. CASE GetFindsNothing(c)
  BY <1>l, <1>m, <1>5 DEF GetFindsNothing, Holds
<1>6. CASE EnterUserMode(c)
  BY <1>0, <1>m, <1>6 DEF EnterUserMode
<1>7. CASE LeaveUserMode(c)
  BY <1>0, <1>m, <1>7 DEF LeaveUserMode
<1>8. CASE StackAssertionFails(c)
  BY <1>0, <1>m, <1>8 DEF StackAssertionFails, ControlFlow
<1>9. CASE SaveContext(c)
  BY <1>0, <1>m, <1>9 DEF SaveContext
<1>10. CASE EnqueueProcess(c)
  BY <1>0, <1>m, <1>10 DEF EnqueueProcess
<1>11. CASE Return(c)
  BY <1>0, <1>m, <1>11 DEF Return
<1>12. CASE ReturnUnknown(c)
  BY <1>0, <1>m, <1>12 DEF ReturnUnknown, ControlFlow
<1>30. CASE LogValuePanics(c)
  BY <1>0, <1>m, <1>30 DEF LogValuePanics, ControlFlow
<1>13. CASE Exit(c)
  BY <1>0, <1>m, <1>13 DEF Exit
<1>14. CASE YieldEnqueues(c)
  BY <1>0, <1>m, <1>14 DEF YieldEnqueues
<1>15. CASE YieldLeaves(c)
  BY <1>0, <1>m, <1>15 DEF YieldLeaves
<1>16. CASE FatalTrap(c)
  BY <1>0, <1>m, <1>16 DEF FatalTrap
<1>17. CASE FreeLocksTable(c)
  BY <1>0, <1>m, <1>17 DEF FreeLocksTable
<1>18. CASE FreeProcess(c)
  BY <1>0, <1>m, <1>18 DEF FreeProcess, DropAddressSpace, AfterFree
<1>19. CASE FreeFindsNothing(c)
  <2>1. /\ pc[c] = "free_process" /\ table_lock' = None
        /\ UNCHANGED <<base_lock, process_lock, pid, op, user_context>>
    BY <1>19 DEF FreeFindsNothing
  <2>2. \A d \in Cpus : d # c => pc'[d] = pc[d]
    BY <1>0, <1>19 DEF FreeFindsNothing, AfterFree
  <2>3. base_lock # c /\ \A s \in Slots : process_lock[s] # c
    BY <1>0, <2>1
  <2> QED BY <1>0, <2>1, <2>2, <2>3
<1>20. CASE CreateInitializes(c)
  BY <1>0, <1>m, <1>20 DEF CreateInitializes
<1>21. CASE CreateReturnsToBase(c)
  BY <1>0, <1>m, <1>21 DEF CreateReturnsToBase
<1>22. CASE CreateAllocates(c)
  BY <1>0, <1>m, <1>22 DEF CreateAllocates
<1>23. CASE CreateRefused(c)
  BY <1>0, <1>m, <1>23 DEF CreateRefused
<1>24. CASE WakeUp(c)
  BY <1>0, <1>m, <1>24 DEF WakeUp
<1>25. CASE Preempt(c)
  BY <1>0, <1>m, <1>25 DEF Preempt, ControlFlow, OnUserBehalf
<1>26. ASSUME NEW o \in UserOps, EnterKernel(c, o) PROVE LocksAreAccounted'
  BY <1>0, <1>m, <1>26 DEF EnterKernel, ControlFlow, OnUserBehalf
<1>27. CASE CreateDuplicatesBase(c)
  BY <1>0, <1>m, <1>27 DEF CreateDuplicatesBase
<1>28. CASE KernelFree(c)
  BY <1>28 DEF KernelFree
<1> QED
  BY <1>1, <1>2, <1>3, <1>4, <1>5, <1>6, <1>7, <1>8, <1>9, <1>10, <1>11,
     <1>12, <1>30, <1>13, <1>14, <1>15, <1>16, <1>17, <1>18, <1>19, <1>20,
     <1>21, <1>22, <1>23, <1>24, <1>25, <1>26, <1>27, <1>28
  DEF CpuStep, KernelStep, TimerTick

\* A CPU on behalf of a user program has its page tables loaded.
LEMMA StepKeepsUserLoaded ==
  ASSUME "free" \notin KernelOps, ControlInv, TokenInv, UserInv,
         NEW c \in Cpus, CpuStep(c)
  PROVE  UserIsLoaded'
<1> USE CpuAssumption, RootAssumption, NoneAssumption, OpsAssumption
    DEF At, Goto, Handles, tableVars, lockVars, localVars, SlotOf, UnlockProcess
<1>0. SchedulingTypeOK /\ ControlFlow /\ UserIsLoaded
  BY DEF ControlInv, UserInv
<1>l. \A d \in Cpus : pid[d] \in Pid /\ Holds(d, pid[d]) => Found(pid[d])
  BY FoundIsLive DEF ControlInv, UserInv, TokensAreLive
<1>m. \A d \in Cpus : HasPid(d) => pid[d] \in Pid /\ pid[d].slot \in Slots
  BY DEF ControlInv, ControlFlow, Pid
<1>n. \A d \in Cpus : HasPid(c) /\ Holds(c, pid[c]) /\ OnUserBehalf(d) /\ SlotOf(c) = SlotOf(d) => c = d
  BY <1>0, <1>m, OneCpuPerSlot DEF TokenInv, UserInv, OnUserBehalf, HasPid, Holds
<1> USE DEF SchedulingTypeOK, UserIsLoaded, OnUserBehalf, HasPid, AllUserOps
<1> HIDE DEF TableTypeOK
<1>1. CASE Dequeue(c)
  BY <1>0, <1>m, <1>1 DEF Dequeue
<1>2. CASE NothingToDo(c)
  BY <1>0, <1>m, <1>2 DEF NothingToDo
<1>3. CASE GetLocksTable(c)
  BY <1>0, <1>m, <1>3 DEF GetLocksTable
<1>4. CASE GetFindsProcess(c)
  BY <1>0, <1>m, <1>4 DEF GetFindsProcess, ControlFlow
<1>5. CASE GetFindsNothing(c)
  BY <1>l, <1>m, <1>5 DEF GetFindsNothing, Holds
<1>6. CASE EnterUserMode(c)
  BY <1>0, <1>m, <1>n, <1>6 DEF EnterUserMode, Holds
<1>7. CASE LeaveUserMode(c)
  BY <1>0, <1>m, <1>7 DEF LeaveUserMode
<1>8. CASE StackAssertionFails(c)
  BY <1>0, <1>m, <1>8 DEF StackAssertionFails
<1>9. CASE SaveContext(c)
  BY <1>0, <1>m, <1>n, <1>9 DEF SaveContext, Holds
<1>10. CASE EnqueueProcess(c)
  BY <1>0, <1>m, <1>10 DEF EnqueueProcess
<1>11. CASE Return(c)
  BY <1>0, <1>m, <1>11 DEF Return
<1>12. CASE ReturnUnknown(c)
  BY <1>0, <1>m, <1>12 DEF ReturnUnknown
<1>30. CASE LogValuePanics(c)
  BY <1>0, <1>m, <1>30 DEF LogValuePanics
<1>13. CASE Exit(c)
  BY <1>0, <1>m, <1>13 DEF Exit
<1>14. CASE YieldEnqueues(c)
  BY <1>0, <1>m, <1>14 DEF YieldEnqueues
<1>15. CASE YieldLeaves(c)
  BY <1>0, <1>m, <1>15 DEF YieldLeaves
<1>16. CASE FatalTrap(c)
  BY <1>0, <1>m, <1>16 DEF FatalTrap
<1>17. CASE FreeLocksTable(c)
  BY <1>0, <1>m, <1>17 DEF FreeLocksTable
<1>18. CASE FreeProcess(c)
  BY <1>0, <1>m, <1>18 DEF FreeProcess, DropAddressSpace, AfterFree
<1>19. CASE FreeFindsNothing(c)
  BY <1>0, <1>m, <1>19 DEF FreeFindsNothing, AfterFree
<1>20. CASE CreateInitializes(c)
  BY <1>0, <1>m, <1>20 DEF CreateInitializes
<1>21. CASE CreateReturnsToBase(c)
  BY <1>0, <1>m, <1>21 DEF CreateReturnsToBase
<1>22. CASE CreateAllocates(c)
  <2>1. free.slot \in Slots /\ ~IsUsed(free.slot)
    BY <1>22, HeadIsFree DEF CreateAllocates, Allocate, ControlInv
  <2>2. \A d \in Cpus : OnUserBehalf(d) => SlotOf(d) # free.slot
    BY <1>0, <1>l, <1>m, <2>1 DEF Holds, Found
  <2> QED
    BY <1>0, <1>m, <1>22, <2>1, <2>2 DEF CreateAllocates
<1>23. CASE CreateRefused(c)
  BY <1>0, <1>m, <1>23 DEF CreateRefused
<1>24. CASE WakeUp(c)
  BY <1>0, <1>m, <1>24 DEF WakeUp
<1>25. CASE Preempt(c)
  BY <1>0, <1>m, <1>25 DEF Preempt, ControlFlow
<1>26. ASSUME NEW o \in UserOps, EnterKernel(c, o) PROVE UserIsLoaded'
  BY <1>0, <1>m, <1>26 DEF EnterKernel, ControlFlow
<1>27. CASE CreateDuplicatesBase(c)
  BY <1>0, <1>m, <1>27 DEF CreateDuplicatesBase
<1>28. CASE KernelFree(c)
  BY <1>28 DEF KernelFree
<1> QED
  BY <1>1, <1>2, <1>3, <1>4, <1>5, <1>6, <1>7, <1>8, <1>9, <1>10, <1>11,
     <1>12, <1>30, <1>13, <1>14, <1>15, <1>16, <1>17, <1>18, <1>19, <1>20,
     <1>21, <1>22, <1>23, <1>24, <1>25, <1>26, <1>27, <1>28
  DEF CpuStep, KernelStep, TimerTick

\* Only the fatal trap of a user program panics.
LEMMA StepKeepsCalm ==
  ASSUME "free" \notin KernelOps, ControlInv, TokenInv, UserInv,
         NEW c \in Cpus, CpuStep(c)
  PROVE  NeverKernelFree' /\ NoPanic'
<1> USE CpuAssumption, RootAssumption, NoneAssumption, OpsAssumption
    DEF At, Goto, Handles, tableVars, lockVars, localVars, SlotOf, UnlockProcess
<1>0. SchedulingTypeOK /\ ControlFlow /\ NeverKernelFree /\ NoPanic
  BY DEF ControlInv, UserInv
<1>l. \A d \in Cpus : pid[d] \in Pid /\ Holds(d, pid[d]) => Found(pid[d])
  BY FoundIsLive DEF ControlInv, UserInv, TokensAreLive
<1>m. \A d \in Cpus : HasPid(d) => pid[d] \in Pid /\ pid[d].slot \in Slots
  BY DEF ControlInv, ControlFlow, Pid
<1> USE DEF SchedulingTypeOK, NeverKernelFree, NoPanic, HasPid, AllUserOps
<1> HIDE DEF TableTypeOK
<1>1. CASE Dequeue(c)
  BY <1>0, <1>1 DEF Dequeue
<1>2. CASE NothingToDo(c)
  BY <1>0, <1>2 DEF NothingToDo
<1>3. CASE GetLocksTable(c)
  BY <1>0, <1>3 DEF GetLocksTable
<1>4. CASE GetFindsProcess(c)
  BY <1>0, <1>4 DEF GetFindsProcess
<1>5. CASE GetFindsNothing(c)
  BY <1>l, <1>m, <1>5 DEF GetFindsNothing, Holds
<1>6. CASE EnterUserMode(c)
  BY <1>0, <1>6 DEF EnterUserMode
<1>7. CASE LeaveUserMode(c)
  BY <1>0, <1>7 DEF LeaveUserMode
<1>8. CASE StackAssertionFails(c)
  BY <1>0, <1>8 DEF StackAssertionFails, ControlFlow
<1>9. CASE SaveContext(c)
  BY <1>0, <1>9 DEF SaveContext
<1>10. CASE EnqueueProcess(c)
  BY <1>0, <1>10 DEF EnqueueProcess
<1>11. CASE Return(c)
  BY <1>0, <1>11 DEF Return
<1>12. CASE ReturnUnknown(c)
  BY <1>0, <1>12 DEF ReturnUnknown
<1>30. CASE LogValuePanics(c)
  BY <1>0, <1>30 DEF LogValuePanics
<1>13. CASE Exit(c)
  BY <1>0, <1>13 DEF Exit
<1>14. CASE YieldEnqueues(c)
  BY <1>0, <1>14 DEF YieldEnqueues
<1>15. CASE YieldLeaves(c)
  BY <1>0, <1>15 DEF YieldLeaves
<1>16. CASE FatalTrap(c)
  BY <1>0, <1>16 DEF FatalTrap
<1>17. CASE FreeLocksTable(c)
  BY <1>0, <1>17 DEF FreeLocksTable
<1>18. CASE FreeProcess(c)
  BY <1>0, <1>18 DEF FreeProcess, DropAddressSpace, AfterFree
<1>19. CASE FreeFindsNothing(c)
  BY <1>0, <1>l, <1>m, <1>19 DEF FreeFindsNothing, Holds
<1>20. CASE CreateInitializes(c)
  BY <1>0, <1>20 DEF CreateInitializes
<1>21. CASE CreateReturnsToBase(c)
  BY <1>0, <1>21 DEF CreateReturnsToBase
<1>22. CASE CreateAllocates(c)
  BY <1>0, <1>22 DEF CreateAllocates
<1>23. CASE CreateRefused(c)
  BY <1>0, <1>23 DEF CreateRefused
<1>24. CASE WakeUp(c)
  BY <1>0, <1>24 DEF WakeUp
<1>25. CASE Preempt(c)
  BY <1>0, <1>25 DEF Preempt
<1>26. ASSUME NEW o \in UserOps, EnterKernel(c, o) PROVE NeverKernelFree' /\ NoPanic'
  BY <1>0, <1>26 DEF EnterKernel
<1>27. CASE CreateDuplicatesBase(c)
  BY <1>0, <1>27 DEF CreateDuplicatesBase
<1>28. CASE KernelFree(c)
  BY <1>28 DEF KernelFree
<1> QED
  BY <1>1, <1>2, <1>3, <1>4, <1>5, <1>6, <1>7, <1>8, <1>9, <1>10, <1>11,
     <1>12, <1>30, <1>13, <1>14, <1>15, <1>16, <1>17, <1>18, <1>19, <1>20,
     <1>21, <1>22, <1>23, <1>24, <1>25, <1>26, <1>27, <1>28
  DEF CpuStep, KernelStep, TimerTick

\* Every step keeps what user mode relies on, unless the kernel destroys processes itself.
LEMMA StepPreservesUser ==
  ASSUME "free" \notin KernelOps
  PROVE  ControlInv /\ TokenInv /\ UserInv /\ [Next]_vars => UserInv'
<1> SUFFICES ASSUME ControlInv, TokenInv, UserInv, [Next]_vars PROVE UserInv'
  OBVIOUS
<1>1. ASSUME NEW c \in Cpus, CpuStep(c) PROVE UserInv'
  BY <1>1, StepKeepsTokensLive, StepKeepsLocksAccounted, StepKeepsUserLoaded,
     StepKeepsCalm DEF UserInv
<1>2. CASE UNCHANGED vars
  <2>1. TokensAreLive'
    BY <1>2, SameTableSameIds DEF vars, UserInv, TokensAreLive, InQueue, Holds
  <2>2. LocksAreAccounted' /\ UserIsLoaded' /\ NeverKernelFree' /\ NoPanic'
    BY <1>2 DEF vars, UserInv, LocksAreAccounted, MayOwnProcess, SlotOf, UserIsLoaded,
       OnUserBehalf, NeverKernelFree, NoPanic
  <2> QED
    BY <2>1, <2>2 DEF UserInv
<1> QED
  BY <1>1, <1>2 DEF Next, CpuStep

\* Nothing is in user mode at the start.
LEMMA InitEstablishesUser == Init => UserInv
<1> SUFFICES ASSUME Init PROVE UserInv
  OBVIOUS
<1>1. TokensAreLive
  BY DEF Init, TokensAreLive, InQueue, Holds
<1>2. LocksAreAccounted
  BY CpuAssumption DEF Init, LocksAreAccounted
<1>3. UserIsLoaded /\ NeverKernelFree /\ NoPanic
  BY DEF Init, UserIsLoaded, OnUserBehalf, NeverKernelFree, NoPanic
<1> QED
  BY <1>1, <1>2, <1>3 DEF UserInv

\* The inductive invariant of user mode: every token is of a live process, every lock has an owner
\* that is on its way to release it, and user code runs with its own process loaded.
THEOREM UserInvariance ==
  ASSUME "free" \notin KernelOps
  PROVE  Spec => []UserInv
  BY InitEstablishesUser, StepPreservesUser, ControlInvariance, TokenInvariance, PTL
  DEF Spec

\* Unless the kernel destroys processes behind their backs, only two of the
\* assertions, expect() and unwrap() of the scheduler, the system calls and the
\* traps ever fail: the one about the stack, after a fatal trap, and the one in
\* Block::enclosing(), in a log_value() of a block that ends with the lower half.
\* A program that makes neither never makes the kernel panic.
THEOREM NeverPanics ==
  ASSUME "free" \notin KernelOps
  PROVE  Spec => []NoPanic
<1>1. UserInv => NoPanic
  BY DEF UserInv
<1> QED
  BY <1>1, UserInvariance, PTL

\* User code runs only as its own process, on its own page tables and without
\* kernel locks, but for the one that an unknown system call leaks.
THEOREM UserModeAlwaysClean ==
  ASSUME "free" \notin KernelOps
  PROVE  Spec => []UserModeIsClean
<1>1. ControlInv /\ UserInv => UserModeIsClean
  <2> SUFFICES ASSUME ControlInv, UserInv, NEW c \in Cpus, pc[c] = "user"
               PROVE  /\ Found(current_process[c]) /\ current_process[c] = pid[c]
                      /\ page_table_root[c] = pid[c]
                      /\ state[SlotOf(c)] = "Running"
                      /\ c \notin {table_lock, base_lock}
                      /\ \A s \in Slots : process_lock[s] = c => s = SlotOf(c) /\ op[c] = "unknown"
    BY DEF UserModeIsClean
  <2>1. pid[c] \in Pid /\ Holds(c, pid[c]) /\ current_process[c] = pid[c]
    BY DEF ControlInv, ControlFlow, HasPid, OnUserBehalf, Holds
  <2>2. Found(pid[c])
    BY <2>1, FoundIsLive DEF ControlInv, UserInv, TokensAreLive
  <2>3. page_table_root[c] = pid[c] /\ state[SlotOf(c)] = "Running"
    BY DEF UserInv, UserIsLoaded, OnUserBehalf
  <2>4. /\ c \notin {table_lock, base_lock}
        /\ \A s \in Slots : process_lock[s] = c => s = SlotOf(c) /\ op[c] = "unknown"
    BY DEF UserInv, LocksAreAccounted, MayOwnProcess
  <2> QED
    BY <2>1, <2>2, <2>3, <2>4
<1> QED
  BY <1>1, ControlInvariance, UserInvariance, PTL

\* CPUs never wait for each other in a circle: who owns BASE_ADDRESS_SPACE waits
\* for nobody, who owns a process waits at most for BASE_ADDRESS_SPACE, and who
\* owns TABLE at most for a process.  The exception is a CPU that waits for the
\* process lock that it has itself leaked in an unknown system call.
THEOREM NobodyEverWaitsInACircle ==
  ASSUME "free" \notin KernelOps
  PROVE  Spec => []NobodyWaitsInACircle
<1>1. ControlInv /\ TokenInv /\ UserInv => NobodyWaitsInACircle
  <2> SUFFICES ASSUME ControlInv, TokenInv, UserInv,
                      NEW S \in SUBSET Cpus, S # {}, \A c \in S : Awaited(c) \in S
               PROVE  \E c \in S : Awaited(c) = c /\ pc[c] = "get_process" /\ "unknown" \in UserOps
    BY DEF NobodyWaitsInACircle
  <2> DEFINE WaitsForTable(c) == pc[c] \in {"get", "free", "allocate"}
             WaitsForProcess(c) == pc[c] \in {"get_process", "free_process"} /\ ~SlotIsUnlocked(c)
  <2>1. base_lock \notin S
    <3> SUFFICES ASSUME base_lock \in S PROVE FALSE
      OBVIOUS
    <3>1. pc[base_lock] = "create"
      BY DEF UserInv, LocksAreAccounted
    <3>2. Awaited(base_lock) = None
      BY <3>1 DEF Awaited, Handles, At
    <3> QED
      BY <3>2, CpuAssumption
  <2>2. ASSUME NEW c \in S PROVE WaitsForTable(c) \/ WaitsForProcess(c)
    <3>1. Awaited(c) \in S /\ Awaited(c) # None
      BY CpuAssumption
    <3> QED
      BY <2>1, <3>1 DEF Awaited
  <2>3. PICK t \in S : WaitsForProcess(t)
    <3>1. PICK c \in S : TRUE
      OBVIOUS
    <3>2. CASE WaitsForProcess(c)
      BY <3>2
    <3>3. CASE WaitsForTable(c)
      <4>1. table_lock \in S
        BY <3>3 DEF Awaited, Handles, At
      <4>2. pc[table_lock] \in {"get_process", "free_process"}
        BY <4>1 DEF UserInv, LocksAreAccounted
      <4> QED
        BY <2>2, <4>1, <4>2
    <3> QED
      BY <2>2, <3>2, <3>3
  <2>4. PICK d \in S : d = process_lock[SlotOf(t)] /\ Awaited(t) = d
    BY <2>3 DEF Awaited, Handles, At
  <2>5. pid[t] \in Pid /\ SlotOf(t) \in Slots
    BY <2>3 DEF ControlInv, ControlFlow, HasPid, SlotOf, Pid
  <2>6. MayOwnProcess(d) /\ SlotOf(d) = SlotOf(t)
    BY <2>4, <2>5 DEF UserInv, LocksAreAccounted
  <2>7. pc[d] \in {"get", "get_process"} /\ "unknown" \in UserOps
    BY <2>2, <2>6 DEF MayOwnProcess
  <2>8. Holds(t, pid[t]) /\ Holds(d, pid[d]) /\ pid[d] \in Pid
    BY <2>3, <2>7 DEF Holds, ControlInv, ControlFlow, HasPid, UserInv, NeverKernelFree
  <2>9. d = t
    BY <2>5, <2>6, <2>8, OneCpuPerSlot DEF TokenInv, UserInv
  <2> QED
    BY <2>3, <2>4, <2>7, <2>9
<1> QED
  BY <1>1, ControlInvariance, TokenInvariance, UserInvariance, PTL

\* On a single CPU nobody else can destroy the process whose page tables are
\* loaded: exit() and the drop of an address space switch to the base first.
\* (A fatal trap or the kernel destroying the loaded process is included.)
LEMMA StepKeepsRootLive ==
  ASSUME Cpus = {BootCpu}, ControlInv, LoadedRootIsLive, NEW c \in Cpus, CpuStep(c)
  PROVE  LoadedRootIsLive'
<1> USE CpuAssumption, RootAssumption, NoneAssumption, OpsAssumption
    DEF At, Goto, Handles, tableVars, lockVars, localVars, SlotOf, UnlockProcess
<1>0. SchedulingTypeOK /\ LocksProtect /\ LoadedRootIsLive
  BY DEF ControlInv
<1>a. \A p \in Pid : Found(p) /\ ~At(c, "free_process") => Found(p)'
  BY LockedStaysFound
<1> USE DEF SchedulingTypeOK, LoadedRootIsLive, LocksProtect
<1> HIDE DEF TableTypeOK
<1>1. CASE Dequeue(c)
  BY <1>0, <1>a, <1>1 DEF Dequeue
<1>2. CASE NothingToDo(c)
  BY <1>0, <1>a, <1>2 DEF NothingToDo
<1>3. CASE GetLocksTable(c)
  BY <1>0, <1>a, <1>3 DEF GetLocksTable
<1>4. CASE GetFindsProcess(c)
  BY <1>0, <1>a, <1>4 DEF GetFindsProcess
<1>5. CASE GetFindsNothing(c)
  BY <1>0, <1>a, <1>5 DEF GetFindsNothing
<1>6. CASE EnterUserMode(c)
  BY <1>0, <1>a, <1>6 DEF EnterUserMode
<1>7. CASE LeaveUserMode(c)
  BY <1>0, <1>a, <1>7 DEF LeaveUserMode
<1>8. CASE StackAssertionFails(c)
  BY <1>0, <1>a, <1>8 DEF StackAssertionFails
<1>9. CASE SaveContext(c)
  BY <1>0, <1>a, <1>9 DEF SaveContext
<1>10. CASE EnqueueProcess(c)
  BY <1>0, <1>a, <1>10 DEF EnqueueProcess
<1>11. CASE Return(c)
  BY <1>0, <1>a, <1>11 DEF Return
<1>12. CASE ReturnUnknown(c)
  BY <1>0, <1>a, <1>12 DEF ReturnUnknown
<1>30. CASE LogValuePanics(c)
  BY <1>0, <1>a, <1>30 DEF LogValuePanics
<1>13. CASE Exit(c)
  BY <1>0, <1>a, <1>13 DEF Exit
<1>14. CASE YieldEnqueues(c)
  BY <1>0, <1>a, <1>14 DEF YieldEnqueues
<1>15. CASE YieldLeaves(c)
  BY <1>0, <1>a, <1>15 DEF YieldLeaves
<1>16. CASE FatalTrap(c)
  BY <1>0, <1>a, <1>16 DEF FatalTrap
<1>17. CASE FreeLocksTable(c)
  BY <1>0, <1>a, <1>17 DEF FreeLocksTable
<1>18. CASE FreeProcess(c)
  <2>1. pid[c] \in Pid /\ c = BootCpu
    BY <1>18 DEF FreeProcess, ControlInv, ControlFlow, HasPid
  <2>2. Free(pid[c]) /\ table \in [Slots -> Slot]
    BY <1>18 DEF FreeProcess, ControlInv, TableInv, TableTypeOK
  <2>3. \A p \in Pid : Found(p) /\ p # pid[c] => Found(p)'
    BY <2>1, <2>2 DEF Free, Found, IsUsed, Pid
  <2> QED
    BY <1>0, <1>18, <2>1, <2>3 DEF FreeProcess, DropAddressSpace
<1>19. CASE FreeFindsNothing(c)
  BY <1>0, <1>19 DEF FreeFindsNothing, Found, IsUsed
<1>20. CASE CreateInitializes(c)
  BY <1>0, <1>a, <1>20 DEF CreateInitializes
<1>21. CASE CreateReturnsToBase(c)
  BY <1>0, <1>a, <1>21 DEF CreateReturnsToBase
<1>22. CASE CreateAllocates(c)
  BY <1>0, <1>a, <1>22 DEF CreateAllocates
<1>23. CASE CreateRefused(c)
  BY <1>0, <1>a, <1>23 DEF CreateRefused
<1>24. CASE WakeUp(c)
  BY <1>0, <1>a, <1>24 DEF WakeUp
<1>25. CASE Preempt(c)
  BY <1>0, <1>a, <1>25 DEF Preempt
<1>26. ASSUME NEW o \in UserOps, EnterKernel(c, o) PROVE LoadedRootIsLive'
  BY <1>0, <1>a, <1>26 DEF EnterKernel
<1>27. CASE CreateDuplicatesBase(c)
  BY <1>0, <1>a, <1>27 DEF CreateDuplicatesBase
<1>28. CASE KernelFree(c)
  BY <1>0, <1>a, <1>28 DEF KernelFree
<1> QED
  BY <1>1, <1>2, <1>3, <1>4, <1>5, <1>6, <1>7, <1>8, <1>9, <1>10, <1>11,
     <1>12, <1>30, <1>13, <1>14, <1>15, <1>16, <1>17, <1>18, <1>19, <1>20,
     <1>21, <1>22, <1>23, <1>24, <1>25, <1>26, <1>27, <1>28
  DEF CpuStep, KernelStep, TimerTick

\* A single CPU never works on the page tables of a destroyed process.  (Two
\* CPUs do not have this guarantee against a kernel that destroys the process
\* which the other one executes.)
THEOREM LoadedRootAlwaysLive ==
  ASSUME Cpus = {BootCpu}
  PROVE  Spec => []LoadedRootIsLive
<1>1. Init => LoadedRootIsLive
  BY RootAssumption DEF Init, LoadedRootIsLive
<1>2. ControlInv /\ LoadedRootIsLive /\ [Next]_vars => LoadedRootIsLive'
  <2> SUFFICES ASSUME ControlInv, LoadedRootIsLive, [Next]_vars PROVE LoadedRootIsLive'
    OBVIOUS
  <2>1. ASSUME NEW c \in Cpus, CpuStep(c) PROVE LoadedRootIsLive'
    BY <2>1, StepKeepsRootLive
  <2>2. CASE UNCHANGED vars
    BY <2>2 DEF vars, LoadedRootIsLive, Found, IsUsed
  <2> QED
    BY <2>1, <2>2 DEF Next, CpuStep
<1> QED
  BY <1>1, <1>2, ControlInvariance, PTL DEF Spec
=============================================================================
