--------------------------- MODULE AllocatorInfo ---------------------------
(***************************************************************************)
(* The statistics of the heap, ku/src/allocator/info.rs, as Dispatcher     *)
(* (ku/src/allocator/dispatcher.rs) counts them: the atomic Infos `info`   *)
(* and `fallback_info`, each under a sequence counter, and the plain Info  *)
(* of every size class, under the lock of its FixedSizeAllocator.          *)
(*                                                                         *)
(* A call of the allocator takes its memory and leaves the rest of its     *)
(* body as a program, a sequence of steps that interleave with the other   *)
(* CPUs: one atomic addition, one critical section over a plain Info, a    *)
(* lock, an unlock, or giving memory back.  Memory is only counted here    *)
(* (module Heap has the blocks): free blocks per class, wherever they are, *)
(* and pages of the fallback.                                              *)
(***************************************************************************)
EXTENDS Integers, FiniteSets, FiniteSetsExt, SequencesExt

CONSTANTS StatCpus,
          Layouts,        \* records [size, align]
          StatPageSize,   \* Page::SIZE
          MinSize,        \* MIN_SIZE
          FixedSizeCount, \* FIXED_SIZE_COUNT
          StatPages,      \* pages the fallback has
          MaxAllocations, \* bound on the allocations of a behaviour, less the loads to come
          MaxLoads        \* bound on the loads of a behaviour

ASSUME StatConstants ==
    /\ StatCpus \subseteq Nat \ {0}
    /\ {StatPageSize, MinSize, FixedSizeCount, MaxAllocations} \subseteq Nat \ {0}
    /\ \A l \in Layouts : l.size > 0 /\ l.align > 0

VARIABLES stats,     \* per Info: its counters
          program,   \* per CPU: what the running call has still to do
          returns,   \* per CPU: the block the call will return, <<>> or <<layout>>
          holder,    \* per class: the CPU that has its lock, or Nobody
          freeBlocks, \* per class
          freePages,
          live,      \* layouts of the blocks that have been returned
          load       \* AtomicInfo::load() of a reader: [of, pc, sequence, got, alone, budget]

statVars == <<stats, program, returns, holder, freeBlocks, freePages, live, load>>

Nobody == 0
Total == -1
Fallback == 0
Quantities == <<"allocated", "allocations", "pages", "requested">>
Sequence == <<"sequence", "+">>
Counters == Range(Quantities) \X {"+", "-"}
Fields == Counters \cup {Sequence}
Classes == 1 .. FixedSizeCount
Atomics == {Total, Fallback}

\* Counter::balance() and is_valid(), Info::is_valid().
Balance(info, quantity) == info[quantity, "+"] - info[quantity, "-"]
IsValidInfo(info) ==
    /\ \A q \in Range(Quantities) : Balance(info, q) >= 0
    /\ Balance(info, "requested") <= Balance(info, "allocated")
    /\ info["requested", "-"] <= info["allocated", "-"]
    /\ Balance(info, "allocated") <= Balance(info, "pages") * StatPageSize

\* AddAssign and Sub of Info; the difference is an error when a counter of it would be negative.
SumInfo(a, b) == [f \in Fields |-> a[f] + b[f]]
NewInfo == [f \in Fields |-> 0]
InfoDifference(a, b) ==
    IF \A f \in Counters : b[f] <= a[f] THEN <<[f \in Fields |-> a[f] - b[f]]>> ELSE <<>>

NextMultipleOf(n, m) == ((n + m - 1) \div m) * m

\* Dispatcher::get_fixed_size_index(), from 1; 0 is the fallback.
FixedSizeIndex(l) ==
    LET size == NextMultipleOf(l.size, MinSize)
        align == NextMultipleOf(l.align, MinSize)
        required == NextMultipleOf(Max({size, align}), align)
    IN  IF required % StatPageSize = 0 \/ required > FixedSizeCount * MinSize THEN 0
        ELSE required \div MinSize

ClassSize(index) == index * MinSize
BlocksInPage(index) == StatPageSize \div ClassSize(index)
FallbackPages(l) == NextMultipleOf(l.size, StatPageSize) \div StatPageSize

\* The steps of a program.
Adding(at, delta) == [op |-> "add", at |-> at, delta |-> delta]
Lock(index) == [op |-> "lock", at |-> index, delta |-> NewInfo]
Unlock(index) == [op |-> "unlock", at |-> index, delta |-> NewInfo]
PutBlocks(index, count) == [op |-> "put", at |-> index, delta |-> [NewInfo EXCEPT ![Sequence] = count]]

Only(field, n) == [NewInfo EXCEPT ![field] = n]
Counting(sign, requested, allocated, pages) ==
    [NewInfo EXCEPT !["allocated", sign] = allocated, !["allocations", sign] = 1,
                    !["pages", sign] = pages, !["requested", sign] = requested]

\* AtomicInfo::allocation() and deallocation(), pages_allocation(): one addition at a time
\* between the two increments of the sequence.
AtomicAdditions(at, delta) ==
    LET changed == SelectSeq(Quantities, LAMBDA q : delta[q, "+"] + delta[q, "-"] > 0)
        sign(q) == IF delta[q, "+"] > 0 THEN "+" ELSE "-"
        one(i) == Adding(at, Only(<<changed[i], sign(changed[i])>>, delta[changed[i], sign(changed[i])]))
        turn == <<Adding(at, Only(Sequence, 1))>>
    IN  turn \o [i \in DOMAIN changed |-> one(i)] \o turn

\* The plain Info of the class and then the total one, under the class lock.
CountFixed(index, sign, l) ==
    LET delta == Counting(sign, l.size, ClassSize(index), 0) IN
    <<Adding(index, delta)>> \o AtomicAdditions(Total, delta)

\* update_fallback_info()
CountFallback(sign, l) ==
    LET delta == Counting(sign, l.size, FallbackPages(l) * StatPageSize, FallbackPages(l)) IN
    AtomicAdditions(Fallback, delta) \o AtomicAdditions(Total, delta)

\* fixed_size_deallocate(), or deallocate() of the fallback and its statistics: the memory is
\* given back before it is counted.
FreeSteps(l) ==
    LET index == FixedSizeIndex(l) IN
    IF index # 0
    THEN <<PutBlocks(index, 1), Lock(index)>> \o CountFixed(index, "-", l) \o <<Unlock(index)>>
    ELSE <<PutBlocks(0, FallbackPages(l))>> \o CountFallback("-", l)

NoLoad(budget) == [of |-> Total, pc |-> 0, sequence |-> 0, got |-> NewInfo, alone |-> TRUE, budget |-> budget]

StatInit ==
    /\ stats = [i \in Atomics \cup Classes |-> NewInfo]
    /\ program = [cpu \in StatCpus |-> <<>>]
    /\ returns = [cpu \in StatCpus |-> <<>>]
    /\ holder = [c \in Classes |-> Nobody]
    /\ freeBlocks = [c \in Classes |-> 0]
    /\ freePages = StatPages
    /\ live = <<>>
    /\ \E budget \in 0 .. MaxLoads : load = NoLoad(budget)

Begins(cpu, steps) == program' = [program EXCEPT ![cpu] = steps]
WillReturn(cpu, block) == returns' = [returns EXCEPT ![cpu] = block]
Calls(cpu) ==
    /\ program[cpu] = <<>>
    /\ stats[Total]["allocations", "+"] + Cardinality({c \in StatCpus : program[c] # <<>>}) < MaxAllocations - load.budget
    /\ UNCHANGED <<stats, load>>

\* alloc() and alloc_zeroed() take the memory of layout l; `after` follows their statistics.
TakeCached(cpu, l, after) ==
    LET index == FixedSizeIndex(l) IN
    /\ index # 0 /\ freeBlocks[index] > 0
    /\ freeBlocks' = [freeBlocks EXCEPT ![index] = @ - 1]
    /\ Begins(cpu, <<Lock(index)>> \o CountFixed(index, "+", l) \o <<Unlock(index)>> \o after)
    /\ UNCHANGED <<holder, freePages>>

\* The slow path: stock_up() under the lock counts a page before anybody may take its blocks.
StockUpSteps(index) ==
    <<Adding(index, Only(<<"pages", "+">>, 1))>> \o AtomicAdditions(Total, Only(<<"pages", "+">>, 1))
        \o <<PutBlocks(index, BlocksInPage(index) - 1)>>
TakeStocked(cpu, l, after) ==
    LET index == FixedSizeIndex(l) IN
    /\ index # 0 /\ freeBlocks[index] = 0 /\ holder[index] = Nobody /\ freePages > 0
    /\ freePages' = freePages - 1
    /\ holder' = [holder EXCEPT ![index] = cpu]
    /\ Begins(cpu, StockUpSteps(index) \o CountFixed(index, "+", l) \o <<Unlock(index)>> \o after)
    /\ UNCHANGED freeBlocks

TakeFallback(cpu, l, after) ==
    /\ FixedSizeIndex(l) = 0 /\ FallbackPages(l) <= freePages
    /\ freePages' = freePages - FallbackPages(l)
    /\ Begins(cpu, CountFallback("+", l) \o after)
    /\ UNCHANGED <<holder, freeBlocks>>

Takes(cpu, l, after) == TakeCached(cpu, l, after) \/ TakeStocked(cpu, l, after) \/ TakeFallback(cpu, l, after)

Alloc(cpu, l) ==
    /\ Calls(cpu)
    /\ Takes(cpu, l, <<>>)
    /\ WillReturn(cpu, <<l>>)
    /\ UNCHANGED live

Dealloc(cpu, i) ==
    /\ Calls(cpu)
    /\ Begins(cpu, FreeSteps(live[i]))
    /\ live' = RemoveAt(live, i)
    /\ UNCHANGED <<returns, holder, freeBlocks, freePages>>

\* realloc() to another layout: in place within a class, by grow() or shrink() of the fallback,
\* or by allocating, copying and freeing.  A failure leaves everything as it was.
ReallocInClass(cpu, old, new) ==
    LET index == FixedSizeIndex(old)
        was == Counting("-", old.size, ClassSize(index), 0)
        is == Counting("+", new.size, ClassSize(index), 0)
    IN  /\ index # 0 /\ FixedSizeIndex(new) = index
        /\ Begins(cpu, <<Lock(index), Adding(index, was), Adding(index, is)>> \o
                       AtomicAdditions(Total, was) \o AtomicAdditions(Total, is) \o <<Unlock(index)>>)
        /\ UNCHANGED <<holder, freeBlocks, freePages>>

ReallocFallback(cpu, old, new) ==
    /\ FixedSizeIndex(old) = 0 /\ FixedSizeIndex(new) = 0
    /\ FallbackPages(new) - FallbackPages(old) <= freePages
    /\ freePages' = freePages - (FallbackPages(new) - FallbackPages(old))
    /\ Begins(cpu, CountFallback("+", new) \o CountFallback("-", old))
    /\ UNCHANGED <<holder, freeBlocks>>

ReallocMoves(cpu, old, new) ==
    /\ FixedSizeIndex(old) # FixedSizeIndex(new)
    /\ Takes(cpu, new, FreeSteps(old))

Realloc(cpu, i, size) ==
    LET new == [live[i] EXCEPT !.size = size] IN
    /\ Calls(cpu)
    /\ \/ ReallocInClass(cpu, live[i], new)
       \/ ReallocFallback(cpu, live[i], new)
       \/ ReallocMoves(cpu, live[i], new)
    /\ live' = RemoveAt(live, i)
    /\ WillReturn(cpu, <<new>>)

\* One step of the program of a call.
StepIs(cpu, op) == program[cpu] # <<>> /\ Head(program[cpu]).op = op
Advance(cpu) ==
    /\ program' = [program EXCEPT ![cpu] = Tail(@)]
    /\ IF Len(program[cpu]) = 1
       THEN live' = live \o returns[cpu] /\ WillReturn(cpu, <<>>)
       ELSE UNCHANGED <<live, returns>>

\* A CPU is inside an update of an AtomicInfo when the second increment of its sequence is left.
Updating(at, steps) ==
    Len(SelectSeq(steps, LAMBDA step : step = Adding(at, Only(Sequence, 1)))) % 2 = 1
Overlap(at, programs) == Cardinality({cpu \in StatCpus : Updating(at, programs[cpu])}) > 1

Add(cpu) ==
    /\ StepIs(cpu, "add")
    /\ LET step == Head(program[cpu]) IN stats' = [stats EXCEPT ![step.at] = SumInfo(@, step.delta)]
    /\ Advance(cpu)
    /\ load' = [load EXCEPT !.alone = @ /\ ~Overlap(load.of, program')]
    /\ UNCHANGED <<holder, freeBlocks, freePages>>

AcquireClass(cpu) ==
    /\ StepIs(cpu, "lock")
    /\ LET index == Head(program[cpu]).at IN
       /\ holder[index] = Nobody
       /\ holder' = [holder EXCEPT ![index] = cpu]
    /\ Advance(cpu)
    /\ UNCHANGED <<stats, freeBlocks, freePages, load>>

ReleaseClass(cpu) ==
    /\ StepIs(cpu, "unlock")
    /\ holder' = [holder EXCEPT ![Head(program[cpu]).at] = Nobody]
    /\ Advance(cpu)
    /\ UNCHANGED <<stats, freeBlocks, freePages, load>>

Put(cpu) ==
    /\ StepIs(cpu, "put")
    /\ LET index == Head(program[cpu]).at  count == Head(program[cpu]).delta[Sequence] IN
       IF index = 0
       THEN freePages' = freePages + count /\ UNCHANGED freeBlocks
       ELSE freeBlocks' = [freeBlocks EXCEPT ![index] = @ + count] /\ UNCHANGED freePages
    /\ Advance(cpu)
    /\ UNCHANGED <<stats, holder, load>>

\* AtomicInfo::load(): wait for an even sequence, read every counter, compare the sequence.
ReadOrder == [i \in 1 .. 8 |-> <<Quantities[(i + 1) \div 2], IF i % 2 = 1 THEN "+" ELSE "-">>]

LoadBegins(at) ==
    /\ load.pc = 0 /\ load.budget > 0
    /\ stats[at][Sequence] % 2 = 0
    /\ load' = [of |-> at, pc |-> 1, sequence |-> stats[at][Sequence], got |-> NewInfo,
                alone |-> ~Overlap(at, program), budget |-> load.budget]

LoadReads ==
    /\ load.pc \in 1 .. 8
    /\ load' = [load EXCEPT !.pc = @ + 1, !.got[ReadOrder[load.pc]] = stats[load.of][ReadOrder[load.pc]]]

\* A changed sequence starts the loop again, once it is even.
LoadAgain ==
    /\ load.pc = 9 /\ stats[load.of][Sequence] # load.sequence
    /\ load' = NoLoad(load.budget)

LoadEndsUnchecked == load.pc = 9 /\ load' = NoLoad(load.budget - 1)
LoadEnds ==
    /\ load.pc = 9 /\ stats[load.of][Sequence] = load.sequence
    /\ load' = NoLoad(load.budget - 1)

StatNext ==
    \/ \E cpu \in StatCpus :
         \/ \E l \in Layouts : Alloc(cpu, l)
         \/ \E i \in DOMAIN live : Dealloc(cpu, i) \/ \E l \in Layouts : Realloc(cpu, i, l.size)
         \/ Add(cpu) \/ AcquireClass(cpu) \/ ReleaseClass(cpu) \/ Put(cpu)
    \/ /\ (\E at \in Atomics : LoadBegins(at)) \/ LoadReads \/ LoadAgain \/ LoadEnds
       /\ UNCHANGED <<stats, program, returns, holder, freeBlocks, freePages, live>>

StatSpec == StatInit /\ [][StatNext]_statVars
-----------------------------------------------------------------------------
(* Properties *)

\* DetailedInfo::is_valid(), of a snapshot of all Infos.
DetailedInfoIsValid ==
    LET withoutFallback == InfoDifference(stats[Total], stats[Fallback])
        subtract(difference, c) ==
            IF difference = <<>> THEN <<>> ELSE InfoDifference(difference[1], stats[c])
        rest == FoldLeft(subtract, withoutFallback, [c \in Classes |-> c])
    IN  /\ \A i \in DOMAIN stats : IsValidInfo(stats[i])
        /\ rest # <<>> /\ \A f \in Counters : rest[1][f] = 0

SumOver(S, value(_)) == FoldSet(LAMBDA x, sum : value(x) + sum, 0, S)

\* Whenever no call is running, DetailedInfo::is_valid() holds, the balances of the total Info are
\* the live blocks, and its pages are the ones taken from the fallback, whatever interleaving,
\* reallocation and cached blocks led there.
StatisticsAddUp ==
    (\A cpu \in StatCpus : program[cpu] = <<>>) =>
        /\ DetailedInfoIsValid
        /\ Balance(stats[Total], "allocations") = Len(live)
        /\ Balance(stats[Total], "requested") = SumOver(DOMAIN live, LAMBDA i : live[i].size)
        /\ Balance(stats[Total], "pages") = StatPages - freePages
        /\ \A at \in Atomics : stats[at][Sequence] % 2 = 0
        /\ \A c \in Classes : holder[c] = Nobody

Loaded == load.pc = 9 /\ load'.budget < load.budget

\* A load() that no two overlapping updates met returns counters that all stood in the Info
\* together, between two updates.
LoadedInfoWasTheState ==
    [][ Loaded /\ load.alone => \A f \in Counters : load.got[f] = stats[load.of][f] ]_statVars

\* The assertion of AtomicInfo::load(): what it returns is valid.
LoadedInfoIsValid ==
    load.pc = 9 /\ stats[load.of][Sequence] = load.sequence => IsValidInfo(load.got)

\* The statistics add up when the heap is quiet, and AtomicInfo::load() returns a state they had.
StatisticsAreHonest == []StatisticsAddUp /\ LoadedInfoWasTheState
=============================================================================
