---------------------------- MODULE ProcessTable ----------------------------
(***************************************************************************)
(* kernel/src/process/table.rs and ku/src/process/pid.rs: the process      *)
(* table.  A slot is free or holds a process; the free slots form an       *)
(* intrusive singly linked list whose links are pids.  A slot remembers    *)
(* the epoch it will give to its next process, and Table::free() advances  *)
(* it, so that a pid is a slot plus the number of its previous tenants.    *)
(*                                                                         *)
(* Every operation runs under the TABLE spinlock and is one action here;   *)
(* the module Scheduling splits them at the nested process lock.           *)
(***************************************************************************)
EXTENDS Integers, FiniteSets

CONSTANTS SlotCount,   \* PROCESS_SLOT_COUNT
          MaxEpoch,    \* u32::MAX in the code
          None         \* Option::None

ASSUME SlotCountAssumption == SlotCount \in Nat
ASSUME MaxEpochAssumption == MaxEpoch \in Nat

Slots == 0 .. SlotCount - 1

\* Pid::Id { epoch, slot } for the slots of the table.
Pid == [slot : Slots, epoch : 0 .. MaxEpoch]

ASSUME NoneAssumption == None \notin Pid

VARIABLES free,            \* head of the list of free slots, Option<Pid>
          process_count,   \* number of used slots
          table,           \* the slots
          panicked         \* the kernel has panicked inside the table

tableVars == <<free, process_count, table, panicked>>

(***************************************************************************)
(* The two variants of enum Slot.  The pid of a used slot is the pid of    *)
(* its process.                                                            *)
(***************************************************************************)
FreeSlot(pid, next) == [kind |-> "Free", pid |-> pid, next |-> next]
UsedSlot(pid) == [kind |-> "Used", pid |-> pid]

Slot == [kind : {"Free"}, pid : Pid, next : Pid \cup {None}]
        \cup [kind : {"Used"}, pid : Pid]

IsUsed(s) == table[s].kind = "Used"

NewPid(slot) == [slot |-> slot, epoch |-> 0]

TableInit ==
    /\ table = [s \in Slots |->
                  FreeSlot(NewPid(s),
                           IF s + 1 < SlotCount THEN NewPid(s + 1) ELSE None)]
    /\ free = IF SlotCount > 0 THEN NewPid(0) ELSE None
    /\ process_count = 0
    /\ panicked = FALSE
-----------------------------------------------------------------------------
SameEpoch(pid) == pid

\* Pid::next_epoch() when it does not overflow.
NextEpoch(pid) == [pid EXCEPT !.epoch = @ + 1]

\* Whether allocate() succeeds; otherwise it returns NoProcessSlot.
CanAllocate == free # None /\ ~IsUsed(free.slot)

AllocateKeepsHead ==
    /\ ~panicked
    /\ CanAllocate
    /\ table' = [table EXCEPT ![free.slot] = UsedSlot(free)]
    /\ process_count' = process_count + 1
    /\ UNCHANGED <<free, panicked>>

\* Table::allocate(): pops the head of the free list; the process gets the
\* pid that the list holds for the slot.
Allocate ==
    /\ ~panicked
    /\ CanAllocate
    /\ table' = [table EXCEPT ![free.slot] = UsedSlot(free)]
    /\ free' = table[free.slot].next
    /\ process_count' = process_count + 1
    /\ UNCHANGED panicked

\* Whether get() and free() find the process; otherwise they return NoProcess.
Found(pid) == pid.slot < SlotCount /\ IsUsed(pid.slot) /\ table[pid.slot].pid = pid

\* Table::free(): pushes the slot, with its next epoch, onto the free list.
Free(pid) ==
    /\ ~panicked
    /\ Found(pid)
    /\ pid.epoch < MaxEpoch
    /\ table' = [table EXCEPT ![pid.slot] = FreeSlot(NextEpoch(pid), free)]
    /\ free' = NextEpoch(pid)
    /\ process_count' = process_count - 1
    /\ UNCHANGED panicked

\* Table::free() of the last pid that the slot can give: next_epoch() panics
\* with "epoch overflow" before anything is changed.
EpochOverflow(pid) ==
    /\ ~panicked
    /\ Found(pid)
    /\ pid.epoch = MaxEpoch
    /\ panicked' = TRUE
    /\ UNCHANGED <<free, process_count, table>>

TableNext ==
    \/ Allocate
    \/ \E pid \in Pid : Free(pid) \/ EpochOverflow(pid)

TableSpec == TableInit /\ [][TableNext]_tableVars
-----------------------------------------------------------------------------
\* Type invariant of the process table (struct Table, enum Slot).
TableTypeOK ==
    /\ table \in [Slots -> Slot]
    /\ free \in Pid \cup {None}
    /\ process_count \in 0 .. SlotCount
    /\ panicked \in BOOLEAN

\* A slot keeps its own pid: the slot part never moves to another slot.
SlotPids == \A s \in Slots : table[s].pid.slot = s

\* `stack' lists the free slots from the bottom of the free list to its head.
FreeStack(stack, n) ==
    /\ \A i, j \in 1 .. n : stack[i] = stack[j] => i = j
    /\ \A s \in Slots : ~IsUsed(s) <=> \E i \in 1 .. n : stack[i] = s
    /\ free = IF n = 0 THEN None ELSE table[stack[n]].pid
    /\ \A i \in 1 .. n :
          table[stack[i]].next = IF i = 1 THEN None ELSE table[stack[i - 1]].pid

\* The free list of Table::allocate() and Table::free() is intact: following
\* the links from Table::free visits every free slot exactly once, visits no
\* used slot, each link carries the current epoch of the slot it points to,
\* and the list has exactly SlotCount - process_count elements.
FreeListIntact ==
    \E stack \in [1 .. SlotCount - process_count -> Slots] :
        FreeStack(stack, SlotCount - process_count)

\* Table::allocate() answers NoProcessSlot only when there really is none.
RefusesOnlyWhenFull == ~CanAllocate => \A s \in Slots : IsUsed(s)

\* The process table implements the registry of identifiers: the processes in
\* used slots are live, and every epoch that a slot has left behind is spent.
LiveIds == {table[s].pid : s \in {t \in Slots : IsUsed(t)}}
RetiredIds == {pid \in Pid : pid.epoch < table[pid.slot].pid.epoch}

Registry == INSTANCE PidRegistry
                WITH Ids <- Pid, live <- LiveIds, retired <- RetiredIds

\* A pid is unique for the whole uptime of the kernel: no sequence of
\* Table::allocate() and Table::free() hands out the same pid twice.
ImplementsRegistry == Registry!RegistrySpec

\* The table as a whole: its list holds exactly the free slots, and allocate() refuses only
\* when there is none.
TableIsSound == TableTypeOK /\ FreeListIntact /\ RefusesOnlyWhenFull
=============================================================================
