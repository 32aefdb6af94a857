----------------------------- MODULE MCMachines ----------------------------
(***************************************************************************)
(* The state machines of the kernel that share no state: the frame         *)
(* allocator, the heap and its statistics, and what is around the          *)
(* processors and the devices.  One of them runs in each behaviour; the    *)
(* others stay as they were.                                               *)
(*                                                                         *)
(* The heap is one size class: slabs of two pages hold three blocks, of    *)
(* which the second one straddles the pages.                               *)
(***************************************************************************)
EXTENDS MCFrameAllocator, MCStatistics, Heap, Console, Clock, ApStart, UserLog, Locks, Disk, Interrupts

VARIABLE active   \* the machine that runs

Machines == {"console", "clock", "processors", "log", "locks", "once", "disk", "traps",
             "frames", "heap", "statistics"}

SomeTexts == {<<"a">>, <<"b", "tab">>, <<"nl", "tab", "tab", "nl">>, <<"wide", "cr">>,
              <<"control", "a", "a", "cr", "control">>, <<"tab", "b", "nl", "a", "a", "a", "a", "nl">>}
Screen(cells, glyph) == [i \in 0 .. 11 |-> IF i \in cells THEN glyph ELSE " "]
SomeScreens == {Screen({}, "a"), Screen({1, 6}, "b"), Screen({0, 3, 4, 11}, "a")}
SomeProcessors == <<[id |-> 1, usable |-> TRUE], [id |-> 2, usable |-> FALSE],
                    [id |-> 3, usable |-> TRUE], [id |-> 4, usable |-> TRUE]>>
TableThenText == <<"table", "text">>
TwoDrives == [d \in {0, 1} |-> d + 1]

\* The CPUs of the heap run the same code.
MCSymmetry == Permutations(Cpus)

\* A machine that does not run starts in one of its initial states.
Init ==
    /\ active \in Machines
    /\ ConsoleInit /\ (active = "console" \/ (grid.buffer[1].character = "b" /\ CursorGet(cursor) = 0))
    /\ ClockInit /\ (active = "clock" \/ source = "rtc")
    /\ AllocatorInit
    /\ HeapInit
    /\ StatInit /\ (active = "statistics" \/ load.budget = 0)
    /\ ApInit
    /\ LogInit
    /\ LocksInit /\ (active = "locks" \/ \A cpu \in LockCpus : irqEnabled[cpu])
    /\ DiskInit /\ (active = "disk" \/ selected = 0)
    /\ TrapInit /\ (active = "traps" \/ \A cpu \in TrapCpus : cpuState[cpu].mode = "kernel")

OnceNext == \E v \in OnceValues : OnceStep(v) \/ OnceGet(v)

Next ==
    /\ UNCHANGED active
    /\ \/ /\ active = "console" /\ ConsoleNext
          /\ UNCHANGED <<heapVars, statVars, allocatorVars, clockVars, apVars, logVars, lockVars, diskVars, trapVars>>
       \/ /\ active = "clock" /\ ClockNext
          /\ UNCHANGED <<heapVars, statVars, allocatorVars, consoleVars, apVars, logVars, lockVars, diskVars, trapVars>>
       \/ /\ active = "processors" /\ ApNext
          /\ UNCHANGED <<heapVars, statVars, allocatorVars, consoleVars, clockVars, logVars, lockVars, diskVars, trapVars>>
       \/ /\ active = "log" /\ LogNext
          /\ UNCHANGED <<heapVars, statVars, allocatorVars, consoleVars, clockVars, apVars, lockVars, diskVars, trapVars>>
       \/ /\ active = "locks" /\ SpinNext
          /\ UNCHANGED <<heapVars, statVars, allocatorVars, consoleVars, clockVars, apVars, logVars, diskVars, trapVars>>
       \/ /\ active = "once" /\ OnceNext
          /\ UNCHANGED <<heapVars, statVars, allocatorVars, consoleVars, clockVars, apVars, logVars, diskVars, trapVars>>
       \/ /\ active = "disk" /\ DiskNext
          /\ UNCHANGED <<heapVars, statVars, allocatorVars, consoleVars, clockVars, apVars, logVars, lockVars, trapVars>>
       \/ /\ active = "traps" /\ TrapNext
          /\ UNCHANGED <<heapVars, statVars, allocatorVars, consoleVars, clockVars, apVars, logVars, lockVars, diskVars>>
       \/ /\ active = "frames" /\ AllocatorNext
          /\ UNCHANGED <<heapVars, statVars, consoleVars, clockVars, apVars, logVars, lockVars, diskVars, trapVars>>
       \/ /\ active = "statistics" /\ StatNext
          /\ UNCHANGED <<heapVars, allocatorVars, consoleVars, clockVars, apVars, logVars, lockVars, diskVars, trapVars>>
       \/ /\ active = "heap" /\ HeapNext
          /\ UNCHANGED <<statVars, allocatorVars, consoleVars, clockVars, apVars, logVars, lockVars, diskVars, trapVars>>

Spec == Init /\ [][Next]_<<active, allocatorVars, consoleVars, clockVars, apVars, logVars, lockVars,
                          diskVars, trapVars, heapVars, statVars>>
=============================================================================
