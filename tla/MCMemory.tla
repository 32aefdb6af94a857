------------------------------ MODULE MCMemory ------------------------------
(***************************************************************************)
(* Processes and their memory: the process table, the allocators of mapped *)
(* blocks, the loader of ELF files, and the pure algorithms.  One of the   *)
(* four is examined in each behaviour.                                     *)
(***************************************************************************)
EXTENDS ProcessTable, MappedBlocks, ElfLoader, Algorithms

VARIABLE active   \* the part that is examined

SomeSegments ==
    {s \in [start : 48 .. 52, end : 48 .. 52, file : 0 .. 4, flags : {{}, {"W"}}, inFile : {TRUE}] :
        s.start <= s.end /\ s.file \in {0, s.end - s.start}}
    \cup [start : {48}, end : {50}, file : {2}, flags : {{"W", "X"}}, inFile : {TRUE}]
    \cup [start : {50}, end : {51}, file : {1, 2}, flags : {{"X"}}, inFile : {FALSE}]
TwoSlices == {[element |-> 1, len |-> 2], [element |-> 3, len |-> 1]}
UserWritable == {{"U", "W"}}

\* Around zero, the border of the kernel and the user entries, and the ends of both halves.
AroundPages == {0, 1, 15, 16, 17, 30, 31, 32, 95, 96, 97, 127, 128}
AroundBytes == 0 .. 3 \cup 61 .. 65 \cup 77 .. 81 \cup 191 .. 194 \cup 254 .. 256
AroundDistances == 0 .. 3 \cup 30 .. 33 \cup 62 .. 66 \cup 79 .. 81 \cup 126 .. 130 \cup 190 .. 194 \cup {255}

\* Ends, gaps, cycles, odd addresses and addresses outside of the stack and of the canonical ones.
DamagedFrames == {0, 40, 41, 42, 44, 48, 52, 250}

Region(kind, size, address, prefetchable) ==
    [kind |-> kind, size |-> size, address |-> address, prefetchable |-> prefetchable]
SomeRegions ==
    {Region("none", 0, 0, FALSE), Region("port", 4, 12, FALSE), Region("port", 16, 32, FALSE),
     Region("memory32", 16, 0, FALSE), Region("memory32", 16, 0, TRUE), Region("memory32", 32, 32, FALSE)}
    \cup {Region("memory64", size, address, address = 0) :
              size \in {64, 128}, address \in {0, 640}}
    \cup {Region("memory64", 16, 688, TRUE)}

Idle_ == [case |-> "none", in |-> 0]

Init ==
    /\ active \in {"processes", "blocks", "elf", "algorithms"}
    /\ TableInit
    /\ BlocksInit
    /\ ElfInit
    /\ IF active = "algorithms" THEN AlgorithmsInit ELSE input = Idle_

Next ==
    /\ UNCHANGED <<active, input>>
    /\ \/ active = "processes" /\ TableNext /\ UNCHANGED <<blockVars, elfVars>>
       \/ active = "blocks" /\ BlocksNext /\ UNCHANGED <<tableVars, elfVars>>
       \/ active = "elf" /\ ElfNext /\ UNCHANGED <<tableVars, blockVars>>

Spec == Init /\ [][Next]_<<active, input, tableVars, blockVars, elfVars>>
=============================================================================
