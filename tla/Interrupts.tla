----------------------------- MODULE Interrupts -----------------------------
(***************************************************************************)
(* Exceptions and interrupts, kernel/src/trap/mod.rs and pic8259/src/lib.rs*)
(* with the descriptor tables (kernel/src/memory/gdt.rs, tss.rs, stack.rs).*)
(*                                                                         *)
(* The stacks are sequences of words, the bottom first.  The processor     *)
(* (external) pushes the five words of the interrupted context, SS first   *)
(* and RIP last, and for some vectors an error code; the stub of the       *)
(* vector completes the frame, trap_trampoline() saves nine registers and  *)
(* calls generic_trap().  An exception in user mode belongs either to a    *)
(* process or, with Pid::Current, to a test without one.                   *)
(***************************************************************************)
EXTENDS Integers, FiniteSetsExt, SequencesExt

CONSTANTS TrapCpus,   \* 0 is the Bootstrap Processor, the only one wired to the PIC
          Exceptions, \* vectors of the exceptions that happen
          PicLines,   \* lines of the cascaded pair that devices raise
          MaxTraps,   \* bound on the traps that are handled at once
          MaxInterrupts \* bound on the interrupts of a line

ASSUME TrapConstants == 0 \in TrapCpus /\ PicLines \subseteq (0 .. 15) \ {2} /\ {MaxTraps, MaxInterrupts} \subseteq Nat

VARIABLES stacks,    \* the words of each stack
          cpuState,  \* per CPU: [mode, irq, rsp, traps]
          pic,       \* the pair of PIC 8259: [irr, isr, base, aeoi, cascade]
          stopAll,   \* STOP_ALL_CPUS
          trapCounts, \* TRAP_STATS of the PIC lines
          acked      \* interrupts that the PIC delivered, per line

trapVars == <<stacks, cpuState, pic, stopAll, trapCounts, acked>>

Breakpoint == 3
Overflow == 4
DoubleFault == 8
PageFault == 14
PicBase == 32
Spurious == 49
CascadeLine == 2

\* The vectors for which the processor pushes an error code.
HardwareErrorCodes == {8, 10, 11, 12, 13, 14, 17, 21, 29, 30}

\* Idt::new()
WithErrorCode == {DoubleFault, PageFault, 10, 11, 12, 13, 17, 30}
WithoutErrorCode == {0, 1, 2, Breakpoint, Overflow, 5, 6, 7, 16, 18, 19, 20}

\* An exception that happens has a gate.
ASSUME ExceptionsAssumption == Exceptions \subseteq WithErrorCode \cup WithoutErrorCode

GateSwapped(v) ==
    [kind |-> IF v \in WithErrorCode \ {13} THEN "error code"
              ELSE IF v \in WithoutErrorCode \cup {13} THEN "no error code"
              ELSE IF v \in PicBase .. Spurious THEN "interrupt" ELSE "missing",
     ist |-> IF v = DoubleFault THEN "double fault" ELSE IF v = PageFault THEN "page fault" ELSE "none"]
Gate(v) ==
    [kind |-> IF v \in WithErrorCode THEN "error code"
              ELSE IF v \in WithoutErrorCode THEN "no error code"
              ELSE IF v \in PicBase .. Spurious THEN "interrupt" ELSE "missing",
     ist |-> IF v = DoubleFault THEN "double fault" ELSE IF v = PageFault THEN "page fault" ELSE "none"]

\* Words and stacks.  A word knows whose it is: the CPU and the depth of its traps.
TrapWord(c, level, what, i) == [cpu |-> c, level |-> level, what |-> what, i |-> i]
ContextOf(c, level) == [i \in 1 .. 5 |-> TrapWord(c, level, "context", i)]
NoWord == TrapWord(0, 0, "none", 0)
RegistersOf(c, level) == [i \in 1 .. 9 |-> TrapWord(c, level, "register", i)]
StackTop(owner, name) == [stack |-> <<owner, name>>, depth |-> 0]

\* Cpu::new() and TSS: the stacks of the IST.  All CPUs share the one for double faults.
IstStack(c, ist) == IF ist = "double fault" THEN StackTop(0, "double fault") ELSE StackTop(c, "page fault")
KernelStack(c) == StackTop(c, "kernel")
StackNames == {<<c, name>> : c \in TrapCpus, name \in {"kernel", "page fault", "double fault", "user"}}

Overwrite(s, depth, words) ==
    [i \in 1 .. Max({Len(s), depth + Len(words)}) |->
        IF i \in depth + 1 .. depth + Len(words) THEN words[i - depth] ELSE s[i]]
Pushed(rsp, words) == [stacks EXCEPT ![rsp.stack] = Overwrite(@, rsp.depth, words)]
Down(rsp, words) == [rsp EXCEPT !.depth = @ + words]

\* pic8259::init()
PicInit(first) == [irr |-> {}, isr |-> {}, base |-> <<first, first + 8>>, aeoi |-> TRUE, cascade |-> CascadeLine]

\* The vector of a line; the second PIC is reached through the line its ICW3 names.
LineVector(line) == IF line < 8 THEN pic.base[1] + line ELSE pic.base[2] + line - 8

\* trap::init() on every CPU, in a user program or in the kernel.
TrapInit ==
    /\ stacks = [s \in StackNames |-> <<>>]
    /\ \E mode \in [TrapCpus -> {"kernel", "process", "current"}] :
         cpuState = [c \in TrapCpus |-> [mode |-> mode[c], irq |-> TRUE, traps |-> <<>>,
                       rsp |-> IF mode[c] = "kernel" THEN KernelStack(c) ELSE StackTop(c, "user")]]
    /\ pic = PicInit(PicBase)
    /\ stopAll = "free"
    /\ trapCounts = [l \in PicLines |-> 0]
    /\ acked = [l \in PicLines |-> 0]

Trap(c) == Last(cpuState[c].traps)
Level(c) == Len(cpuState[c].traps)
StageIs(c, stage) == Level(c) > 0 /\ Trap(c).stage = stage
TrapFits == FoldFunction(LAMBDA traps, sum : Len(traps) + sum, 0, [c \in TrapCpus |-> cpuState[c].traps]) < MaxTraps
Executes(c) == cpuState[c].mode \notin {"panicked", "yielded", "halted"}

\* The processor delivers a vector: the context goes to the stack of the gate, of the TSS for
\* user mode, or the current one, and interrupts are disabled.
Deliver(c, v, stage) ==
    LET s == cpuState[c]
        level == Level(c) + 1
        target == IF Gate(v).ist # "none" THEN IstStack(c, Gate(v).ist)
                  ELSE IF s.mode = "kernel" THEN s.rsp ELSE KernelStack(c)
        words == ContextOf(c, level) \o
                 (IF v \in HardwareErrorCodes THEN <<TrapWord(c, level, "error", v)>> ELSE <<>>)
        trap == [vector |-> v, stage |-> stage, mode |-> s.mode, irq |-> s.irq, from |-> s.rsp,
                 number |-> NoWord, error |-> NoWord, context |-> 0]
    IN  /\ stacks' = Pushed(target, words)
        /\ cpuState' = [cpuState EXCEPT ![c] = [mode |-> "kernel", irq |-> FALSE, rsp |-> Down(target, Len(words)),
                                                traps |-> Append(s.traps, trap)]]

Raise(c, v) ==
    /\ Executes(c) /\ TrapFits
    /\ Level(c) > 0 => StageIs(c, "generic")
    /\ Deliver(c, v, "stub")
    /\ UNCHANGED <<pic, stopAll, trapCounts, acked>>

PushAndGo(c, words, trap) ==
    /\ stacks' = Pushed(cpuState[c].rsp, words)
    /\ cpuState' = [cpuState EXCEPT ![c].rsp = Down(@, Len(words)), ![c].traps = Append(Front(@), trap)]
    /\ UNCHANGED <<pic, stopAll, trapCounts, acked>>

\* exception_with_error_code! and exception_without_error_code!
Stub(c) ==
    LET v == Trap(c).vector
        code == IF Gate(v).kind = "no error code" THEN <<TrapWord(c, Level(c), "error", 0)>> ELSE <<>> IN
    /\ StageIs(c, "stub")
    /\ PushAndGo(c, code \o <<TrapWord(c, Level(c), "number", v)>>, [Trap(c) EXCEPT !.stage = "trampoline"])

\* trap_trampoline(): the arguments lie above the nine registers.
Trampoline(c) ==
    LET s == stacks[cpuState[c].rsp.stack]
        depth == cpuState[c].rsp.depth IN
    /\ StageIs(c, "trampoline")
    /\ PushAndGo(c, RegistersOf(c, Level(c)),
                 [Trap(c) EXCEPT !.stage = "generic", !.number = s[depth], !.error = s[depth - 1], !.context = depth - 2])

\* What trap_trampoline() and iretq pop: the registers, then the context above the two words.
Popped(c) ==
    LET s == stacks[cpuState[c].rsp.stack]
        depth == cpuState[c].rsp.depth
    IN  [registers |-> SubSeq(s, depth - 8, depth), context |-> SubSeq(s, depth - 15, depth - 11)]

GoTo(c, stage) == cpuState' = [cpuState EXCEPT ![c].traps = Append(Front(@), [Trap(c) EXCEPT !.stage = stage])]
StopIn(c, mode) == cpuState' = [cpuState EXCEPT ![c].mode = mode]

\* generic_trap() of a double fault first stops all other CPUs: the lock is never released, and
\* whoever sees that the kernel panics halts.
StopAll(c) ==
    /\ StageIs(c, "generic") /\ Trap(c).vector = DoubleFault /\ Executes(c)
    /\ \/ stopAll = "free" /\ stopAll' = "taken" /\ GoTo(c, "fatal")
       \/ stopAll = "panicking" /\ StopIn(c, "halted") /\ UNCHANGED stopAll

IsFatal(v) == v \notin {Breakpoint, Overflow}

\* generic_trap(): a fatal exception ends the process or the kernel, the others return, and a
\* test without a process resumes in its kernel context.
GenericTrap(c) ==
    LET trap == Trap(c) IN
    /\ Executes(c)
    /\ StageIs(c, "fatal") \/ (StageIs(c, "generic") /\ trap.vector # DoubleFault)
    /\ \/ /\ trap.mode = "current"
          /\ GoTo(c, "restore")
       \/ /\ trap.mode = "process"
          /\ IF IsFatal(trap.vector) THEN StopIn(c, "yielded") ELSE GoTo(c, "restore")
       \/ /\ trap.mode = "kernel"
          /\ IF IsFatal(trap.vector) THEN StopIn(c, "panicked") ELSE GoTo(c, "restore")
    /\ stopAll' = IF trap.vector = DoubleFault THEN "panicking" ELSE stopAll

\* The end of trap_trampoline(); iretq loads the stack pointer and the flags of the context.
Resumed(c, mode) ==
    LET trap == Trap(c) IN
    cpuState' = [cpuState EXCEPT ![c] = [mode |-> mode, irq |-> trap.irq, traps |-> Front(@.traps),
                                         rsp |-> IF mode = trap.mode THEN trap.from ELSE KernelStack(c)]]

\* Words under the stack pointer do not matter, on a stack that is not shared.
ForgetBelow(c, depth) ==
    stacks' = IF cpuState[c].rsp.stack = <<0, "double fault">> THEN stacks
              ELSE [stacks EXCEPT ![cpuState[c].rsp.stack] = SubSeq(@, 1, depth)]

Restore(c) ==
    /\ StageIs(c, "restore") /\ Executes(c)
    /\ Resumed(c, IF Trap(c).mode = "current" THEN "kernel" ELSE Trap(c).mode)
    /\ ForgetBelow(c, cpuState[c].rsp.depth - 16)

-----------------------------------------------------------------------------
(* Interrupts *)

\* A device raises its line.
RaiseLine(line) ==
    /\ line \notin pic.irr /\ acked[line] < MaxInterrupts
    /\ pic' = [pic EXCEPT !.irr = @ \cup {line}]
    /\ UNCHANGED <<stacks, cpuState, stopAll, trapCounts, acked>>

\* The PIC delivers the first line that no line in service outranks; a line of the second one
\* also occupies the cascade line of the first.
Occupies(line) == {line} \cup (IF line < 8 THEN {} ELSE {pic.cascade})
Outranks(other, line) == \E o \in Occupies(other), l \in Occupies(line) :
                            (o < 8 <=> l < 8) /\ o <= l
PicInterrupt(line) ==
    LET v == LineVector(line) IN
    /\ line \in pic.irr /\ Executes(0) /\ cpuState[0].irq /\ TrapFits
    /\ \A served \in pic.isr : ~Outranks(served, line)
    /\ Deliver(0, v, "handler")
    /\ pic' = [pic EXCEPT !.irr = @ \ {line}, !.isr = IF pic.aeoi THEN @ ELSE @ \cup Occupies(line)]
    /\ acked' = [acked EXCEPT ![line] = @ + 1]
    /\ UNCHANGED <<stopAll, trapCounts>>

\* A command of end of interrupt dismisses the first line in service of the PIC it goes to.
Dismissed(isr, first) ==
    LET own == {l \in isr : (l < 8) = first} IN IF own = {} THEN isr ELSE isr \ {Min(own)}

\* pic8259::end_of_interrupt()
EndOfInterrupt(number) ==
    LET second == IF number >= 8 THEN Dismissed(pic.isr, FALSE) ELSE pic.isr IN Dismissed(second, TRUE)

\* The handler of a line: generic_pic_interrupt(), then iretq.
PicHandler ==
    LET number == Trap(0).vector - PicBase IN
    /\ StageIs(0, "handler")
    /\ trapCounts' = IF number \in PicLines THEN [trapCounts EXCEPT ![number] = @ + 1] ELSE trapCounts
    /\ pic' = [pic EXCEPT !.isr = EndOfInterrupt(number)]
    /\ Resumed(0, Trap(0).mode)
    /\ ForgetBelow(0, cpuState[0].rsp.depth - 5)
    /\ UNCHANGED <<stopAll, acked>>

TrapNext ==
    \/ \E c \in TrapCpus :
         \/ \E v \in Exceptions : Raise(c, v)
         \/ Stub(c) \/ Trampoline(c)
         \/ StopAll(c) /\ UNCHANGED <<stacks, pic, trapCounts, acked>>
         \/ GenericTrap(c) /\ UNCHANGED <<stacks, pic, trapCounts, acked>>
         \/ Restore(c) /\ UNCHANGED <<pic, stopAll, trapCounts, acked>>
    \/ \E line \in PicLines : RaiseLine(line) \/ PicInterrupt(line)
    \/ PicHandler

TrapSpec == TrapInit /\ [][TrapNext]_trapVars

-----------------------------------------------------------------------------
(* Properties *)

DoubleFaulted == \E c \in TrapCpus : \E i \in 1 .. Level(c) : cpuState[c].traps[i].vector = DoubleFault

\* generic_trap() gets the number of the vector, the error code of the processor, or 0 for the
\* vectors without one, and the context that the processor saved, for every vector and nesting.
TrapArgumentsAreRight ==
    \A c \in TrapCpus :
        StageIs(c, "generic") /\ ~DoubleFaulted =>
            LET trap == Trap(c)  s == stacks[cpuState[c].rsp.stack]
                code == IF trap.vector \in HardwareErrorCodes THEN trap.vector ELSE 0 IN
            /\ trap.number = TrapWord(c, Level(c), "number", trap.vector)
            /\ trap.error = TrapWord(c, Level(c), "error", code)
            /\ SubSeq(s, trap.context - 4, trap.context) = ContextOf(c, Level(c))

\* A trap that returns restores the registers and the context of the code it interrupted, even
\* if other traps came on the same CPU meanwhile.
TrapsReturnToTheirContext ==
    \A c \in TrapCpus :
        StageIs(c, "restore") /\ ~DoubleFaulted =>
            Popped(c) = [registers |-> RegistersOf(c, Level(c)), context |-> ContextOf(c, Level(c))]

\* However many CPUs double fault, one of them at most goes on to report it.
OneDoubleFaultIsReported ==
    Cardinality({c \in TrapCpus : Level(c) > 0 /\ Trap(c).vector = DoubleFault
                                  /\ (Trap(c).stage = "fatal" \/ cpuState[c].mode = "panicked")}) <= 1

\* Every interrupt the PIC delivered is counted for its own line, and when no handler runs no
\* line is left in service, so that none is blocked.
LinesReachTheirHandlers ==
    (\A i \in 1 .. Level(0) : cpuState[0].traps[i].vector < PicBase) =>
        /\ \A l \in PicLines : trapCounts[l] = acked[l]
        /\ pic.isr = {}

\* From the gate through trap_trampoline() and back: right arguments, the interrupted context
\* restored, one report of double faults, and no line of the PIC left blocked.
TrapsAreExact ==
    /\ TrapArgumentsAreRight /\ TrapsReturnToTheirContext
    /\ OneDoubleFaultIsReported /\ LinesReachTheirHandlers
=============================================================================
