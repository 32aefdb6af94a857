-------------------------- MODULE DescriptorTables --------------------------
(***************************************************************************)
(* The segments and the stacks of the processors: kernel/src/memory/gdt.rs,*)
(* stack.rs, tss.rs and the part of kernel/src/smp/cpu.rs that hands the   *)
(* stacks out.  An address is the sequence of its bytes, the lowest first; *)
(* stacks are measured in pages from the start of their allocation.        *)
(***************************************************************************)
EXTENDS Integers, Sequences, FiniteSets

CONSTANTS TssCount,  \* MAX_CPUS
          StackPages \* STACK_SIZE in pages

ASSUME DescriptorConstants == TssCount \in Nat \ {0} /\ StackPages \in Nat \ {0, 1}

BasicCount == 5
TssDescriptorWidth == 2
SegmentKinds == [executable : BOOLEAN, user : BOOLEAN]
Selector(index, ring) == [index |-> index, ring |-> ring]

\* SmpGdt::basic_selector()
BasicSelector(segment) ==
    Selector(1 + (IF segment.user THEN 2 ELSE 0) + (IF segment.executable = segment.user THEN 1 ELSE 0),
             IF segment.user THEN 3 ELSE 0)

KernelCode == BasicSelector([executable |-> TRUE, user |-> FALSE])
KernelData == BasicSelector([executable |-> FALSE, user |-> FALSE])
UserCode == BasicSelector([executable |-> TRUE, user |-> TRUE])
UserData == BasicSelector([executable |-> FALSE, user |-> TRUE])

\* SmpGdt::tss(), and the entries that the descriptor takes.
TssSelector(cpu) == Selector(BasicCount + cpu * TssDescriptorWidth, 0)
TssEntries(cpu) == TssSelector(cpu).index .. TssSelector(cpu).index + TssDescriptorWidth - 1

\* RealModePseudoDescriptor::new() with scaled limits: <<>> is the error.
RealModePseudoDescriptor(size, address, maxBase, maxLimit) ==
    IF address < maxBase /\ size - 1 <= maxLimit THEN <<[limit |-> size - 1, base |-> address]>> ELSE <<>>

\* TssEntry::new(): the sixteen bytes of the descriptor of a TSS at the address.
TssLimit == 103
AvailableTss == 137 \* present, system, available 64-bit TSS
TssEntry(address) ==
    <<TssLimit, 0, address[1], address[2], address[3], AvailableTss, 0, address[4],
      address[5], address[6], address[7], address[8], 0, 0, 0, 0>>

\* What the processor takes for the base and the limit of a system descriptor.
DescriptorBase(d) == <<d[3], d[4], d[5], d[8], d[9], d[10], d[11], d[12]>>
DescriptorLimit(d) == d[1] + 256 * d[2] + 65536 * (d[7] % 16)

\* What Star::write() demands, and what syscall and sysret then load.
StarAccepts(userCode, userData, kernelCode, kernelData) ==
    /\ userCode.index - 2 = userData.index - 1
    /\ kernelCode.index = kernelData.index - 1
    /\ userCode.ring = 3 /\ userData.ring = 3 /\ kernelData.ring = 0 /\ kernelCode.ring = 0

-----------------------------------------------------------------------------
(* Stacks *)

\* Stack::zones() and make_guard_zone(): the first page of a stack is not mapped.
StackZones(i) ==
    [guard |-> {i * StackPages}, data |-> i * StackPages + 1 .. (i + 1) * StackPages - 1]
NewStacks(len) ==
    [mapped |-> UNION {StackZones(i).data : i \in 0 .. len - 1}]
StackPointer(i) == (i + 1) * StackPages

\* cpu::init() and Cpu::new(): two stacks for each CPU.
StacksPerCpu == 2
CpuStacks(cpu) == [kernel |-> cpu * StacksPerCpu, pageFault |-> cpu * StacksPerCpu + 1]
=============================================================================
