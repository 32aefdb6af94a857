------------------------------ MODULE ApStart ------------------------------
(***************************************************************************)
(* The start of the Application Processors, kernel/src/smp: the Bootstrap  *)
(* Processor puts the boot code and a BootStack into one page of low       *)
(* memory, sends INIT and START_UP, waits and restores the page, for one   *)
(* processor after another.  What a processor does in the boot code itself *)
(* (the assembly is left out in the repository) is external: it runs the   *)
(* page, takes the Cpu and the stack from the BootStack and jumps to       *)
(* ap_kernel_main().                                                       *)
(***************************************************************************)
EXTENDS Integers, FiniteSets, SequencesExt

CONSTANTS ApProcessors   \* processors of the ACPI tables: sequence of [id, usable]
ASSUME ApConstants == \A i \in DOMAIN ApProcessors : ApProcessors[i].id \in Nat \ {0}

VARIABLES bsp,         \* init_smp(): [pc, next], next is an index in ApIds
          bootPage,    \* the page of the boot code: [code, cpu]
          savedPage,   \* SavedMemory, empty when there is none
          ap,          \* per processor: [pc, cpu]
          started,     \* Cpu::initialized, per Cpu
          tssUsers,    \* per Cpu, the processors that loaded its TSS
          timedOut     \* history: some wait_initialized() returned Timeout

apVars == <<bsp, bootPage, savedPage, ap, started, tssUsers, timedOut>>

BspId == 0
NoCpu == -1
OriginalPage == [code |-> "original", cpu |-> NoCpu]
BootPage(cpu) == [code |-> "switch mode", cpu |-> cpu]

\* usable_aps(): processors that wait for a START_UP, in the order of the tables.
UsableAps(processors) ==
    LET usable == SelectSeq(processors, LAMBDA p : p.usable)
    IN [i \in DOMAIN usable |-> usable[i].id]
ApIds == UsableAps(ApProcessors)

\* cpu_count of init_smp(): an entry of the vector for every id up to the largest one.
CpuIds == 0 .. Max({BspId} \cup {ApIds[i] : i \in DOMAIN ApIds})
HardwareIds == {BspId} \cup {ApProcessors[i].id : i \in DOMAIN ApProcessors}

\* What the filter and the maximum give when the tables list every processor once.
ASSUME ApIdsAreOwn ==
    ApIds \in Seq((HardwareIds \cap CpuIds) \ {BspId}) /\ IsInjective(ApIds)

\* init_smp() has found the processors and cpu::init() has started the Cpu of this one.
ApInit ==
    /\ bsp = [pc |-> "boot", next |-> 1]
    /\ bootPage = OriginalPage /\ savedPage = {}
    /\ ap = [i \in HardwareIds \ {BspId} |-> [pc |-> "halted", cpu |-> NoCpu]]
    /\ started = [i \in CpuIds |-> i = BspId]
    /\ tssUsers = [i \in CpuIds |-> IF i = BspId THEN {BspId} ELSE {}]
    /\ timedOut = FALSE

BootedAp == ApIds[bsp.next]

\* prepare_boot_code(): the page is saved, then overwritten.
PrepareBootCode ==
    /\ bsp.pc = "boot" /\ bsp.next <= Len(ApIds)
    /\ savedPage' = {bootPage}
    /\ bootPage' = BootPage(BootedAp)
    /\ bsp' = [bsp EXCEPT !.pc = "send"]
    /\ UNCHANGED <<ap, started, tssUsers, timedOut>>

\* An error of prepare_boot_code() leaves init_smp() and drops the vector of Cpu.
PrepareFails ==
    /\ bsp.pc = "boot" /\ bsp.next <= Len(ApIds)
    /\ bsp' = [bsp EXCEPT !.pc = "panic"]
    /\ UNCHANGED <<bootPage, savedPage, ap, started, tssUsers, timedOut>>

\* LocalApic::send_init()
SendInit ==
    /\ bsp.pc = "send"
    /\ ap' = [ap EXCEPT ![BootedAp].pc = "real mode"]
    /\ bsp' = [bsp EXCEPT !.pc = "wait"]
    /\ UNCHANGED <<bootPage, savedPage, started, tssUsers, timedOut>>

\* Cpu::wait_initialized() ends, and SavedMemory::drop() restores the page.
WaitEndsAtOnce(timeout) ==
    /\ bsp.pc = "wait"
    /\ timedOut' = (timedOut \/ timeout)
    /\ bootPage' = CHOOSE p \in savedPage : TRUE
    /\ savedPage' = {}
    /\ bsp' = [pc |-> "boot", next |-> bsp.next + 1]
    /\ UNCHANGED <<ap, started, tssUsers>>
WaitEnds(timeout) ==
    /\ bsp.pc = "wait"
    /\ timeout \/ started[BootedAp]
    /\ timedOut' = (timedOut \/ timeout)
    /\ bootPage' = CHOOSE p \in savedPage : TRUE
    /\ savedPage' = {}
    /\ bsp' = [pc |-> "boot", next |-> bsp.next + 1]
    /\ UNCHANGED <<ap, started, tssUsers>>

\* init_smp() moves the vector to CPUS.
ApsAreBooted ==
    /\ bsp.pc = "boot" /\ bsp.next > Len(ApIds)
    /\ bsp' = [bsp EXCEPT !.pc = "done"]
    /\ UNCHANGED <<bootPage, savedPage, ap, started, tssUsers, timedOut>>

\* The boot code (external): runs from the page while it is there, takes what is on its stack.
RunBootCode(i) ==
    /\ \/ /\ ap[i].pc = "real mode"
          /\ ap' = [ap EXCEPT ![i].pc = IF bootPage.code = "switch mode" THEN "long mode" ELSE "lost"]
       \/ /\ ap[i].pc = "long mode"
          /\ ap' = [ap EXCEPT ![i] = IF bootPage.code = "switch mode"
                                     THEN [pc |-> "set gs", cpu |-> bootPage.cpu]
                                     ELSE [ap[i] EXCEPT !.pc = "lost"]]
    /\ UNCHANGED <<bsp, bootPage, savedPage, started, tssUsers, timedOut>>

\* ap_kernel_main(): set_gs(), set_tss() with its check of the id, signal_initialized().
SetGs(i) ==
    /\ ap[i].pc = "set gs"
    /\ ap' = [ap EXCEPT ![i].pc = "set tss"]
    /\ UNCHANGED <<bsp, bootPage, savedPage, started, tssUsers, timedOut>>

SetTss(i) ==
    /\ ap[i].pc = "set tss"
    /\ IF ap[i].cpu = i
       THEN /\ tssUsers' = [tssUsers EXCEPT ![i] = @ \cup {i}]
            /\ ap' = [ap EXCEPT ![i].pc = "signal"]
       ELSE /\ ap' = [ap EXCEPT ![i].pc = "panic"]
            /\ UNCHANGED tssUsers
    /\ UNCHANGED <<bsp, bootPage, savedPage, started, timedOut>>

SignalInitialized(i) ==
    /\ ap[i].pc = "signal"
    /\ started' = [started EXCEPT ![ap[i].cpu] = TRUE]
    /\ ap' = [ap EXCEPT ![i].pc = IF started[ap[i].cpu] THEN "panic" ELSE "running"]
    /\ UNCHANGED <<bsp, bootPage, savedPage, tssUsers, timedOut>>

ApNext ==
    \/ PrepareBootCode \/ PrepareFails \/ SendInit \/ ApsAreBooted
    \/ \E timeout \in BOOLEAN : WaitEnds(timeout)
    \/ \E i \in HardwareIds \ {BspId} :
          RunBootCode(i) \/ SetGs(i) \/ SetTss(i) \/ SignalInitialized(i)

ApSpec == ApInit /\ [][ApNext]_apVars
-----------------------------------------------------------------------------
(* Properties *)

\* Processors are on the stack and the GS of a Cpu from the jump to ap_kernel_main() on.
UsersOf(cpu) == {i \in DOMAIN ap : ap[i].cpu = cpu}

\* While no wait has timed out: the boot page stays reserved for the processor that boots from
\* it, which gets its own Cpu and kernel stack, shared with no other, and nobody panics.
ApsStartApart ==
    ~timedOut => \A i \in DOMAIN ap :
        /\ ap[i].pc \notin {"lost", "panic"}
        /\ ap[i].pc \in {"real mode", "long mode"} => bootPage = BootPage(i)
        /\ ap[i].cpu # NoCpu => ap[i].cpu = i /\ UsersOf(i) = {i}

\* Timeouts included: a processor that has passed the check of set_tss() is on its own Cpu, every
\* Cpu is reported started only by its own processor, and only by one that runs.
OnlyOwnCpuIsStarted ==
    \A c \in CpuIds \ {BspId} :
        /\ tssUsers[c] \subseteq {c}
        /\ started[c] => c \in DOMAIN ap /\ ap[c] = [pc |-> "running", cpu |-> c]

\* However many processors start late or never, the page gets back what was in it, and a Cpu
\* whose processor was not asked to start is never used.
BootPageIsRestored ==
    /\ bsp.pc \in {"boot", "done", "panic"} => bootPage = OriginalPage /\ savedPage = {}
    /\ \A i \in DOMAIN ap :
         i \notin {ApIds[k] : k \in {n \in DOMAIN ApIds : n <= bsp.next}} => ap[i].pc = "halted"

\* boot_ap() gives each processor the boot page, a Cpu and a stack of its own, one after another,
\* and puts the page back, late processors included as far as the code can.
ProcessorsStartApart == ApsStartApart /\ OnlyOwnCpuIsStarted /\ BootPageIsRestored
=============================================================================
