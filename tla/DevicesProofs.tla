--------------------------- MODULE DevicesProofs ---------------------------
(***************************************************************************)
(* Proofs about the kernel and its devices: the processors that boot_ap()  *)
(* starts, for any tables of processors; the driver of ATA disks, for      *)
(* drives of any size and any sequence of calls, errors and timeouts; and  *)
(* the log of a user process, for pipes and messages of any size.          *)
(***************************************************************************)
EXTENDS ApStart, Disk, UserLog, WellFoundedInduction, FiniteSetTheorems, TLAPS

Aps == HardwareIds \ {BspId}
ApPcs == {"halted", "real mode", "long mode", "lost", "set gs", "set tss", "signal", "running", "panic"}
ApRecord == [pc : ApPcs, cpu : CpuIds \cup {NoCpu}]

ApTypeOK ==
    /\ bsp \in [pc : {"boot", "send", "wait", "done", "panic"}, next : Nat \ {0}]
    /\ ap \in [Aps -> ApRecord]
    /\ started \in [CpuIds -> BOOLEAN]
    /\ tssUsers \in [CpuIds -> SUBSET HardwareIds]
    /\ timedOut \in BOOLEAN

\* SavedMemory lives exactly while one processor is booted.
PageInv ==
    /\ bsp.pc \in {"boot", "done", "panic"} => bootPage = OriginalPage /\ savedPage = {}
    /\ bsp.pc \in {"send", "wait"} =>
         bsp.next \in DOMAIN ApIds /\ bootPage = BootPage(BootedAp) /\ savedPage = {OriginalPage}

\* send_init() was called for the processor.
Asked(i) ==
    \/ \E k \in DOMAIN ApIds : k < bsp.next /\ ApIds[k] = i
    \/ bsp.pc = "wait" /\ i = BootedAp

OwnInv ==
    /\ \A i \in Aps : ~Asked(i) => ap[i].pc = "halted" /\ ap[i].cpu = NoCpu
    /\ \A i \in Aps : ap[i].pc \in {"signal", "running"} => ap[i].cpu = i
    /\ \A c \in CpuIds \ {BspId} :
         /\ tssUsers[c] \subseteq {c}
         /\ started[c] => c \in Aps /\ ap[c].pc = "running"

\* Until a wait times out only the processor that is waited for is in the boot code, and all the
\* earlier ones have started.
AloneInv ==
    ~timedOut =>
        /\ \A i \in Aps :
             /\ ap[i].pc \notin {"lost", "panic"}
             /\ ap[i].pc \in {"real mode", "long mode"} => bsp.pc = "wait" /\ i = BootedAp
             /\ ap[i].cpu # NoCpu => ap[i].cpu = i
             /\ ap[i].pc \in {"set gs", "set tss"} => ap[i].cpu = i
        /\ \A k \in DOMAIN ApIds : k < bsp.next => started[ApIds[k]]

ApInv == ApTypeOK /\ PageInv /\ OwnInv /\ AloneInv

\* The boot processor is none of the others, and NoCpu is no processor.
LEMMA BspIsApart == /\ BspId \notin Aps /\ NoCpu \notin Aps /\ BspId # NoCpu
                    /\ BspId \in HardwareIds /\ Aps \subseteq HardwareIds
<1>1. HardwareIds \subseteq Nat
  BY ApConstants DEF HardwareIds, BspId
<1> QED BY <1>1 DEF Aps, NoCpu, BspId, HardwareIds

\* A processor to be started is one of the hardware with a Cpu of its own, and it is started once.
LEMMA ApIdFacts ==
    /\ \A k \in DOMAIN ApIds : ApIds[k] \in Aps /\ ApIds[k] \in CpuIds
    /\ \A k, n \in DOMAIN ApIds : ApIds[k] = ApIds[n] => k = n
    /\ Len(ApIds) \in Nat /\ DOMAIN ApIds = 1 .. Len(ApIds)
<1>1. ApIds \in Seq((HardwareIds \cap CpuIds) \ {BspId}) /\ IsInjective(ApIds)
  BY ApIdsAreOwn
<1>2. /\ Len(ApIds) \in Nat /\ DOMAIN ApIds = 1 .. Len(ApIds)
      /\ \A k \in DOMAIN ApIds : ApIds[k] \in Aps /\ ApIds[k] \in CpuIds
  <2> HIDE DEF ApIds, CpuIds, HardwareIds
  <2> QED BY <1>1 DEF Aps
<1>3. \A k, n \in DOMAIN ApIds : ApIds[k] = ApIds[n] => k = n
  BY <1>1 DEF IsInjective
<1> QED BY <1>2, <1>3

\* The boot code is not what was in the page.
LEMMA PagesDiffer ==
    /\ OriginalPage.code = "original"
    /\ \A c : BootPage(c).code = "switch mode" /\ BootPage(c).cpu = c
BY DEF OriginalPage, BootPage

\* While the boot code is in the page, the page is the one of the processor that is booted.
LEMMA ApPageFacts ==
    ASSUME ApInv, bootPage.code = "switch mode"
    PROVE  /\ bsp.next \in DOMAIN ApIds /\ BootedAp = ApIds[bsp.next] /\ bootPage.cpu = BootedAp
           /\ bsp.pc \in {"send", "wait"}
<1>1. bootPage # OriginalPage
  BY PagesDiffer
<1>2. bsp.pc \in {"send", "wait"}
  BY <1>1 DEF ApInv, ApTypeOK, PageInv
<1>3. bsp.next \in DOMAIN ApIds /\ bootPage = BootPage(BootedAp)
  BY <1>2 DEF ApInv, PageInv
<1> QED BY <1>2, <1>3, PagesDiffer DEF BootedAp

\* What the boot code does to one processor keeps the invariant.
LEMMA ApRuns ==
    ASSUME ApInv, NEW i \in Aps, ap[i].pc \in {"real mode", "long mode"},
           bsp' = bsp, bootPage' = bootPage, savedPage' = savedPage, started' = started,
           tssUsers' = tssUsers, timedOut' = timedOut,
           ap' \in [Aps -> ApRecord], \A j \in Aps : j # i => ap'[j] = ap[j],
           \/ bootPage.code # "switch mode" /\ ap'[i].pc = "lost" /\ ap'[i].cpu = ap[i].cpu
           \/ bootPage.code = "switch mode" /\ ap'[i].pc = "long mode" /\ ap'[i].cpu = ap[i].cpu
           \/ bootPage.code = "switch mode" /\ ap'[i].pc = "set gs" /\ ap'[i].cpu = bootPage.cpu
    PROVE  ApInv'
<1> USE BspIsApart
<1> HIDE DEF ApIds, Aps, CpuIds, HardwareIds, BspId, NoCpu
<1>1. BootedAp' = BootedAp
  BY DEF BootedAp
<1>2. \/ bootPage.code # "switch mode" /\ ap'[i].pc = "lost" /\ ap'[i].cpu = ap[i].cpu
      \/ bootPage.code = "switch mode" /\ ap'[i].pc = "long mode" /\ ap'[i].cpu = ap[i].cpu
      \/ bootPage.code = "switch mode" /\ ap'[i].pc = "set gs" /\ ap'[i].cpu = bootPage.cpu
  OBVIOUS
<1>3. bootPage.code = "switch mode" => bootPage.cpu = BootedAp
  BY ApPageFacts
<1>5. ApTypeOK'
  BY <1>1 DEF ApInv, ApTypeOK
<1>6. PageInv'
  BY <1>1 DEF ApInv, PageInv
<1>7. OwnInv'
  <2>1. \A j \in Aps : Asked(j)' <=> Asked(j)
    BY <1>1 DEF Asked
  <2>2. Asked(i)
    BY <1>2 DEF ApInv, OwnInv
  <2>3. \A j \in Aps : ~Asked(j)' => ap'[j].pc = "halted" /\ ap'[j].cpu = NoCpu
    <3> SUFFICES ASSUME NEW j \in Aps, ~Asked(j)' PROVE ap'[j].pc = "halted" /\ ap'[j].cpu = NoCpu
      OBVIOUS
    <3>1. ~Asked(j) /\ j # i /\ ap'[j] = ap[j]
      BY <2>1, <2>2
    <3>2. ap[j].pc = "halted" /\ ap[j].cpu = NoCpu
      BY <3>1, Zenon DEF ApInv, OwnInv
    <3> QED BY <3>1, <3>2, Zenon
  <2>4. \A j \in Aps : ap'[j].pc \in {"signal", "running"} => ap'[j].cpu = j
    BY <1>2 DEF ApInv, OwnInv
  <2>5. \A c \in CpuIds \ {BspId} :
          /\ tssUsers'[c] \subseteq {c}
          /\ started'[c] => c \in Aps /\ ap'[c].pc = "running"
    <3> SUFFICES ASSUME NEW c \in CpuIds \ {BspId}
                 PROVE  tssUsers'[c] \subseteq {c} /\ (started'[c] => c \in Aps /\ ap'[c].pc = "running")
      OBVIOUS
    <3>1. tssUsers'[c] = tssUsers[c] /\ started'[c] = started[c]
      OBVIOUS
    <3>2. tssUsers[c] \subseteq {c} /\ (started[c] => c \in Aps /\ ap[c].pc = "running")
      BY DEF ApInv, OwnInv
    <3>3. c \in Aps /\ ap[c].pc = "running" => c # i /\ ap'[c] = ap[c]
      OBVIOUS
    <3> QED BY <3>1, <3>2, <3>3
  <2> QED BY <2>3, <2>4, <2>5 DEF OwnInv
<1>8. AloneInv'
  <2> SUFFICES ASSUME ~timedOut PROVE AloneInv'
    BY <1>1 DEF AloneInv
  <2>1. bsp.pc = "wait" /\ i = BootedAp
    BY <1>2 DEF ApInv, AloneInv
  <2>2. bootPage.code = "switch mode"
    BY <2>1, PagesDiffer DEF ApInv, PageInv
  <2>3. ASSUME NEW j \in Aps
        PROVE  /\ ap'[j].pc \notin {"lost", "panic"}
               /\ ap'[j].pc \in {"real mode", "long mode"} => bsp'.pc = "wait" /\ j = BootedAp'
               /\ ap'[j].cpu # NoCpu => ap'[j].cpu = j
               /\ ap'[j].pc \in {"set gs", "set tss"} => ap'[j].cpu = j
    BY <1>1, <1>2, <1>3, <2>1, <2>2 DEF ApInv, AloneInv
  <2>4. \A k \in DOMAIN ApIds : k < bsp'.next => started'[ApIds[k]]
    BY <1>1 DEF ApInv, AloneInv
  <2> QED BY <2>3, <2>4 DEF AloneInv
<1> QED BY <1>5, <1>6, <1>7, <1>8 DEF ApInv

\* The processors of the hardware keep their invariant in every step.
LEMMA ApPreserved == ApInv /\ [ApNext]_apVars => ApInv'
<1> SUFFICES ASSUME ApInv, [ApNext]_apVars PROVE ApInv'
  OBVIOUS
<1> USE BspIsApart
<1> HIDE DEF ApIds, Aps, CpuIds, HardwareIds, BspId, NoCpu
<1> USE DEF ApPcs
<1>1. CASE PrepareBootCode
  <2>1. bsp.next \in DOMAIN ApIds
    BY <1>1 DEF PrepareBootCode, ApInv, ApTypeOK
  <2>2. bsp'.pc = "send" /\ bsp'.next = bsp.next /\ bsp.pc = "boot" /\ bsp' \in [pc : {"boot", "send", "wait", "done", "panic"}, next : Nat \ {0}]
    BY <1>1 DEF PrepareBootCode, ApInv, ApTypeOK
  <2>3. ApTypeOK'
    BY <1>1, <2>2 DEF PrepareBootCode, ApInv, ApTypeOK
  <2>4. PageInv'
    BY <1>1, <2>1, <2>2 DEF PrepareBootCode, ApInv, PageInv, BootedAp
  <2>5. OwnInv'
    BY <1>1, <2>2 DEF PrepareBootCode, ApInv, OwnInv, Asked, BootedAp
  <2>6. AloneInv'
    BY <1>1, <2>2 DEF PrepareBootCode, ApInv, AloneInv, BootedAp
  <2> QED BY <2>3, <2>4, <2>5, <2>6 DEF ApInv
<1>2. CASE PrepareFails \/ ApsAreBooted
  <2>2. bsp'.pc \in {"panic", "done"} /\ bsp'.next = bsp.next /\ bsp.pc = "boot" /\ bsp' \in [pc : {"boot", "send", "wait", "done", "panic"}, next : Nat \ {0}]
    BY <1>2 DEF PrepareFails, ApsAreBooted, ApInv, ApTypeOK
  <2>3. ApTypeOK'
    BY <1>2, <2>2 DEF PrepareFails, ApsAreBooted, ApInv, ApTypeOK
  <2>4. PageInv'
    BY <1>2, <2>2 DEF PrepareFails, ApsAreBooted, ApInv, PageInv, BootedAp
  <2>5. OwnInv'
    BY <1>2, <2>2 DEF PrepareFails, ApsAreBooted, ApInv, OwnInv, Asked, BootedAp
  <2>6. AloneInv'
    <3>1. ap' = ap /\ started' = started /\ timedOut' = timedOut
      BY <1>2 DEF PrepareFails, ApsAreBooted
    <3> QED BY <2>2, <3>1 DEF ApInv, AloneInv, BootedAp
  <2> QED BY <2>3, <2>4, <2>5, <2>6 DEF ApInv
<1>3. CASE SendInit
  <2>1. bsp.next \in DOMAIN ApIds /\ BootedAp \in Aps /\ ~Asked(BootedAp)
    <3>1. bsp.pc = "send" /\ bsp.next \in DOMAIN ApIds /\ BootedAp = ApIds[bsp.next]
      BY <1>3 DEF SendInit, ApInv, PageInv, BootedAp
    <3>2. \A k \in DOMAIN ApIds : k < bsp.next => ApIds[k] # BootedAp
      BY <3>1, ApIdFacts
    <3> QED BY <3>1, <3>2, ApIdFacts DEF Asked
  <2>2. bsp'.pc = "wait" /\ bsp'.next = bsp.next /\ bsp.pc = "send" /\ bsp' \in [pc : {"boot", "send", "wait", "done", "panic"}, next : Nat \ {0}]
    BY <1>3 DEF SendInit, ApInv, ApTypeOK
  <2>3. /\ ap' \in [Aps -> ApRecord]
        /\ ap'[BootedAp].pc = "real mode" /\ ap'[BootedAp].cpu = ap[BootedAp].cpu
        /\ \A j \in Aps : j # BootedAp => ap'[j] = ap[j]
    <3>1. ap' = [ap EXCEPT ![BootedAp].pc = "real mode"] /\ ap \in [Aps -> ApRecord]
      BY <1>3 DEF SendInit, ApInv, ApTypeOK
    <3> QED BY <2>1, <3>1 DEF ApRecord
  <2>4. BootedAp' = BootedAp
    BY <2>2 DEF BootedAp
  <2>5. ap[BootedAp].pc = "halted" /\ ap[BootedAp].cpu = NoCpu
    BY <2>1 DEF ApInv, OwnInv
  <2>6. ApTypeOK'
    BY <1>3, <2>2, <2>3 DEF SendInit, ApInv, ApTypeOK
  <2>7. PageInv'
    BY <1>3, <2>2, <2>4 DEF SendInit, ApInv, PageInv
  <2>8. OwnInv'
    <3>1. \A i \in Aps : Asked(i) => Asked(i)'
      BY <2>2, <2>4 DEF Asked
    <3>2. ASSUME NEW i \in Aps, i = BootedAp PROVE Asked(i)'
      BY <2>2, <2>4, <3>2 DEF Asked
    <3>3. \A i \in Aps : ~Asked(i)' => i # BootedAp /\ ap'[i] = ap[i] /\ ~Asked(i)
      BY <2>3, <3>1, <3>2
    <3>4. \A i \in Aps : ~Asked(i)' => ap'[i].pc = "halted" /\ ap'[i].cpu = NoCpu
      BY <3>3 DEF ApInv, OwnInv
    <3>5. \A i \in Aps : ap'[i].pc \in {"signal", "running"} => ap'[i].cpu = i
      BY <2>3 DEF ApInv, OwnInv
    <3>6. \A c \in CpuIds \ {BspId} :
         /\ tssUsers'[c] \subseteq {c}
         /\ started'[c] => c \in Aps /\ ap'[c].pc = "running"
      BY <1>3, <2>3, <2>5 DEF SendInit, ApInv, OwnInv
    <3> QED BY <3>4, <3>5, <3>6 DEF OwnInv
  <2>9. AloneInv'
    <3> SUFFICES ASSUME ~timedOut PROVE AloneInv'
      BY <1>3 DEF SendInit, AloneInv
    <3>1. \A k \in DOMAIN ApIds : k < bsp'.next => started'[ApIds[k]]
      BY <1>3, <2>2 DEF SendInit, ApInv, AloneInv
    <3>2. ASSUME NEW i \in Aps
          PROVE  /\ ap'[i].pc \notin {"lost", "panic"}
                 /\ ap'[i].pc \in {"real mode", "long mode"} => bsp'.pc = "wait" /\ i = BootedAp'
                 /\ ap'[i].cpu # NoCpu => ap'[i].cpu = i
                 /\ ap'[i].pc \in {"set gs", "set tss"} => ap'[i].cpu = i
      BY <2>2, <2>3, <2>4, <2>5 DEF ApInv, AloneInv
    <3> QED BY <3>1, <3>2 DEF AloneInv
  <2> QED BY <2>6, <2>7, <2>8, <2>9 DEF ApInv
<1>4. ASSUME NEW timeout \in BOOLEAN, WaitEnds(timeout) PROVE ApInv'
  <2>1. bsp.pc = "wait" /\ bsp.next \in DOMAIN ApIds /\ BootedAp \in Aps /\ BootedAp = ApIds[bsp.next]
    BY <1>4, ApIdFacts DEF WaitEnds, ApInv, PageInv, BootedAp
  <2>2. bsp'.pc = "boot" /\ bsp'.next = bsp.next + 1 /\ bsp' \in [pc : {"boot", "send", "wait", "done", "panic"}, next : Nat \ {0}]
    BY <1>4 DEF WaitEnds, ApInv, ApTypeOK
  <2>3. bootPage' = OriginalPage /\ savedPage' = {}
    BY <1>4, <2>1 DEF WaitEnds, ApInv, PageInv
  <2>4. ApTypeOK'
    BY <1>4, <2>2 DEF WaitEnds, ApInv, ApTypeOK
  <2>5. PageInv'
    BY <2>2, <2>3 DEF PageInv
  <2>6. \A k \in DOMAIN ApIds : k < bsp'.next <=> k < bsp.next \/ k = bsp.next
    BY <2>1, <2>2, ApIdFacts DEF ApInv, ApTypeOK
  <2>7. OwnInv'
    <3>1. \A i \in Aps : Asked(i) => Asked(i)'
      BY <2>1, <2>6 DEF Asked
    <3> QED BY <1>4, <3>1 DEF WaitEnds, ApInv, OwnInv
  <2>8. AloneInv'
    <3> SUFFICES ASSUME ~timedOut' PROVE AloneInv'
      BY DEF AloneInv
    <3>1. ~timedOut /\ started[BootedAp] /\ ap' = ap /\ started' = started
      BY <1>4 DEF WaitEnds, ApInv, ApTypeOK
    <3>2. ap[BootedAp].pc = "running"
      BY <2>1, <3>1, ApIdFacts DEF ApInv, OwnInv
    <3>3. \A i \in Aps : ap[i].pc \notin {"real mode", "long mode"}
      BY <2>1, <3>1, <3>2 DEF ApInv, AloneInv
    <3>4. \A k \in DOMAIN ApIds : k < bsp'.next => started'[ApIds[k]]
      BY <2>1, <2>6, <3>1 DEF ApInv, AloneInv
    <3> QED BY <3>1, <3>3, <3>4 DEF ApInv, AloneInv
  <2> QED BY <2>4, <2>5, <2>7, <2>8 DEF ApInv
<1>5. ASSUME NEW i \in Aps, RunBootCode(i) PROVE ApInv'
  <2>1. /\ bsp' = bsp /\ bootPage' = bootPage /\ savedPage' = savedPage /\ started' = started
        /\ tssUsers' = tssUsers /\ timedOut' = timedOut /\ BootedAp' = BootedAp
    BY <1>5 DEF RunBootCode, BootedAp
  <2>2. CASE ap[i].pc = "real mode"
    <3> DEFINE p == IF bootPage.code = "switch mode" THEN "long mode" ELSE "lost"
    <3>1. ap' = [ap EXCEPT ![i].pc = p]
      BY <1>5, <2>2 DEF RunBootCode
    <3>2. p \in ApPcs
      BY DEF ApPcs
    <3>3. /\ ap' \in [Aps -> ApRecord] /\ ap'[i].pc = p /\ ap'[i].cpu = ap[i].cpu
          /\ \A j \in Aps : j # i => ap'[j] = ap[j]
      <4> HIDE DEF p, ApPcs
      <4> QED BY <3>1, <3>2 DEF ApInv, ApTypeOK, ApRecord
    <3> QED BY <1>5, <2>1, <2>2, <3>3, ApRuns
  <2>3. CASE ap[i].pc = "long mode"
    <3> DEFINE new == IF bootPage.code = "switch mode" THEN [pc |-> "set gs", cpu |-> bootPage.cpu]
                      ELSE [ap[i] EXCEPT !.pc = "lost"]
    <3>1. ap' = [ap EXCEPT ![i] = new]
      BY <1>5, <2>3 DEF RunBootCode
    <3>2. bootPage.code = "switch mode" => bootPage.cpu \in CpuIds
      BY ApPageFacts, ApIdFacts
    <3>3. ap[i] \in ApRecord
      BY DEF ApInv, ApTypeOK
    <3>4. new \in ApRecord
      BY <3>2, <3>3 DEF ApRecord
    <3>5. /\ ap' \in [Aps -> ApRecord] /\ ap'[i] = new
          /\ \A j \in Aps : j # i => ap'[j] = ap[j]
      <4> HIDE DEF new, ApPcs
      <4> QED BY <3>1, <3>4 DEF ApInv, ApTypeOK
    <3>6. \/ bootPage.code # "switch mode" /\ ap'[i].pc = "lost" /\ ap'[i].cpu = ap[i].cpu
          \/ bootPage.code = "switch mode" /\ ap'[i].pc = "set gs" /\ ap'[i].cpu = bootPage.cpu
      <4>1. CASE bootPage.code = "switch mode"
        <5>1. ap'[i] = [pc |-> "set gs", cpu |-> bootPage.cpu]
          BY <3>5, <4>1
        <5>2. \A c : [pc |-> "set gs", cpu |-> c].pc = "set gs" /\ [pc |-> "set gs", cpu |-> c].cpu = c
          OBVIOUS
        <5> QED BY <4>1, <5>1, <5>2, Zenon
      <4>2. CASE bootPage.code # "switch mode"
        <5>1. ap'[i] = [ap[i] EXCEPT !.pc = "lost"]
          BY <3>5, <4>2
        <5> QED BY <3>3, <4>2, <5>1 DEF ApRecord
      <4> QED BY <4>1, <4>2
    <3> QED BY <2>1, <2>3, <3>5, <3>6, ApRuns
  <2> QED BY <1>5, <2>2, <2>3 DEF RunBootCode
<1>6. ASSUME NEW i \in Aps, SetGs(i) \/ SetTss(i) \/ SignalInitialized(i) PROVE ApInv'
  <2>1. /\ bsp' = bsp /\ bootPage' = bootPage /\ savedPage' = savedPage /\ timedOut' = timedOut
        /\ BootedAp' = BootedAp
    BY <1>6 DEF SetGs, SetTss, SignalInitialized, BootedAp
  <2>2. /\ \A j \in Aps : j # i => ap'[j] = ap[j]
        /\ ap'[i].cpu = ap[i].cpu
        /\ ap' \in [Aps -> ApRecord]
    <3>1. PICK p \in ApPcs : ap' = [ap EXCEPT ![i].pc = p]
      BY <1>6, Zenon DEF SetGs, SetTss, SignalInitialized
    <3> QED BY ZenonT(30), <3>1 DEF ApInv, ApTypeOK, ApRecord
  <2>3. \/ ap[i].pc = "set gs" /\ ap'[i].pc = "set tss" /\ UNCHANGED <<tssUsers, started>>
        \/ /\ ap[i].pc = "set tss" /\ ap'[i].pc = "panic" /\ ap[i].cpu # i
           /\ UNCHANGED <<tssUsers, started>>
        \/ /\ ap[i].pc = "set tss" /\ ap'[i].pc = "signal" /\ ap[i].cpu = i
           /\ tssUsers' = [tssUsers EXCEPT ![i] = @ \cup {i}] /\ started' = started
        \/ /\ ap[i].pc = "signal" /\ ap'[i].pc = IF started[ap[i].cpu] THEN "panic" ELSE "running"
           /\ started' = [started EXCEPT ![ap[i].cpu] = TRUE] /\ tssUsers' = tssUsers
    <3>1. \A p \in ApPcs : ap' = [ap EXCEPT ![i].pc = p] => ap'[i].pc = p
      BY DEF ApInv, ApTypeOK, ApRecord
    <3>2. CASE SetGs(i)
      BY <3>1, <3>2 DEF SetGs
    <3>3. CASE SetTss(i) /\ ap[i].cpu = i
      BY <3>1, <3>3 DEF SetTss
    <3>4. CASE SetTss(i) /\ ap[i].cpu # i
      BY <3>1, <3>4 DEF SetTss
    <3>5. CASE SignalInitialized(i)
      BY <3>1, <3>5 DEF SignalInitialized
    <3> QED BY <1>6, <3>2, <3>3, <3>4, <3>5
  <2>4. ap[i].cpu = i => i \in CpuIds /\ i # BspId
    <3>1. ap[i] \in ApRecord
      BY DEF ApInv, ApTypeOK
    <3>2. ap[i].cpu \in CpuIds \cup {NoCpu}
      BY <3>1 DEF ApRecord
    <3> QED BY <3>2
  <2>5. ap[i].pc = "signal" => ap[i].cpu = i /\ ~started[i]
    BY <2>4 DEF ApInv, OwnInv
  <2>6. ApTypeOK'
    <3>1. started' \in [CpuIds -> BOOLEAN]
      BY <2>3 DEF ApInv, ApTypeOK
    <3>2. tssUsers' \in [CpuIds -> SUBSET HardwareIds]
      <4>1. \/ tssUsers' = tssUsers
            \/ tssUsers' = [tssUsers EXCEPT ![i] = @ \cup {i}]
        BY <2>3
      <4>2. i \in HardwareIds /\ tssUsers \in [CpuIds -> SUBSET HardwareIds]
        BY DEF ApInv, ApTypeOK
      <4> QED BY <4>1, <4>2
    <3> QED BY <2>1, <2>2, <3>1, <3>2 DEF ApInv, ApTypeOK
  <2>7. PageInv'
    BY <2>1 DEF ApInv, PageInv
  <2>8. OwnInv'
    <3>1. \A j \in Aps : Asked(j)' <=> Asked(j)
      BY <2>1 DEF Asked
    <3>2. Asked(i)
      BY <2>3 DEF ApInv, OwnInv
    <3>3. \A j \in Aps : ~Asked(j)' => ap'[j].pc = "halted" /\ ap'[j].cpu = NoCpu
      BY <2>2, <3>1, <3>2 DEF ApInv, OwnInv
    <3>4. \A j \in Aps : ap'[j].pc \in {"signal", "running"} => ap'[j].cpu = j
      BY <2>2, <2>3, <2>5 DEF ApInv, OwnInv
    <3>5. ASSUME NEW c \in CpuIds \ {BspId}
          PROVE  /\ tssUsers'[c] \subseteq {c}
                 /\ started'[c] => c \in Aps /\ ap'[c].pc = "running"
      <4>1. tssUsers[c] \subseteq {c} /\ (started[c] => c \in Aps /\ ap[c].pc = "running")
        BY DEF ApInv, OwnInv
      <4>2. tssUsers'[c] \subseteq {c}
        BY <2>3, <2>4, <4>1 DEF ApInv, ApTypeOK
      <4>3. CASE c = i
        BY <2>3, <2>5, <4>1, <4>2, <4>3 DEF ApInv, ApTypeOK
      <4>4. CASE c # i
        BY ZenonT(30), <2>2, <2>3, <2>5, <4>1, <4>2, <4>4 DEF ApInv, ApTypeOK
      <4> QED BY <4>3, <4>4
    <3> QED BY <3>3, <3>4, <3>5 DEF OwnInv
  <2>9. AloneInv'
    <3> SUFFICES ASSUME ~timedOut PROVE AloneInv'
      BY <2>1 DEF AloneInv
    <3>1. ASSUME NEW j \in Aps
          PROVE  /\ ap'[j].pc \notin {"lost", "panic"}
                 /\ ap'[j].pc \in {"real mode", "long mode"} => bsp'.pc = "wait" /\ j = BootedAp'
                 /\ ap'[j].cpu # NoCpu => ap'[j].cpu = j
                 /\ ap'[j].pc \in {"set gs", "set tss"} => ap'[j].cpu = j
      <4>1. CASE j = i
        BY <2>1, <2>2, <2>3, <2>5, <4>1 DEF ApInv, AloneInv
      <4>2. CASE j # i
        BY <2>1, <2>2, <4>2 DEF ApInv, AloneInv
      <4> QED BY <4>1, <4>2
    <3>2. \A k \in DOMAIN ApIds : k < bsp'.next => started'[ApIds[k]]
      <4> SUFFICES ASSUME NEW k \in DOMAIN ApIds, k < bsp.next PROVE started'[ApIds[k]]
        BY <2>1
      <4>1. started[ApIds[k]] = TRUE
        BY DEF ApInv, AloneInv, ApTypeOK
      <4> QED BY <2>3, <2>5, <4>1, ApIdFacts DEF ApInv, ApTypeOK
    <3> QED BY <3>1, <3>2 DEF AloneInv
  <2> QED BY <2>6, <2>7, <2>8, <2>9 DEF ApInv
<1>7. CASE UNCHANGED apVars
  BY ZenonT(30), <1>7 DEF apVars, ApInv, ApTypeOK, PageInv, OwnInv, AloneInv, Asked, BootedAp
<1> QED
  <2>1. \/ PrepareBootCode \/ (PrepareFails \/ ApsAreBooted) \/ SendInit
        \/ \E timeout \in BOOLEAN : WaitEnds(timeout)
        \/ \E i \in Aps : RunBootCode(i)
        \/ \E i \in Aps : SetGs(i) \/ SetTss(i) \/ SignalInitialized(i)
        \/ UNCHANGED apVars
    BY ZenonT(60) DEF ApNext, Aps
  <2> QED BY <1>1, <1>2, <1>3, <1>4, <1>5, <1>6, <1>7, <2>1

\* init_smp() starts with all the other processors halted and the page as it was.
LEMMA InitEstablishesAp == ApInit => ApInv
<1> SUFFICES ASSUME ApInit PROVE ApInv
  OBVIOUS
<1> USE BspIsApart
<1> HIDE DEF ApIds, Aps, CpuIds, HardwareIds, BspId, NoCpu
<1>1. /\ bsp \in [pc : {"boot", "send", "wait", "done", "panic"}, next : Nat \ {0}]
      /\ bsp.pc = "boot" /\ bsp.next = 1 /\ started \in [CpuIds -> BOOLEAN] /\ timedOut = FALSE
  BY DEF ApInit
<1>2. ap \in [Aps -> ApRecord] /\ \A i \in Aps : ap[i].pc = "halted" /\ ap[i].cpu = NoCpu
  BY DEF ApInit, ApRecord, ApPcs, Aps
<1>3. /\ tssUsers \in [CpuIds -> SUBSET HardwareIds]
      /\ \A c \in CpuIds \ {BspId} : tssUsers[c] = {} /\ ~started[c]
  BY DEF ApInit
<1>4. ApTypeOK
  BY <1>1, <1>2, <1>3 DEF ApTypeOK
<1>5. PageInv
  BY <1>1 DEF ApInit, PageInv
<1>6. OwnInv
  BY <1>2, <1>3 DEF OwnInv
<1>7. AloneInv
  <2>1. \A k \in DOMAIN ApIds : ~(k < bsp.next)
    BY <1>1, ApIdFacts
  <2> QED BY <1>1, <1>2, <2>1 DEF AloneInv
<1> QED BY <1>4, <1>5, <1>6, <1>7 DEF ApInv

\* The inductive invariant of the start of the processors, for any tables.
THEOREM ApInvariance == ApSpec => []ApInv
BY InitEstablishesAp, ApPreserved, PTL DEF ApSpec

\* boot_ap() gives each processor the boot page, a Cpu and a stack of its own, one after another,
\* and puts the page back; a late processor never runs on the Cpu of another.
THEOREM ProcessorsAlwaysStartApart == ApSpec => []ProcessorsStartApart
<1>1. ApInv => ProcessorsStartApart
  <2> SUFFICES ASSUME ApInv PROVE ProcessorsStartApart
    OBVIOUS
  <2> USE BspIsApart
  <2> HIDE DEF ApIds, Aps, CpuIds, HardwareIds, BspId, NoCpu
  <2>1. DOMAIN ap = Aps
    BY DEF ApInv, ApTypeOK
  <2>2. ApsStartApart
    BY <2>1 DEF ApsStartApart, UsersOf, ApInv, PageInv, AloneInv
  <2>3. OnlyOwnCpuIsStarted
    <3>1. \A c \in Aps : ap[c] \in ApRecord
      BY DEF ApInv, ApTypeOK
    <3>2. \A c \in Aps : ap[c].pc = "running" => ap[c] = [pc |-> "running", cpu |-> c]
      BY <3>1 DEF ApInv, OwnInv, ApRecord
    <3> QED BY <2>1, <3>2 DEF OnlyOwnCpuIsStarted, ApInv, OwnInv
  <2>4. BootPageIsRestored
    <3>1. ASSUME NEW i \in Aps, i \notin {ApIds[k] : k \in {n \in DOMAIN ApIds : n <= bsp.next}}
          PROVE  ap[i].pc = "halted"
      <4>1. ~Asked(i)
        BY <3>1, ApIdFacts DEF Asked, BootedAp, ApInv, PageInv, ApTypeOK
      <4> QED BY <4>1 DEF ApInv, OwnInv
    <3> QED BY <2>1, <3>1 DEF BootPageIsRestored, ApInv, PageInv
  <2> QED BY <2>2, <2>3, <2>4 DEF ProcessorsStartApart
<1> QED BY <1>1, ApInvariance, PTL
-----------------------------------------------------------------------------
(* The driver of ATA disks *)

Commands == {"none", "read", "write", "flush", "count"}
Contents(d) == [Sectors(d) -> Nat]
DriveRecord(d) ==
    [busy : BOOLEAN, error : BOOLEAN, command : Commands, at : Nat, left : Nat,
     cache : Contents(d), media : Contents(d)]
CallPcs == {"idle", "wait", "send", "wait sector", "transfer", "wait command", "command done", "done"}
DiskResults == {"none", "Ok", "Medium", "Timeout"}
CallRecord ==
    [pc : CallPcs, op : Commands, disk : Drives, first : Nat, len : Nat, left : Nat, value : Nat,
     got : Seq(Int), result : DiskResults]

DrivesOK ==
    /\ drive = [d \in Drives |-> drive[d]] /\ \A d \in Drives : drive[d] \in DriveRecord(d)
    /\ selected \in Drives
CallOK ==
    /\ call \in CallRecord /\ calls \in Nat
    /\ call.first + call.len <= DriveSectors[call.disk]
    /\ call.pc \in {"wait", "send"} => call.left = call.len /\ call.got = <<>> /\ call.op # "none"
PossibleOK ==
    /\ possible = [d \in Drives |-> possible[d]]
    /\ \A d \in Drives : possible[d] \in [Sectors(d) -> SUBSET Nat]
DiskTypeOK == DrivesOK /\ CallOK /\ PossibleOK

NoError == \A d \in Drives : ~drive[d].error
InTransfer == call.pc \in {"wait sector", "transfer"}
InCommand == call.pc \in {"wait command", "command done"}
ReturnsOk == call.pc = "done" /\ call.result = "Ok"

\* A drive works, or has failed, only as the selected one; a wait that succeeded is still good when
\* the driver goes on; and between the command and its end the drive is the one of the call.
ChannelInv ==
    /\ \A d \in Drives : drive[d].busy \/ drive[d].error => d = selected
    /\ call.pc \in {"send", "transfer", "command done"} => ~drive[selected].busy /\ ~drive[selected].error
    /\ InTransfer \/ InCommand => selected = call.disk /\ (NoError => drive[selected].command = call.op)
    /\ InTransfer => call.op \in {"read", "write"}
    /\ InCommand => call.op \in {"flush", "count"}

\* The driver and the drive agree on the sector that comes next.
StepInv ==
    /\ InTransfer =>
         /\ call.left \in 1 .. call.len
         /\ NoError => /\ drive[selected].left = call.left
                       /\ drive[selected].at = call.first + (call.len - call.left)
    /\ call.op \in {"read", "write"} /\ ReturnsOk => call.left = 0

\* What was read so far is what the sectors held.
ReadInv ==
    call.op = "read" /\ (InTransfer \/ ReturnsOk) =>
        /\ Len(call.got) = call.len - call.left
        /\ \A i \in 1 .. Len(call.got) : call.got[i] \in possible[call.disk][call.first + (i - 1)]

\* What was written so far is in the cache of the drive, unless it has failed since.
WriteInv ==
    call.op = "write" /\ call.pc # "idle" =>
        /\ \A s \in call.first .. call.first + call.len - 1 : call.value \in possible[call.disk][s]
        /\ (InTransfer \/ ReturnsOk) /\ NoError =>
             \A s \in Sectors(call.disk) :
                 s >= call.first /\ s < call.first + (call.len - call.left) =>
                     drive[call.disk].cache[s] = call.value

\* An error is for ever: wait_ready() reports it to every later call and nobody sends a command.
CacheInv == NoError => \A d \in Drives : \A s \in Sectors(d) : drive[d].cache[s] \in possible[d][s]

CommandInv ==
    /\ InCommand =>
         /\ drive[call.disk].at = DriveSectors[call.disk] - 1
         /\ call.op = "flush" /\ ~drive[call.disk].busy /\ ~drive[call.disk].error =>
              drive[call.disk].media = drive[call.disk].cache
    /\ ReturnsOk /\ call.op = "flush" =>
         /\ NoError /\ \A d \in Drives : ~drive[d].busy
         /\ drive[call.disk].media = drive[call.disk].cache
    /\ ReturnsOk /\ call.op = "count" => call.got = <<DriveSectors[call.disk]>>

DiskInv == DiskTypeOK /\ ChannelInv /\ StepInv /\ ReadInv /\ WriteInv /\ CacheInv /\ CommandInv

\* What becomes of the drives when one of them has a new state.
LEMMA DriveBecomes ==
    ASSUME DrivesOK, NEW d \in Drives, NEW new \in DriveRecord(d), drive' = [drive EXCEPT ![d] = new],
           selected' \in Drives
    PROVE  /\ DrivesOK' /\ drive'[d] = new
           /\ \A e \in Drives : e # d => drive'[e] = drive[e]
<1>1. drive'[d] = new /\ \A e \in Drives : e # d => drive'[e] = drive[e]
  BY DEF DrivesOK
<1>2. drive' = [e \in Drives |-> drive'[e]]
  BY DEF DrivesOK
<1>3. \A e \in Drives : drive'[e] \in DriveRecord(e)
  BY <1>1 DEF DrivesOK
<1> QED BY <1>1, <1>2, <1>3 DEF DrivesOK

\* The drive: what its steps do to each field of its state.
LEMMA DriveSteps ==
    ASSUME DrivesOK
    PROVE  /\ \A d \in Drives : DriveReady(d) =>
                /\ DrivesOK' /\ drive[d].busy
                /\ drive'[d].busy = FALSE /\ drive'[d].error = drive[d].error
                /\ drive'[d].command = drive[d].command /\ drive'[d].at = drive[d].at
                /\ drive'[d].left = drive[d].left /\ drive'[d].cache = drive[d].cache
                /\ drive'[d].media = IF drive[d].command = "flush" THEN drive[d].cache ELSE drive[d].media
                /\ \A e \in Drives : e # d => drive'[e] = drive[e]
           /\ \A d \in Drives : DriveFails(d) =>
                /\ DrivesOK' /\ drive[d].busy
                /\ drive'[d].busy = FALSE /\ drive'[d].error = TRUE /\ drive'[d].at = drive[d].at
                /\ \A e \in Drives : e # d => drive'[e] = drive[e]
<1>1. ASSUME NEW d \in Drives, DriveReady(d)
      PROVE  /\ DrivesOK' /\ drive[d].busy
             /\ drive'[d].busy = FALSE /\ drive'[d].error = drive[d].error
             /\ drive'[d].command = drive[d].command /\ drive'[d].at = drive[d].at
             /\ drive'[d].left = drive[d].left /\ drive'[d].cache = drive[d].cache
             /\ drive'[d].media = IF drive[d].command = "flush" THEN drive[d].cache ELSE drive[d].media
             /\ \A e \in Drives : e # d => drive'[e] = drive[e]
  <2> DEFINE media == IF drive[d].command = "flush" THEN drive[d].cache ELSE drive[d].media
             new == [drive[d] EXCEPT !.busy = FALSE, !.media = media]
  <2>1. drive[d] \in DriveRecord(d)
    BY DEF DrivesOK
  <2>2. media \in Contents(d)
    BY <2>1 DEF DriveRecord
  <2>3. /\ new \in DriveRecord(d) /\ new.busy = FALSE /\ new.error = drive[d].error
        /\ new.command = drive[d].command /\ new.at = drive[d].at /\ new.left = drive[d].left
        /\ new.cache = drive[d].cache /\ new.media = media
    <3> HIDE DEF media
    <3> QED BY <2>1, <2>2 DEF DriveRecord
  <2>4. drive' = [drive EXCEPT ![d] = new] /\ selected' \in Drives /\ drive[d].busy
    BY <1>1 DEF DriveReady, DrivesOK
  <2> HIDE DEF new
  <2>5. /\ DrivesOK' /\ drive'[d] = new
        /\ \A e \in Drives : e # d => drive'[e] = drive[e]
    BY <2>3, <2>4, DriveBecomes
  <2> QED BY <2>3, <2>4, <2>5
<1>2. ASSUME NEW d \in Drives, DriveFails(d)
      PROVE  /\ DrivesOK' /\ drive[d].busy
             /\ drive'[d].busy = FALSE /\ drive'[d].error = TRUE /\ drive'[d].at = drive[d].at
             /\ \A e \in Drives : e # d => drive'[e] = drive[e]
  <2> DEFINE new == [drive[d] EXCEPT !.busy = FALSE, !.error = TRUE, !.command = "none", !.left = 0,
                                     !.cache = drive[d].media]
  <2>1. drive[d] \in DriveRecord(d)
    BY DEF DrivesOK
  <2>2. new \in DriveRecord(d) /\ new.busy = FALSE /\ new.error = TRUE /\ new.at = drive[d].at
    BY <2>1 DEF DriveRecord, Commands
  <2>3. drive' = [drive EXCEPT ![d] = new] /\ selected' \in Drives /\ drive[d].busy
    BY <1>2 DEF DriveFails, DrivesOK
  <2> HIDE DEF new
  <2>4. /\ DrivesOK' /\ drive'[d] = new
        /\ \A e \in Drives : e # d => drive'[e] = drive[e]
    BY <2>2, <2>3, DriveBecomes
  <2> QED BY <2>2, <2>3, <2>4
<1> QED BY <1>1, <1>2

\* A drive that gets ready or fails keeps the invariant: the driver is waiting for it, or is not in
\* the middle of a call.
LEMMA DriveStepsPreserve ==
    ASSUME DiskInv, NEW d \in Drives, DriveReady(d) \/ DriveFails(d)
    PROVE  DiskInv'
<1>1. /\ call' = call /\ calls' = calls /\ selected' = selected /\ possible' = possible
      /\ InTransfer' = InTransfer /\ InCommand' = InCommand /\ ReturnsOk' = ReturnsOk
  BY DEF DriveReady, DriveFails, InTransfer, InCommand, ReturnsOk
<1>2. DrivesOK /\ d = selected /\ drive[d].busy
  BY DEF DriveReady, DriveFails, DiskInv, DiskTypeOK, ChannelInv
<1>3. call.pc \notin {"send", "transfer", "command done"}
  BY <1>2 DEF DiskInv, ChannelInv
<1>4. /\ DrivesOK'
      /\ drive'[d].busy = FALSE /\ drive'[d].at = drive[d].at
      /\ \A e \in Drives : e # d => drive'[e] = drive[e]
  BY <1>2, DriveSteps
<1>5. DiskTypeOK'
  <2>1. CallOK' /\ PossibleOK'
    BY <1>1 DEF DiskInv, DiskTypeOK, CallOK, PossibleOK
  <2> QED BY <1>4, <2>1 DEF DiskTypeOK
<1>6. NoError' => DriveReady(d)
  BY <1>2, DriveSteps DEF NoError
<1>7. NoError' => /\ NoError /\ drive'[d].command = drive[d].command
                  /\ drive'[d].left = drive[d].left /\ drive'[d].cache = drive[d].cache
  <2> SUFFICES ASSUME NoError' PROVE /\ NoError /\ drive'[d].command = drive[d].command
                  /\ drive'[d].left = drive[d].left /\ drive'[d].cache = drive[d].cache
    OBVIOUS
  <2>1. /\ drive'[d].error = drive[d].error /\ drive'[d].command = drive[d].command
        /\ drive'[d].left = drive[d].left /\ drive'[d].cache = drive[d].cache
    BY <1>2, <1>6, DriveSteps
  <2>2. \A e \in Drives : drive'[e].error = drive[e].error
    BY <1>4, <2>1
  <2> QED BY <2>1, <2>2 DEF NoError
<1>8. ChannelInv'
  <2>1. \A e \in Drives : drive'[e].busy \/ drive'[e].error => e = selected
    BY <1>2, <1>4 DEF DiskInv, ChannelInv
  <2>2. InTransfer \/ InCommand => selected = call.disk /\ (NoError' => drive'[selected].command = call.op)
    <3>1. InTransfer \/ InCommand => selected = call.disk /\ (NoError => drive[selected].command = call.op)
      BY DEF DiskInv, ChannelInv
    <3> QED BY <1>2, <1>7, <3>1
  <2>3. (InTransfer => call.op \in {"read", "write"}) /\ (InCommand => call.op \in {"flush", "count"})
    BY DEF DiskInv, ChannelInv
  <2> QED BY <1>1, <1>3, <2>1, <2>2, <2>3 DEF ChannelInv
<1>9. StepInv'
  BY <1>1, <1>2, <1>4, <1>7 DEF DiskInv, StepInv
<1>10. ReadInv'
  BY <1>1 DEF DiskInv, ReadInv
<1>11. WriteInv'
  <2>1. NoError' => \A e \in Drives : drive'[e].cache = drive[e].cache
    BY <1>4, <1>7
  <2>2. call.disk \in Drives
    BY DEF DiskInv, DiskTypeOK, CallOK, CallRecord
  <2> QED BY <1>1, <1>7, <2>1, <2>2 DEF DiskInv, WriteInv
<1>12. CacheInv'
  BY <1>1, <1>4, <1>7 DEF DiskInv, CacheInv
<1>13. CommandInv'
  <2>1. call.disk \in Drives
    BY DEF DiskInv, DiskTypeOK, CallOK, CallRecord
  <2>2. InCommand => /\ selected = call.disk
                     /\ drive[call.disk].at = DriveSectors[call.disk] - 1
                     /\ (NoError => drive[call.disk].command = call.op)
    BY DEF DiskInv, ChannelInv, CommandInv
  <2>3. InCommand => drive'[call.disk].at = DriveSectors[call.disk] - 1
    BY <1>2, <1>4, <2>2
  <2>4. ASSUME InCommand, call.op = "flush", ~drive'[call.disk].error
        PROVE  drive'[call.disk].media = drive'[call.disk].cache
    <3>1. DriveReady(d) /\ d = call.disk
      BY <1>2, <2>2, <2>4, DriveSteps
    <3>2. drive'[d].error = drive[d].error /\ drive'[d].cache = drive[d].cache
          /\ drive'[d].media = IF drive[d].command = "flush" THEN drive[d].cache ELSE drive[d].media
      BY <1>2, <3>1, DriveSteps
    <3>3. NoError
      BY <1>2, <2>4, <3>1, <3>2 DEF NoError, DiskInv, ChannelInv
    <3> QED BY <2>2, <2>4, <3>1, <3>2, <3>3
  <2>5. ReturnsOk => call.op # "flush"
    BY <1>2 DEF DiskInv, CommandInv
  <2>6. ReturnsOk /\ call.op = "count" => call.got = <<DriveSectors[call.disk]>>
    BY DEF DiskInv, CommandInv
  <2> QED BY <1>1, <2>3, <2>4, <2>5, <2>6 DEF CommandInv
<1> QED BY <1>5, <1>8, <1>9, <1>10, <1>11, <1>12, <1>13 DEF DiskInv

\* wait_ready() changes nothing but where the call is, and goes on only when the selected drive is
\* neither busy nor in error.
LEMMA WaitSteps ==
    ASSUME DiskInv, NEW pc, NEW next \in CallPcs, DriverWaits(pc, next)
    PROVE  /\ UNCHANGED <<drive, selected, calls, possible>>
           /\ call' \in CallRecord /\ call.pc = pc
           /\ call'.op = call.op /\ call'.disk = call.disk /\ call'.first = call.first
           /\ call'.len = call.len /\ call'.left = call.left /\ call'.value = call.value
           /\ call'.got = call.got
           /\ \/ /\ call'.pc = next /\ call'.result = call.result
                 /\ ~drive[selected].busy /\ ~drive[selected].error
              \/ call'.pc = "done" /\ call'.result \in {"Medium", "Timeout"}
<1>1. call \in CallRecord
  BY DEF DiskInv, DiskTypeOK, CallOK
<1>2. UNCHANGED <<drive, selected, calls, possible>> /\ call.pc = pc
  BY DEF DriverWaits
<1>3. \/ call' = [call EXCEPT !.pc = next] /\ ~drive[selected].busy /\ ~drive[selected].error
      \/ \E result \in {"Medium", "Timeout"} : call' = [call EXCEPT !.pc = "done", !.result = result]
  BY DEF DriverWaits, WaitReady, GoOn, Finish
<1>4. CASE call' = [call EXCEPT !.pc = next] /\ ~drive[selected].busy /\ ~drive[selected].error
  <2> HIDE DEF CallPcs
  <2>1. /\ call' \in CallRecord /\ call'.pc = next
        /\ call'.op = call.op /\ call'.disk = call.disk /\ call'.first = call.first
        /\ call'.len = call.len /\ call'.left = call.left /\ call'.value = call.value
        /\ call'.got = call.got /\ call'.result = call.result
    BY <1>1, <1>4 DEF CallRecord
  <2> QED BY <1>2, <1>4, <2>1
<1>5. ASSUME NEW result \in {"Medium", "Timeout"}, call' = [call EXCEPT !.pc = "done", !.result = result]
      PROVE  /\ call' \in CallRecord /\ call'.pc = "done" /\ call'.result = result
             /\ call'.op = call.op /\ call'.disk = call.disk /\ call'.first = call.first
             /\ call'.len = call.len /\ call'.left = call.left /\ call'.value = call.value
             /\ call'.got = call.got
  BY <1>1, <1>5 DEF CallRecord, CallPcs, DiskResults
<1> QED BY <1>2, <1>3, <1>4, <1>5

\* wait_ready() keeps the invariant, before the command, before each sector and after it.
LEMMA WaitsPreserve ==
    ASSUME DiskInv,
           \/ DriverWaits("wait", "send") \/ DriverWaits("wait sector", "transfer")
           \/ DriverWaits("wait command", "command done")
    PROVE  DiskInv'
<1>1. PICK pc \in CallPcs, next \in CallPcs :
        /\ DriverWaits(pc, next)
        /\ <<pc, next>> \in {<<"wait", "send">>, <<"wait sector", "transfer">>, <<"wait command", "command done">>}
  BY Zenon DEF CallPcs
<1>2. /\ drive' = drive /\ selected' = selected /\ calls' = calls /\ possible' = possible
      /\ call' \in CallRecord /\ call.pc = pc
      /\ call'.op = call.op /\ call'.disk = call.disk /\ call'.first = call.first
      /\ call'.len = call.len /\ call'.left = call.left /\ call'.value = call.value
      /\ call'.got = call.got
      /\ \/ /\ call'.pc = next /\ call'.result = call.result
            /\ ~drive[selected].busy /\ ~drive[selected].error
         \/ call'.pc = "done" /\ call'.result \in {"Medium", "Timeout"}
  BY <1>1, WaitSteps
<1>3. /\ NoError' = NoError /\ ~ReturnsOk' /\ call.pc # "idle"
      /\ InTransfer' => InTransfer
      /\ InCommand' => InCommand
      /\ call'.pc \in {"wait", "send"} => call.pc \in {"wait", "send"}
      /\ call'.pc \in {"send", "transfer", "command done"} => ~drive[selected].busy /\ ~drive[selected].error
  BY <1>1, <1>2 DEF NoError, InTransfer, InCommand, ReturnsOk
<1>4. DiskTypeOK'
  BY <1>2, <1>3 DEF DiskInv, DiskTypeOK, DrivesOK, CallOK, PossibleOK
<1>5. ChannelInv'
  BY <1>2, <1>3 DEF DiskInv, ChannelInv
<1>6. StepInv'
  BY <1>2, <1>3 DEF DiskInv, StepInv
<1>7. ReadInv'
  BY <1>2, <1>3 DEF DiskInv, ReadInv
<1>8. WriteInv'
  BY <1>2, <1>3 DEF DiskInv, WriteInv
<1>9. CacheInv'
  BY <1>2, <1>3 DEF DiskInv, CacheInv
<1>10. CommandInv'
  BY <1>2, <1>3 DEF DiskInv, CommandInv
<1> QED BY <1>4, <1>5, <1>6, <1>7, <1>8, <1>9, <1>10 DEF DiskInv

\* A command goes to the drive of the call while no drive works or has failed, and selects it.
LEMMA SendSteps ==
    ASSUME DiskInv, NEW command \in Commands, NEW at \in Nat, NEW count \in Nat,
           call.pc = "send", selected' = call.disk, drive' = Commanded(call.disk, command, at, count)
    PROVE  /\ DrivesOK' /\ call.disk \in Drives /\ NoError /\ NoError'
           /\ \A e \in Drives : e # call.disk => drive'[e] = drive[e] /\ ~drive[e].busy
           /\ \A e \in Drives : drive'[e].cache = drive[e].cache
           /\ drive'[call.disk].busy = TRUE /\ drive'[call.disk].command = command
           /\ drive'[call.disk].at = at /\ drive'[call.disk].left = count
<1> DEFINE d == call.disk
           new == [drive[d] EXCEPT !.busy = TRUE, !.error = FALSE, !.command = command,
                                   !.at = at, !.left = count]
<1>1. d \in Drives /\ DrivesOK /\ drive[d] \in DriveRecord(d)
  BY DEF DiskInv, DiskTypeOK, CallOK, CallRecord, DrivesOK
<1>2. /\ new \in DriveRecord(d) /\ new.busy = TRUE /\ new.error = FALSE /\ new.command = command
      /\ new.at = at /\ new.left = count /\ new.cache = drive[d].cache
  BY <1>1 DEF DriveRecord
<1>3. drive' = [drive EXCEPT ![d] = new]
  BY DEF Commanded
<1>4. NoError /\ \A e \in Drives : ~drive[e].busy
  BY DEF NoError, DiskInv, ChannelInv
<1> HIDE DEF new, d
<1>5. /\ DrivesOK' /\ drive'[d] = new
      /\ \A e \in Drives : e # d => drive'[e] = drive[e]
  <2>1. selected' \in Drives
    BY <1>1 DEF d
  <2> QED BY <1>1, <1>2, <1>3, <2>1, DriveBecomes
<1>6. NoError' /\ \A e \in Drives : drive'[e].cache = drive[e].cache
  BY <1>1, <1>2, <1>4, <1>5 DEF NoError
<1> QED BY <1>1, <1>2, <1>4, <1>5, <1>6 DEF d

\* send_rw_command() keeps the invariant.
LEMMA SendRwPreserves ==
    ASSUME DiskInv, SendRwCommand
    PROVE  DiskInv'
<1> DEFINE count == IF call.len = 0 THEN AtaMaxCount ELSE call.len
           pc == IF call.len = 0 THEN "done" ELSE "wait sector"
<1>1. /\ call \in CallRecord /\ call.pc = "send" /\ call.op \in {"read", "write"}
      /\ selected' = call.disk /\ drive' = Commanded(call.disk, call.op, call.first, count)
      /\ calls' = calls /\ possible' = possible
  BY DEF SendRwCommand, DiskInv, DiskTypeOK, CallOK
<1>2. call.first \in Nat /\ count \in Nat /\ call.op \in Commands /\ call.len \in Nat /\ call.disk \in Drives
  BY <1>1 DEF CallRecord, AtaMaxCount
<1>3. /\ DrivesOK' /\ NoError /\ NoError'
      /\ \A e \in Drives : e # call.disk => drive'[e] = drive[e] /\ ~drive[e].busy
      /\ \A e \in Drives : drive'[e].cache = drive[e].cache
      /\ drive'[call.disk].busy = TRUE /\ drive'[call.disk].command = call.op
      /\ drive'[call.disk].at = call.first /\ drive'[call.disk].left = count
  <2> HIDE DEF count
  <2> QED BY <1>1, <1>2, SendSteps
<1>4. /\ call' \in CallRecord /\ call'.pc = pc /\ (call.len = 0 => call'.result = "Ok")
      /\ call'.op = call.op /\ call'.disk = call.disk /\ call'.first = call.first
      /\ call'.len = call.len /\ call'.left = call.left /\ call'.value = call.value
      /\ call'.got = call.got
  <2>1. CASE call.len = 0
    <3>1. call' = [call EXCEPT !.pc = "done", !.result = "Ok"]
      BY <2>1 DEF SendRwCommand, Finish
    <3> QED BY <1>1, <2>1, <3>1 DEF CallRecord, CallPcs, DiskResults
  <2>2. CASE call.len # 0
    <3>1. call' = [call EXCEPT !.pc = "wait sector"]
      BY <2>2 DEF SendRwCommand, GoOn
    <3> QED BY <1>1, <2>2, <3>1 DEF CallRecord, CallPcs
  <2> QED BY <2>1, <2>2
<1>5. call.left = call.len /\ call.got = <<>> /\ call.first + call.len <= DriveSectors[call.disk]
  BY <1>1 DEF DiskInv, DiskTypeOK, CallOK
<1>6. DiskTypeOK'
  BY <1>1, <1>3, <1>4, <1>5 DEF DiskInv, DiskTypeOK, CallOK, PossibleOK
<1>7. /\ ~InCommand' /\ (InTransfer' <=> call.len # 0) /\ (ReturnsOk' => call.len = 0)
      /\ call'.pc \notin {"send", "transfer", "command done"} /\ call.pc # "idle"
  BY <1>1, <1>4 DEF InCommand, InTransfer, ReturnsOk
<1>8. ChannelInv'
  <2>1. \A e \in Drives : drive'[e].busy \/ drive'[e].error => e = call.disk
    BY <1>3 DEF NoError
  <2> QED BY <1>1, <1>3, <1>4, <1>7, <2>1 DEF ChannelInv
<1>9. StepInv'
  <2>1. InTransfer' => call.left \in 1 .. call.len
    <3>1. call.left = call.len /\ (InTransfer' => call.len # 0)
      BY <1>5, <1>7
    <3> QED BY <1>2, <3>1
  <2>2. InTransfer' => drive'[call.disk].left = call.left
    BY <1>3, <1>5, <1>7
  <2>3. drive'[call.disk].at = call.first + (call.len - call.left)
    BY <1>2, <1>3, <1>5
  <2>4. ReturnsOk' => call.left = 0
    BY <1>5, <1>7
  <2> QED BY <1>1, <1>4, <2>1, <2>2, <2>3, <2>4 DEF StepInv
<1>10. ReadInv'
  <2>1. Len(call'.got) = 0 /\ call'.len - call'.left = 0
    <3>1. call'.got = <<>> /\ call'.left = call.len /\ call'.len = call.len
      BY <1>4, <1>5
    <3> QED BY <1>2, <3>1
  <2> QED BY <2>1 DEF ReadInv
<1>11. WriteInv'
  <2>1. call.op = "write" => \A s \in call.first .. call.first + call.len - 1 : call.value \in possible[call.disk][s]
    BY <1>7 DEF DiskInv, WriteInv
  <2>2. \A s \in Sectors(call.disk) : ~(s >= call.first /\ s < call.first + (call.len - call.left))
    BY <1>2, <1>5, DiskConstants DEF Sectors
  <2> QED BY <1>1, <1>4, <2>1, <2>2 DEF WriteInv
<1>12. CacheInv'
  BY <1>1, <1>3 DEF DiskInv, CacheInv
<1>13. CommandInv'
  BY <1>1, <1>4, <1>7 DEF CommandInv
<1> QED BY <1>6, <1>8, <1>9, <1>10, <1>11, <1>12, <1>13 DEF DiskInv

\* send_command() keeps the invariant.
LEMMA SendCommandPreserves ==
    ASSUME DiskInv, SendCommand
    PROVE  DiskInv'
<1> DEFINE at == DriveSectors[call.disk] - 1
<1>1. /\ call \in CallRecord /\ call.pc = "send" /\ call.op \in {"flush", "count"}
      /\ selected' = call.disk /\ drive' = Commanded(call.disk, call.op, at, 0)
      /\ calls' = calls /\ possible' = possible
      /\ call' = [call EXCEPT !.pc = "wait command"]
  BY DEF SendCommand, GoOn, DiskInv, DiskTypeOK, CallOK
<1>2. call.disk \in Drives /\ at \in Nat /\ call.op \in Commands
  <2>1. call.disk \in Drives /\ call.op \in Commands
    BY <1>1 DEF CallRecord
  <2>2. DriveSectors[call.disk] \in Nat \ {0}
    BY <2>1, DiskConstants
  <2> QED BY <2>1, <2>2
<1>3. /\ DrivesOK' /\ NoError /\ NoError'
      /\ \A e \in Drives : e # call.disk => drive'[e] = drive[e] /\ ~drive[e].busy
      /\ \A e \in Drives : drive'[e].cache = drive[e].cache
      /\ drive'[call.disk].busy = TRUE /\ drive'[call.disk].command = call.op
      /\ drive'[call.disk].at = at /\ drive'[call.disk].left = 0
  <2> HIDE DEF at
  <2> QED BY <1>1, <1>2, SendSteps
<1>4. /\ call' \in CallRecord /\ call'.pc = "wait command"
      /\ call'.op = call.op /\ call'.disk = call.disk /\ call'.first = call.first
      /\ call'.len = call.len
  BY <1>1 DEF CallRecord, CallPcs
<1>5. DiskTypeOK'
  BY <1>1, <1>3, <1>4 DEF DiskInv, DiskTypeOK, CallOK, PossibleOK
<1>6. InCommand' /\ ~InTransfer' /\ ~ReturnsOk'
  BY <1>4 DEF InCommand, InTransfer, ReturnsOk
<1>7. ChannelInv'
  <2>1. \A e \in Drives : drive'[e].busy \/ drive'[e].error => e = call.disk
    BY <1>3 DEF NoError
  <2> QED BY <1>1, <1>3, <1>4, <1>6, <2>1 DEF ChannelInv
<1>8. StepInv' /\ ReadInv' /\ WriteInv'
  BY <1>1, <1>4, <1>6 DEF StepInv, ReadInv, WriteInv
<1>9. CacheInv'
  BY <1>1, <1>3 DEF DiskInv, CacheInv
<1>10. CommandInv'
  BY <1>3, <1>4, <1>6 DEF CommandInv
<1> QED BY <1>5, <1>7, <1>8, <1>9, <1>10 DEF DiskInv

\* A sector goes through the data register: the drive of the call has data, and both sides step on.
LEMMA TransferSteps ==
    ASSUME DiskInv, call.pc = "transfer"
    PROVE  /\ HasData(call.op) /\ NoError /\ selected = call.disk /\ call.disk \in Drives
           /\ drive[selected].at \in Sectors(selected)
           /\ drive[selected].at = call.first + (call.len - call.left)
           /\ drive[selected].left = call.left /\ call.left \in 1 .. call.len
           /\ call.op \in {"read", "write"} /\ \A e \in Drives : ~drive[e].busy
<1>1. InTransfer /\ call \in CallRecord /\ DrivesOK /\ selected \in Drives
  BY DEF InTransfer, DiskInv, DiskTypeOK, CallOK, DrivesOK
<1>2. NoError /\ \A e \in Drives : ~drive[e].busy
  BY DEF DiskInv, ChannelInv, NoError
<1>3. selected = call.disk /\ drive[selected].command = call.op /\ call.op \in {"read", "write"}
  BY <1>1, <1>2 DEF DiskInv, ChannelInv
<1>4. /\ call.left \in 1 .. call.len /\ drive[selected].left = call.left
      /\ drive[selected].at = call.first + (call.len - call.left)
  BY <1>1, <1>2 DEF DiskInv, StepInv
<1>5. /\ call.first \in Nat /\ call.len \in Nat /\ DriveSectors[call.disk] \in Nat
      /\ call.first + call.len <= DriveSectors[call.disk]
  BY <1>1, DiskConstants DEF DiskInv, DiskTypeOK, CallOK, CallRecord
<1>6. drive[selected].at \in Sectors(selected)
  BY <1>3, <1>4, <1>5 DEF Sectors
<1>7. HasData(call.op)
  BY <1>1, <1>2, <1>3, <1>4, <1>5 DEF HasData
<1> QED BY <1>1, <1>2, <1>3, <1>4, <1>6, <1>7

\* The drive's side of a transfer.
LEMMA TransferredFields ==
    ASSUME DiskInv, call.pc = "transfer", NEW cache \in Contents(selected), selected' = selected,
           drive' = Transferred(cache)
    PROVE  /\ DrivesOK' /\ NoError'
           /\ drive'[selected].cache = cache
           /\ drive'[selected].at = drive[selected].at + 1
           /\ drive'[selected].left = drive[selected].left - 1
           /\ drive'[selected].command = drive[selected].command
           /\ \A e \in Drives : e # selected => drive'[e] = drive[e]
<1> DEFINE d == drive[selected]
           busy == call.op = "write" \/ d.left > 1
           new == [d EXCEPT !.cache = cache, !.at = d.at + 1, !.left = d.left - 1, !.busy = busy]
<1>1. d \in DriveRecord(selected) /\ selected \in Drives /\ DrivesOK
  BY DEF DiskInv, DiskTypeOK, DrivesOK
<1>2. d.left \in 1 .. call.len /\ call.len \in Nat /\ d.at \in Nat
  BY <1>1, TransferSteps DEF DriveRecord, DiskInv, DiskTypeOK, CallOK, CallRecord
<1>3. d.at + 1 \in Nat /\ d.left - 1 \in Nat
  BY <1>2
<1>4. busy \in BOOLEAN
  OBVIOUS
<1>5. /\ new \in DriveRecord(selected) /\ new.cache = cache /\ new.at = d.at + 1 /\ new.left = d.left - 1
      /\ new.command = d.command /\ new.error = d.error
  <2> HIDE DEF d, busy
  <2> QED BY <1>1, <1>3, <1>4 DEF DriveRecord
<1>6. drive' = [drive EXCEPT ![selected] = new]
  BY DEF Transferred
<1> HIDE DEF new
<1>7. /\ DrivesOK' /\ drive'[selected] = new
      /\ \A e \in Drives : e # selected => drive'[e] = drive[e]
  BY <1>1, <1>5, <1>6, DriveBecomes
<1>8. NoError'
  BY <1>1, <1>5, <1>7, TransferSteps DEF NoError
<1> QED BY <1>5, <1>7, <1>8

\* The driver's side of a transfer: one sector less, and Ok after the last.
LEMMA NextSectorFields ==
    ASSUME DiskInv, call.pc = "transfer", NEW got \in Seq(Int), NextSector(got)
    PROVE  /\ call' \in CallRecord /\ call'.op = call.op /\ call'.disk = call.disk
           /\ call'.first = call.first /\ call'.len = call.len /\ call'.value = call.value
           /\ call'.got = got /\ call'.left = call.left - 1
           /\ \/ call'.pc = "wait sector" /\ call.left > 1
              \/ call'.pc = "done" /\ call.left = 1 /\ call'.result = "Ok"
<1>1. call \in CallRecord /\ call.left \in 1 .. call.len /\ call.len \in Nat
  BY TransferSteps DEF DiskInv, DiskTypeOK, CallOK, CallRecord
<1>2. call.left \in Nat /\ call.left - 1 \in Nat
  BY <1>1
<1> DEFINE left == call.left - 1
<1>3. CASE call.left = 1
  <2>1. call' = [call EXCEPT !.pc = "done", !.left = left, !.got = got, !.result = "Ok"]
    BY <1>3 DEF NextSector
  <2>2. left \in Nat
    BY <1>2
  <2> HIDE DEF left
  <2>3. /\ call' \in CallRecord /\ call'.op = call.op /\ call'.disk = call.disk
        /\ call'.first = call.first /\ call'.len = call.len /\ call'.value = call.value
        /\ call'.got = got /\ call'.left = left /\ call'.pc = "done" /\ call'.result = "Ok"
    BY <1>1, <2>1, <2>2 DEF CallRecord, CallPcs, DiskResults
  <2> QED BY <1>3, <2>3 DEF left
<1>4. CASE call.left # 1
  <2>1. call' = [call EXCEPT !.pc = "wait sector", !.left = left, !.got = got, !.result = call.result]
    BY <1>4 DEF NextSector
  <2>2. left \in Nat /\ call.left > 1
    BY <1>1, <1>2, <1>4
  <2> HIDE DEF left
  <2>3. /\ call' \in CallRecord /\ call'.op = call.op /\ call'.disk = call.disk
        /\ call'.first = call.first /\ call'.len = call.len /\ call'.value = call.value
        /\ call'.got = got /\ call'.left = left /\ call'.pc = "wait sector"
    BY <1>1, <2>1, <2>2 DEF CallRecord, CallPcs
  <2> QED BY <2>2, <2>3 DEF left
<1> QED BY <1>3, <1>4

\* What every transfer keeps: the types, the channel, and the count of the sectors.
LEMMA TransferPreserves ==
    ASSUME DiskInv, call.pc = "transfer", NEW got \in Seq(Int), NextSector(got),
           NEW cache \in Contents(selected), drive' = Transferred(cache),
           selected' = selected, calls' = calls, possible' = possible
    PROVE  DiskTypeOK' /\ ChannelInv' /\ StepInv' /\ CommandInv' /\ NoError'
<1>1. /\ NoError /\ selected = call.disk /\ call.disk \in Drives
      /\ drive[selected].at = call.first + (call.len - call.left)
      /\ drive[selected].left = call.left /\ call.left \in 1 .. call.len
      /\ call.op \in {"read", "write"} /\ \A e \in Drives : ~drive[e].busy
      /\ drive[selected].command = call.op
  BY TransferSteps DEF HasData
<1>2. /\ DrivesOK' /\ NoError'
      /\ drive'[selected].cache = cache
      /\ drive'[selected].at = drive[selected].at + 1
      /\ drive'[selected].left = drive[selected].left - 1
      /\ drive'[selected].command = drive[selected].command
      /\ \A e \in Drives : e # selected => drive'[e] = drive[e]
  BY TransferredFields
<1>3. /\ call' \in CallRecord /\ call'.op = call.op /\ call'.disk = call.disk
      /\ call'.first = call.first /\ call'.len = call.len /\ call'.value = call.value
      /\ call'.got = got /\ call'.left = call.left - 1
      /\ \/ call'.pc = "wait sector" /\ call.left > 1
         \/ call'.pc = "done" /\ call.left = 1 /\ call'.result = "Ok"
  BY NextSectorFields
<1>4. ~InCommand' /\ (InTransfer' => call.left > 1) /\ (ReturnsOk' => call.left = 1)
  BY <1>3 DEF InCommand, InTransfer, ReturnsOk
<1>5. call.first \in Nat /\ call.len \in Nat /\ call.first + call.len <= DriveSectors[call.disk]
  BY DEF DiskInv, DiskTypeOK, CallOK, CallRecord
<1>6. DiskTypeOK'
  BY <1>2, <1>3, <1>5 DEF DiskInv, DiskTypeOK, CallOK, PossibleOK
<1>7. ChannelInv'
  <2>1. \A e \in Drives : drive'[e].busy \/ drive'[e].error => e = selected
    BY <1>1, <1>2 DEF NoError
  <2>2. call'.pc \notin {"send", "transfer", "command done"}
    BY <1>3
  <2> QED BY <1>1, <1>2, <1>3, <1>4, <2>1, <2>2 DEF ChannelInv
<1>8. StepInv'
  <2>1. InTransfer' => call'.left \in 1 .. call'.len
    <3>1. call'.left = call.left - 1 /\ call'.len = call.len
      BY <1>3
    <3>2. call.left \in 1 .. call.len /\ call.len \in Nat
      BY <1>1, <1>5
    <3>3. InTransfer' => call.left > 1
      BY <1>4
    <3> QED BY <3>1, <3>2, <3>3
  <2>2. /\ drive'[selected].left = call'.left
        /\ drive'[selected].at = call'.first + (call'.len - call'.left)
    <3>1. call'.left = call.left - 1 /\ call'.len = call.len /\ call'.first = call.first
      BY <1>3
    <3>2. /\ drive'[selected].at = (call.first + (call.len - call.left)) + 1
          /\ drive'[selected].left = call.left - 1
      BY <1>1, <1>2
    <3>3. call.left \in 1 .. call.len /\ call.len \in Nat /\ call.first \in Nat
      BY <1>1, <1>5
    <3> QED BY <3>1, <3>2, <3>3
  <2>3. ReturnsOk' => call'.left = 0
    <3>1. call'.left = call.left - 1 /\ (ReturnsOk' => call.left = 1)
      BY <1>3, <1>4
    <3> QED BY <3>1
  <2> QED BY <2>1, <2>2, <2>3 DEF StepInv
<1>9. CommandInv'
  BY <1>1, <1>3, <1>4 DEF CommandInv
<1> QED BY <1>2, <1>6, <1>7, <1>8, <1>9

\* pio_read(): the sector that arrives is the next one, as the drive holds it.
LEMMA ReadPreserves ==
    ASSUME DiskInv, PioRead
    PROVE  DiskInv'
<1> DEFINE at == drive[selected].at
           value == drive[selected].cache[at]
           got == Append(call.got, value)
<1>1. /\ HasData("read") /\ NoError /\ selected = call.disk /\ call.disk \in Drives
      /\ at \in Sectors(selected) /\ at = call.first + (call.len - call.left)
      /\ call.left \in 1 .. call.len /\ call.pc = "transfer" /\ call.op = "read"
  BY TransferSteps DEF PioRead
<1>2. /\ NextSector(got) /\ drive' = Transferred(drive[selected].cache)
      /\ selected' = selected /\ calls' = calls /\ possible' = possible
  BY <1>1 DEF PioRead
<1>3. drive[selected].cache \in Contents(selected) /\ value \in Nat
  BY <1>1 DEF DiskInv, DiskTypeOK, DrivesOK, DriveRecord, Contents
<1>4. call.got \in Seq(Int) /\ call.first \in Nat /\ call.len \in Nat
  BY DEF DiskInv, DiskTypeOK, CallOK, CallRecord
<1>5. value \in possible[selected][at]
  BY <1>1 DEF DiskInv, CacheInv
<1> HIDE DEF value
<1>6. got \in Seq(Int) /\ Len(got) = Len(call.got) + 1 /\ got[Len(call.got) + 1] = value
      /\ \A i \in 1 .. Len(call.got) : got[i] = call.got[i]
  BY <1>3, <1>4
<1> HIDE DEF got
<1>7. DiskTypeOK' /\ ChannelInv' /\ StepInv' /\ CommandInv' /\ NoError'
  BY <1>1, <1>2, <1>3, <1>6, TransferPreserves
<1>8. /\ call'.op = call.op /\ call'.disk = call.disk /\ call'.first = call.first
      /\ call'.len = call.len /\ call'.got = got /\ call'.left = call.left - 1
  BY <1>1, <1>2, <1>6, NextSectorFields
<1>9. /\ Len(call.got) = call.len - call.left
      /\ \A i \in 1 .. Len(call.got) : call.got[i] \in possible[call.disk][call.first + (i - 1)]
  BY <1>1 DEF DiskInv, ReadInv, InTransfer
<1>10. ReadInv'
  <2>1. Len(call'.got) = call'.len - call'.left
    <3>1. Len(call'.got) = (call.len - call.left) + 1 /\ call'.len = call.len /\ call'.left = call.left - 1
      BY <1>6, <1>8, <1>9
    <3> QED BY <1>1, <1>4, <3>1
  <2>2. ASSUME NEW i \in 1 .. Len(call'.got)
        PROVE  call'.got[i] \in possible'[call'.disk][call'.first + (i - 1)]
    <3>1. call'.got = got /\ possible' = possible /\ call'.disk = call.disk /\ call'.first = call.first
      BY <1>2, <1>8
    <3>2. Len(call.got) \in Nat /\ i \in 1 .. Len(call.got) + 1
      BY <1>4, <1>6, <1>8
    <3>3. CASE i = Len(call.got) + 1
      <4>1. call.first + (i - 1) = at
        BY <1>1, <1>4, <1>9, <3>3
      <4> QED BY <1>1, <1>5, <1>6, <3>1, <3>3, <4>1
    <3>4. CASE i # Len(call.got) + 1
      <4>1. i \in 1 .. Len(call.got)
        BY <3>2, <3>4
      <4> QED BY <1>6, <1>9, <3>1, <4>1
    <3> QED BY <3>3, <3>4
  <2> QED BY <2>1, <2>2 DEF ReadInv
<1>11. WriteInv'
  BY <1>1, <1>8 DEF WriteInv
<1>12. CacheInv'
  <2>1. \A e \in Drives : drive'[e].cache = drive[e].cache
    BY <1>1, <1>2, <1>3, TransferredFields
  <2> QED BY <1>1, <1>2, <2>1 DEF DiskInv, CacheInv
<1> QED BY <1>7, <1>10, <1>11, <1>12 DEF DiskInv

\* pio_write(): the sector goes to its place, and holds what the call may have written.
LEMMA WritePreserves ==
    ASSUME DiskInv, PioWrite
    PROVE  DiskInv'
<1> DEFINE at == drive[selected].at
           cache == [drive[selected].cache EXCEPT ![at] = call.value]
<1>1. /\ HasData("write") /\ NoError /\ selected = call.disk /\ call.disk \in Drives
      /\ at \in Sectors(selected) /\ at = call.first + (call.len - call.left)
      /\ call.left \in 1 .. call.len /\ call.pc = "transfer" /\ call.op = "write"
  BY TransferSteps DEF PioWrite
<1>2. /\ NextSector(<<>>) /\ drive' = Transferred(cache)
      /\ selected' = selected /\ calls' = calls /\ possible' = possible
  BY <1>1 DEF PioWrite
<1>3. call.value \in Nat /\ call.first \in Nat /\ call.len \in Nat /\ DriveSectors[call.disk] \in Nat
  BY <1>1, DiskConstants DEF DiskInv, DiskTypeOK, CallOK, CallRecord
<1>4. drive[selected].cache \in [Sectors(selected) -> Nat]
  BY <1>1 DEF DiskInv, DiskTypeOK, DrivesOK, DriveRecord, Contents
<1>5. /\ cache \in Contents(selected) /\ cache[at] = call.value
      /\ \A s \in Sectors(selected) : s # at => cache[s] = drive[selected].cache[s]
  <2> HIDE DEF at
  <2> QED BY <1>1, <1>3, <1>4 DEF Contents
<1> HIDE DEF cache
<1>6. <<>> \in Seq(Int)
  OBVIOUS
<1>7. DiskTypeOK' /\ ChannelInv' /\ StepInv' /\ CommandInv' /\ NoError'
  BY <1>1, <1>2, <1>5, <1>6, TransferPreserves
<1>8. /\ call'.op = call.op /\ call'.disk = call.disk /\ call'.first = call.first
      /\ call'.len = call.len /\ call'.value = call.value /\ call'.left = call.left - 1
  BY <1>1, <1>2, <1>6, NextSectorFields
<1>9. drive'[selected].cache = cache /\ \A e \in Drives : e # selected => drive'[e] = drive[e]
  BY <1>1, <1>2, <1>5, TransferredFields
<1>10. /\ \A s \in call.first .. call.first + call.len - 1 : call.value \in possible[call.disk][s]
       /\ \A s \in Sectors(call.disk) :
            s >= call.first /\ s < call.first + (call.len - call.left) => drive[call.disk].cache[s] = call.value
  BY <1>1 DEF DiskInv, WriteInv, InTransfer
<1>11. ReadInv'
  BY <1>1, <1>8 DEF ReadInv
<1>12. WriteInv'
  <2>1. ASSUME NEW s \in Sectors(call.disk), s >= call.first, s < call.first + (call.len - (call.left - 1))
        PROVE  drive'[call.disk].cache[s] = call.value
    <3>1. CASE s = at
      BY <1>1, <1>5, <1>9, <3>1
    <3>2. CASE s # at
      <4>1. s < call.first + (call.len - call.left)
        BY <1>1, <1>3, <2>1, <3>2 DEF Sectors
      <4>2. drive[call.disk].cache[s] = call.value
        BY <1>10, <2>1, <4>1
      <4> QED BY <1>1, <1>5, <1>9, <3>2, <4>2
    <3> QED BY <3>1, <3>2
  <2> QED BY <1>2, <1>8, <1>10, <2>1 DEF WriteInv
<1>13. CacheInv'
  <2> SUFFICES ASSUME NEW d \in Drives, NEW s \in Sectors(d) PROVE drive'[d].cache[s] \in possible[d][s]
    BY <1>2 DEF CacheInv
  <2>1. drive[d].cache[s] \in possible[d][s]
    BY <1>1 DEF DiskInv, CacheInv
  <2>2. CASE d # selected
    BY <1>9, <2>1, <2>2
  <2>3. CASE d = selected /\ s # at
    BY <1>5, <1>9, <2>1, <2>3
  <2>4. CASE d = selected /\ s = at
    <3>1. at \in call.first .. call.first + call.len - 1
      BY <1>1, <1>3
    <3> QED BY <1>1, <1>5, <1>9, <1>10, <2>4, <3>1
  <2> QED BY <2>2, <2>3, <2>4
<1> QED BY <1>7, <1>11, <1>12, <1>13 DEF DiskInv

\* The end of flush() and block_count().
LEMMA CommandDonePreserves ==
    ASSUME DiskInv, CommandDone
    PROVE  DiskInv'
<1> DEFINE got == IF call.op = "count" THEN <<drive[selected].at + 1>> ELSE <<>>
<1>1. /\ call.pc = "command done" /\ call \in CallRecord
      /\ call' = [call EXCEPT !.pc = "done", !.result = "Ok", !.got = got]
      /\ drive' = drive /\ selected' = selected /\ calls' = calls /\ possible' = possible
  BY DEF CommandDone, DiskInv, DiskTypeOK, CallOK
<1>2. /\ InCommand /\ selected \in Drives /\ drive[selected] \in DriveRecord(selected)
      /\ NoError /\ \A d \in Drives : ~drive[d].busy
  BY <1>1 DEF InCommand, DiskInv, DiskTypeOK, DrivesOK, ChannelInv, NoError
<1>3. selected = call.disk /\ call.op \in {"flush", "count"}
  BY <1>2 DEF DiskInv, ChannelInv
<1>4. /\ drive[selected].at = DriveSectors[call.disk] - 1 /\ DriveSectors[call.disk] \in Nat
      /\ call.op = "flush" => drive[selected].media = drive[selected].cache
  BY <1>2, <1>3, DiskConstants DEF DiskInv, CommandInv, NoError
<1>5. got \in Seq(Int) /\ (call.op = "count" => got = <<DriveSectors[call.disk]>>)
  <2>1. drive[selected].at + 1 = DriveSectors[call.disk]
    BY <1>4
  <2> QED BY <1>4, <2>1
<1> HIDE DEF got
<1>6. /\ call' \in CallRecord /\ call'.pc = "done" /\ call'.result = "Ok" /\ call'.got = got
      /\ call'.op = call.op /\ call'.disk = call.disk /\ call'.first = call.first
      /\ call'.len = call.len
  BY <1>1, <1>5 DEF CallRecord, CallPcs, DiskResults
<1>7. ~InCommand' /\ ~InTransfer' /\ NoError' /\ NoError
  BY <1>1, <1>2, <1>6 DEF InCommand, InTransfer, NoError
<1>8. DiskTypeOK'
  BY <1>1, <1>6 DEF DiskInv, DiskTypeOK, DrivesOK, CallOK, PossibleOK
<1>9. ChannelInv'
  BY <1>1, <1>6, <1>7 DEF DiskInv, ChannelInv
<1>10. StepInv' /\ ReadInv' /\ WriteInv'
  BY <1>3, <1>6, <1>7 DEF StepInv, ReadInv, WriteInv
<1>11. CacheInv'
  BY <1>1, <1>7 DEF DiskInv, CacheInv
<1>12. CommandInv'
  BY <1>1, <1>2, <1>3, <1>4, <1>5, <1>6, <1>7 DEF CommandInv
<1> QED BY <1>8, <1>9, <1>10, <1>11, <1>12 DEF DiskInv

\* The arguments with which the driver is called.
LEMMA NoCallFields ==
    /\ NoCall \in CallRecord /\ NoCall.pc = "idle" /\ NoCall.op = "none" /\ NoCall.disk = 0
    /\ NoCall.first = 0 /\ NoCall.len = 0 /\ NoCall.left = 0 /\ NoCall.value = 0 /\ NoCall.got = <<>>
<1>1. <<>> \in Seq(Int)
  OBVIOUS
<1> QED BY <1>1 DEF NoCall, CallRecord, CallPcs, DiskResults, Commands, Drives

\* A call begins: what it may write is possible from now on.
LEMMA CallPreserves ==
    ASSUME DiskInv, NEW op \in Commands \ {"none"}, NEW d \in Drives, NEW first \in Nat, NEW len \in Nat,
           NEW v \in Nat, CallDisk(op, d, first, len, v)
    PROVE  DiskInv'
<1>1. /\ call.pc = "idle" /\ first + len <= DriveSectors[d] /\ calls' = calls + 1
      /\ drive' = drive /\ selected' = selected
      /\ call' = [NoCall EXCEPT !.pc = "wait", !.op = op, !.disk = d, !.first = first, !.len = len,
                                !.left = len, !.value = v]
  BY DEF CallDisk
<1>2. /\ call' \in CallRecord /\ call'.pc = "wait" /\ call'.op = op /\ call'.disk = d
      /\ call'.first = first /\ call'.len = len /\ call'.left = len /\ call'.value = v
      /\ call'.got = <<>>
  BY <1>1, NoCallFields DEF CallRecord, CallPcs
<1>3. /\ ~InTransfer' /\ ~InCommand' /\ ~ReturnsOk' /\ NoError' = NoError
      /\ call'.pc \notin {"send", "transfer", "command done"}
  BY <1>1, <1>2 DEF InTransfer, InCommand, ReturnsOk, NoError
<1>4. /\ PossibleOK'
      /\ \A e \in Drives : \A s \in Sectors(e) : possible[e][s] \subseteq possible'[e][s]
      /\ op = "write" => \A s \in first .. first + len - 1 : v \in possible'[d][s]
  <2>1. PossibleOK
    BY DEF DiskInv, DiskTypeOK
  <2>2. CASE op # "write"
    <3>1. possible' = possible
      BY <2>2 DEF CallDisk
    <3> QED BY <2>1, <2>2, <3>1 DEF PossibleOK
  <2>3. CASE op = "write"
    <3> DEFINE may == [s \in Sectors(d) |->
                          possible[d][s] \cup (IF s \in first .. first + len - 1 THEN {v} ELSE {})]
    <3>1. possible' = [possible EXCEPT ![d] = may]
      BY <2>3 DEF CallDisk
    <3>2. may \in [Sectors(d) -> SUBSET Nat]
      BY <2>1 DEF PossibleOK
    <3>3. /\ \A s \in Sectors(d) : possible[d][s] \subseteq may[s]
          /\ \A s \in Sectors(d) : s \in first .. first + len - 1 => v \in may[s]
      OBVIOUS
    <3>4. \A s \in first .. first + len - 1 : s \in Sectors(d)
      BY <1>1, DiskConstants DEF Sectors
    <3> HIDE DEF may
    <3>5. /\ possible' = [e \in Drives |-> possible'[e]]
          /\ possible'[d] = may /\ \A e \in Drives : e # d => possible'[e] = possible[e]
      BY <2>1, <3>1 DEF PossibleOK
    <3>6. \A e \in Drives : possible'[e] \in [Sectors(e) -> SUBSET Nat]
      BY <2>1, <3>2, <3>5 DEF PossibleOK
    <3> QED BY <3>3, <3>4, <3>5, <3>6 DEF PossibleOK
  <2> QED BY <2>2, <2>3
<1>5. DiskTypeOK'
  <2>1. calls' \in Nat /\ DrivesOK'
    BY <1>1 DEF DiskInv, DiskTypeOK, DrivesOK, CallOK
  <2>2. CallOK'
    BY <1>1, <1>2, <2>1 DEF CallOK
  <2> QED BY <1>4, <2>1, <2>2 DEF DiskTypeOK
<1>6. ChannelInv'
  BY <1>1, <1>3 DEF DiskInv, ChannelInv
<1>7. StepInv' /\ ReadInv' /\ CommandInv'
  BY <1>3 DEF StepInv, ReadInv, CommandInv
<1>8. WriteInv'
  BY <1>2, <1>3, <1>4 DEF WriteInv
<1>9. CacheInv'
  BY <1>1, <1>3, <1>4 DEF DiskInv, CacheInv
<1> QED BY <1>5, <1>6, <1>7, <1>8, <1>9 DEF DiskInv

\* A call returns: after Ok the drive holds what was written, or has failed since.
LEMMA ReturnPreserves ==
    ASSUME DiskInv, CallReturns
    PROVE  DiskInv'
<1>1. call.pc = "done" /\ call' = NoCall /\ drive' = drive /\ selected' = selected /\ calls' = calls
  BY DEF CallReturns
<1>2. /\ ~InTransfer' /\ ~InCommand' /\ ~ReturnsOk' /\ NoError' = NoError
      /\ call'.pc = "idle"
  BY <1>1, NoCallFields DEF InTransfer, InCommand, ReturnsOk, NoError
<1>3. PossibleOK' /\ CacheInv'
  <2>1. PossibleOK /\ call \in CallRecord
    BY DEF DiskInv, DiskTypeOK, CallOK
  <2>2. CASE ~(call.op = "write" /\ call.result = "Ok")
    <3>1. possible' = possible
      BY <2>2 DEF CallReturns
    <3> QED BY <1>1, <1>2, <2>1, <3>1 DEF PossibleOK, DiskInv, CacheInv
  <2>3. CASE call.op = "write" /\ call.result = "Ok"
    <3> DEFINE d == call.disk
               holds == [s \in Sectors(d) |->
                           IF s \in call.first .. call.first + call.len - 1 THEN {call.value} ELSE possible[d][s]]
    <3>1. possible' = [possible EXCEPT ![d] = holds]
      BY <2>3 DEF CallReturns
    <3>2. d \in Drives /\ call.value \in Nat /\ call.first \in Nat /\ call.len \in Nat
      BY <2>1 DEF CallRecord
    <3>3. holds \in [Sectors(d) -> SUBSET Nat]
      BY <2>1, <3>2 DEF PossibleOK
    <3>4. ReturnsOk /\ call.left = 0
      BY <1>1, <2>3 DEF ReturnsOk, DiskInv, StepInv
    <3>5. NoError => \A s \in Sectors(d) : s \in call.first .. call.first + call.len - 1 =>
                        drive[d].cache[s] = call.value
      <4>1. NoError => \A s \in Sectors(d) :
              s >= call.first /\ s < call.first + (call.len - call.left) => drive[d].cache[s] = call.value
        BY <1>1, <2>3, <3>4 DEF DiskInv, WriteInv
      <4>2. \A s \in Sectors(d) : s \in call.first .. call.first + call.len - 1 =>
              s >= call.first /\ s < call.first + (call.len - call.left)
        BY <3>2, <3>4 DEF Sectors
      <4> QED BY <4>1, <4>2
    <3>6. NoError => \A s \in Sectors(d) : drive[d].cache[s] \in possible[d][s]
      BY <3>2 DEF DiskInv, CacheInv
    <3>7. NoError => \A s \in Sectors(d) : drive[d].cache[s] \in holds[s]
      BY <3>5, <3>6
    <3> HIDE DEF holds, d
    <3>8. /\ possible' = [e \in Drives |-> possible'[e]]
          /\ possible'[d] = holds /\ \A e \in Drives : e # d => possible'[e] = possible[e]
      BY <2>1, <3>1, <3>2 DEF PossibleOK
    <3>9. PossibleOK'
      <4>1. \A e \in Drives : possible'[e] \in [Sectors(e) -> SUBSET Nat]
        BY <2>1, <3>3, <3>8 DEF PossibleOK
      <4> QED BY <3>8, <4>1 DEF PossibleOK
    <3>10. CacheInv'
      <4> SUFFICES ASSUME NoError, NEW e \in Drives, NEW s \in Sectors(e)
                   PROVE  drive[e].cache[s] \in possible'[e][s]
        BY <1>1, <1>2 DEF CacheInv
      <4>1. drive[e].cache[s] \in possible[e][s]
        BY DEF DiskInv, CacheInv
      <4>2. CASE e = d
        BY <3>7, <3>8, <4>2
      <4>3. CASE e # d
        BY <3>8, <4>1, <4>3
      <4> QED BY <4>2, <4>3
    <3> QED BY <3>9, <3>10
  <2> QED BY <2>2, <2>3
<1>4. DiskTypeOK'
  <2>1. calls' \in Nat /\ DrivesOK'
    BY <1>1 DEF DiskInv, DiskTypeOK, DrivesOK, CallOK
  <2>2. DriveSectors[0] \in Nat
    BY DiskConstants DEF Drives
  <2>3. CallOK'
    BY <1>1, <2>1, <2>2, NoCallFields DEF CallOK
  <2> QED BY <1>3, <2>1, <2>3 DEF DiskTypeOK
<1>5. ChannelInv'
  BY <1>1, <1>2 DEF DiskInv, ChannelInv
<1>6. StepInv' /\ ReadInv' /\ CommandInv' /\ WriteInv'
  BY <1>2 DEF StepInv, ReadInv, CommandInv, WriteInv
<1> QED BY <1>3, <1>4, <1>5, <1>6 DEF DiskInv

\* Every step of the driver and of the drives keeps the invariant.
LEMMA DiskPreserved == DiskInv /\ [DiskNext]_diskVars => DiskInv'
<1> SUFFICES ASSUME DiskInv, [DiskNext]_diskVars PROVE DiskInv'
  OBVIOUS
<1>1. \A d \in Drives : \A first, len \in 0 .. DriveSectors[d] : first \in Nat /\ len \in Nat
  BY DiskConstants
<1>2. "read" \in Commands \ {"none"} /\ "write" \in Commands \ {"none"}
      /\ "flush" \in Commands \ {"none"} /\ "count" \in Commands \ {"none"} /\ DiskValues \subseteq Nat /\ 0 \in Nat
  BY DiskConstants DEF Commands
<1>3. ASSUME NEW d \in Drives, NEW first \in 0 .. DriveSectors[d], NEW len \in 0 .. DriveSectors[d],
             \/ CallDisk("read", d, first, len, 0)
             \/ \E v \in DiskValues : CallDisk("write", d, first, len, v)
      PROVE  DiskInv'
  <2>1. first \in Nat /\ len \in Nat
    BY <1>1
  <2>2. CASE CallDisk("read", d, first, len, 0)
    BY <1>2, <2>1, <2>2, CallPreserves
  <2>3. ASSUME NEW v \in DiskValues, CallDisk("write", d, first, len, v) PROVE DiskInv'
    BY <1>2, <2>1, <2>3, CallPreserves
  <2> QED BY <1>3, <2>2, <2>3
<1>4. ASSUME NEW d \in Drives, NEW op \in {"flush", "count"}, CallDisk(op, d, 0, 0, 0) PROVE DiskInv'
  BY <1>2, <1>4, CallPreserves
<1>5. CASE UNCHANGED diskVars
  <2>1. drive' = drive /\ selected' = selected /\ call' = call /\ calls' = calls /\ possible' = possible
    BY <1>5 DEF diskVars
  <2>2. /\ NoError' = NoError /\ InTransfer' = InTransfer /\ InCommand' = InCommand /\ ReturnsOk' = ReturnsOk
    BY <2>1 DEF NoError, InTransfer, InCommand, ReturnsOk
  <2>3. DiskTypeOK'
    BY <2>1 DEF DiskInv, DiskTypeOK, DrivesOK, CallOK, PossibleOK
  <2>4. ChannelInv' /\ StepInv' /\ ReadInv'
    BY <2>1, <2>2 DEF DiskInv, ChannelInv, StepInv, ReadInv
  <2>5. WriteInv' /\ CacheInv' /\ CommandInv'
    BY <2>1, <2>2 DEF DiskInv, WriteInv, CacheInv, CommandInv
  <2> QED BY <2>3, <2>4, <2>5 DEF DiskInv
<1>6. \/ \E d \in Drives : DriveReady(d) \/ DriveFails(d)
      \/ \E d \in Drives : \E first, len \in 0 .. DriveSectors[d] :
           \/ CallDisk("read", d, first, len, 0)
           \/ \E v \in DiskValues : CallDisk("write", d, first, len, v)
      \/ \E d \in Drives, op \in {"flush", "count"} : CallDisk(op, d, 0, 0, 0)
      \/ (DriverWaits("wait", "send") \/ DriverWaits("wait sector", "transfer")
          \/ DriverWaits("wait command", "command done"))
      \/ SendRwCommand \/ SendCommand \/ PioRead \/ PioWrite \/ CommandDone \/ CallReturns
      \/ UNCHANGED diskVars
  BY ZenonT(60) DEF DiskNext
<1> QED BY <1>3, <1>4, <1>5, <1>6, DriveStepsPreserve, WaitsPreserve, SendRwPreserves, SendCommandPreserves,
           ReadPreserves, WritePreserves, CommandDonePreserves, ReturnPreserves

\* The disks start idle, with nothing written.
LEMMA InitEstablishesDisk == DiskInit => DiskInv
<1> SUFFICES ASSUME DiskInit PROVE DiskInv
  OBVIOUS
<1>1. call = NoCall /\ calls = 0 /\ selected \in Drives
  BY DEF DiskInit
<1>2. /\ drive = [d \in Drives |-> drive[d]]
      /\ \A d \in Drives : /\ drive[d] \in DriveRecord(d) /\ ~drive[d].busy /\ ~drive[d].error
                           /\ \A s \in Sectors(d) : drive[d].cache[s] = 0
  BY DEF DiskInit, DriveRecord, Commands, Contents
<1>3. /\ possible = [d \in Drives |-> possible[d]]
      /\ \A d \in Drives : /\ possible[d] \in [Sectors(d) -> SUBSET Nat]
                           /\ \A s \in Sectors(d) : possible[d][s] = {0}
  BY DEF DiskInit
<1>4. ~InTransfer /\ ~InCommand /\ ~ReturnsOk /\ call.pc = "idle"
  BY <1>1, NoCallFields DEF InTransfer, InCommand, ReturnsOk
<1>5. DiskTypeOK
  <2>1. DriveSectors[0] \in Nat
    BY DiskConstants DEF Drives
  <2>2. CallOK
    BY <1>1, <2>1, NoCallFields DEF CallOK
  <2> QED BY <1>1, <1>2, <1>3, <2>2 DEF DiskTypeOK, DrivesOK, PossibleOK
<1>6. ChannelInv /\ StepInv /\ ReadInv /\ WriteInv /\ CommandInv
  BY <1>2, <1>4 DEF ChannelInv, StepInv, ReadInv, WriteInv, CommandInv
<1>7. CacheInv
  BY <1>2, <1>3 DEF CacheInv
<1> QED BY <1>5, <1>6, <1>7 DEF DiskInv

\* The inductive invariant of the driver and the drives of a channel.
THEOREM DiskInvariance == DiskSpec => []DiskInv
BY InitEstablishesDisk, DiskPreserved, PTL DEF DiskSpec

\* A call of Disk that returns Ok has done what it says, on the drive that it was asked for, whatever
\* failed or timed out before, for drives of any size and calls of any length below 256 sectors.
THEOREM DiskIsAlwaysHonest == DiskSpec => []DiskIsHonest
<1>1. DiskInv => DiskIsHonest
  <2> SUFFICES ASSUME DiskInv PROVE DiskIsHonest
    OBVIOUS
  <2>1. OnlySelectedDriveWorks
    BY DEF DiskInv, ChannelInv, OnlySelectedDriveWorks
  <2>2. ASSUME ReturnsOk, call.op = "read"
        PROVE  /\ Len(call.got) = call.len
               /\ \A i \in 1 .. call.len : call.got[i] \in possible[call.disk][call.first + i - 1]
    <3>1. call.left = 0 /\ call.len \in Nat /\ call.first \in Nat
      BY <2>2 DEF DiskInv, StepInv, DiskTypeOK, CallOK, CallRecord
    <3>2. /\ Len(call.got) = call.len - call.left
          /\ \A i \in 1 .. Len(call.got) : call.got[i] \in possible[call.disk][call.first + (i - 1)]
      BY <2>2 DEF DiskInv, ReadInv
    <3>3. Len(call.got) = call.len /\ \A i \in 1 .. call.len : call.first + (i - 1) = call.first + i - 1
      BY <3>1, <3>2
    <3> QED BY <3>2, <3>3
  <2>3. ASSUME ReturnsOk, call.op = "flush"
        PROVE  \A s \in Sectors(call.disk) : drive[call.disk].media[s] \in possible[call.disk][s]
    <3>1. call.disk \in Drives
      BY DEF DiskInv, DiskTypeOK, CallOK, CallRecord
    <3> QED BY <2>3, <3>1 DEF DiskInv, CommandInv, CacheInv
  <2>4. ASSUME ReturnsOk, call.op = "count" PROVE call.got = <<DriveSectors[call.disk]>>
    BY <2>4 DEF DiskInv, CommandInv
  <2> QED BY <2>1, <2>2, <2>3, <2>4 DEF DiskIsHonest, SuccessIsHonest, ReturnsOk
<1> QED BY <1>1, DiskInvariance, PTL
-----------------------------------------------------------------------------
(* The log of a user process *)

LogKinds == {"event", "plan b", "plan c", "statistics", "malformed"}
Messages == [kind : LogKinds, id : Nat, size : Nat, total : Nat]
LogState ==
    [pipe : Seq(Messages), closed : BOOLEAN,
     lostRecently : Nat, lostTotally : Nat, planBFailures : Nat, planCFailures : Nat,
     recursiveFailure : Nat, events : 0 .. MaxEvents,
     printed : [1 .. MaxEvents -> 0 .. 2],
     lost : SUBSET (1 .. MaxEvents), noPrefix : SUBSET (1 .. MaxEvents),
     silent : SUBSET (1 .. MaxEvents), toldTotal : Nat]

\* What a message of the pipe is about.
Waiting(s, id) == {i \in DOMAIN s.pipe : s.pipe[i].kind = "event" /\ s.pipe[i].id = id}
Told(s, kinds, id) == \E i \in DOMAIN s.pipe : s.pipe[i].kind \in kinds /\ s.pipe[i].id = id
PrefixKinds == {"plan b"}            \* what keeps a prefix of a lost event,
TraceKinds == {"plan b", "plan c"}   \* and what keeps anything of it
Spoiled(s) == s.closed \/ \E i \in DOMAIN s.pipe : s.pipe[i].kind = "malformed"
IdsUpTo(s, n) == \A i \in DOMAIN s.pipe : s.pipe[i].id <= n

\* The events of a set have been seen nowhere, all the others are printed or wait.
PrintedBut(s, gone) ==
    ~Spoiled(s) => \A id \in 1 .. MaxEvents :
        IF id \in gone THEN s.printed[id] = 0 /\ Waiting(s, id) = {}
        ELSE s.printed[id] + Cardinality(Waiting(s, id)) = 1

\* Events that were lost or have not come yet.
Gone(s) == s.lost \cup (s.events + 1 .. MaxEvents)

\* What writing and reading the pipe leaves alone.
SameBooks(s, t) ==
    /\ t.closed = s.closed /\ t.events = s.events
    /\ t.lostRecently = s.lostRecently /\ t.lostTotally = s.lostTotally
    /\ t.planBFailures = s.planBFailures /\ t.planCFailures = s.planCFailures
    /\ t.lost = s.lost /\ t.noPrefix = s.noPrefix /\ t.silent = s.silent
    /\ t.toldTotal = s.toldTotal

Counted(s) ==
    /\ s.lostRecently + s.lostTotally = Cardinality(s.lost)
    /\ s.lostTotally = s.toldTotal
    /\ s.planBFailures = Cardinality(s.noPrefix)
    /\ s.planCFailures = Cardinality(s.silent)
    /\ s.lost \cup s.noPrefix \cup s.silent \subseteq 1 .. s.events

Balanced(s) == s \in LogState /\ Counted(s) /\ IdsUpTo(s, s.events) /\ PrintedBut(s, Gone(s))

LogInv == Balanced(log)
-----------------------------------------------------------------------------
\* A set of naturals has a least element.
LEMMA LeastExists ==
    ASSUME NEW S, S \subseteq Nat, S # {}
    PROVE  Min(S) \in S /\ \A y \in S : Min(S) <= y
<1> DEFINE R == {ss \in Nat \X Nat : ss[1] < ss[2]}
<1>1. IsWellFoundedOn(R, Nat)
  BY NatLessThanWellFounded, Zenon DEF OpToRel
<1>2. PICK x \in S : \A y \in S : ~(<<y, x>> \in R)
  BY <1>1, WFMin, Zenon
<1>3. \A y \in S : x <= y
  <2>1. SUFFICES ASSUME NEW y \in S PROVE x <= y
    OBVIOUS
  <2>2. x \in Nat /\ y \in Nat /\ <<y, x>> \notin R
    BY <1>2
  <2>3. y < x => <<y, x>> \in R
    BY <2>2
  <2> QED BY <2>2, <2>3
<1> QED BY <1>3, Zenon DEF Min

\* Part of a sequence's domain is finite.
LEMMA PartsAreFinite ==
    ASSUME NEW T, NEW p \in Seq(T), NEW S, S \subseteq DOMAIN p
    PROVE  IsFiniteSet(S) /\ Cardinality(S) \in Nat /\ (Cardinality(S) = 0 <=> S = {})
<1>1. DOMAIN p = 1 .. Len(p) /\ Len(p) \in Nat
  OBVIOUS
<1>2. IsFiniteSet(1 .. Len(p))
  BY <1>1, FS_Interval
<1>3. IsFiniteSet(S)
  BY <1>1, <1>2, FS_Subset
<1> QED BY <1>3, FS_CardinalityType, FS_EmptySet

\* The sum that stops at 2.
LEMMA Saturates ==
    ASSUME NEW a \in 0 .. 2, NEW n \in Nat
    PROVE  Min({2, a + n}) \in 0 .. 2 /\ (a + n <= 2 => Min({2, a + n}) = a + n)
<1>1. {2, a + n} \subseteq Nat /\ {2, a + n} # {}
  OBVIOUS
<1>2. Min({2, a + n}) \in {2, a + n} /\ \A y \in {2, a + n} : Min({2, a + n}) <= y
  BY <1>1, LeastExists
<1>3. Min({2, a + n}) <= 2 /\ Min({2, a + n}) <= a + n
  BY <1>2
<1> QED BY <1>2, <1>3

\* user_events() prints what waits and empties the pipe, or stops at a malformed message and
\* leaves the pipe; all else stays.
LEMMA UserEventsFacts ==
    ASSUME NEW s \in LogState
    PROVE  LET u == UserEvents(s) IN
           /\ u \in LogState /\ SameBooks(s, u) /\ u.recursiveFailure = s.recursiveFailure
           /\ u.pipe \in {s.pipe, <<>>}
           /\ \A gone : PrintedBut(s, gone) => PrintedBut(u, gone)
<1> DEFINE bad == {i \in DOMAIN s.pipe : s.pipe[i].kind = "malformed"}
           n == IF bad = {} THEN Len(s.pipe) ELSE Min(bad) - 1
           read == SubSeq(s.pipe, 1, n)
           times(id) == Cardinality({i \in DOMAIN read : read[i].kind = "event" /\ read[i].id = id})
           printed == [id \in 1 .. MaxEvents |-> Min({2, s.printed[id] + times(id)})]
           pipe == IF bad = {} THEN <<>> ELSE s.pipe
           u == UserEvents(s)
<1>1. s.pipe \in Seq(Messages) /\ DOMAIN s.printed = 1 .. MaxEvents /\ s.printed \in [1 .. MaxEvents -> 0 .. 2]
  BY DEF LogState
<1>2. DOMAIN s.pipe = 1 .. Len(s.pipe) /\ Len(s.pipe) \in Nat
  BY <1>1
<1>3. n \in 0 .. Len(s.pipe)
  <2>1. CASE bad = {}
    BY <2>1, <1>2
  <2>2. CASE bad # {}
    <3>0. bad \subseteq Nat
      BY <1>2
    <3>1. Min(bad) \in bad
      BY <2>2, <3>0, LeastExists, Zenon
    <3>2. Min(bad) \in 1 .. Len(s.pipe)
      BY <3>1, <1>2
    <3> HIDE DEF bad
    <3> QED BY <3>2, <2>2, <1>2
  <2> QED BY <2>1, <2>2
<1>4. read \in Seq(Messages)
  <2> HIDE DEF n
  <2> QED BY <1>1, <1>3
<1>5. \A id : times(id) \in Nat
  <2> HIDE DEF read
  <2> QED BY <1>4, PartsAreFinite
<1>6. printed \in [1 .. MaxEvents -> 0 .. 2]
  <2>1. ASSUME NEW id \in 1 .. MaxEvents PROVE Min({2, s.printed[id] + times(id)}) \in 0 .. 2
    <3>1. s.printed[id] \in 0 .. 2 /\ times(id) \in Nat
      BY <1>1, <1>5
    <3> HIDE DEF times
    <3> QED BY <3>1, Saturates
  <2> HIDE DEF times
  <2> QED BY <2>1
<1>7. u = [s EXCEPT !.printed = printed, !.pipe = pipe]
  BY <1>1, Zenon DEF UserEvents
<1>8. pipe \in Seq(Messages) /\ pipe \in {s.pipe, <<>>}
  BY <1>1
<1> HIDE DEF printed, pipe, u
<1>9. u \in LogState /\ SameBooks(s, u) /\ u.recursiveFailure = s.recursiveFailure
      /\ u.pipe = pipe /\ u.printed = printed
  BY <1>6, <1>7, <1>8 DEF LogState, SameBooks
<1>10. ASSUME NEW gone, PrintedBut(s, gone) PROVE PrintedBut(u, gone)
  <2>1. SUFFICES ASSUME ~Spoiled(u), NEW id \in 1 .. MaxEvents
                 PROVE  IF id \in gone THEN u.printed[id] = 0 /\ Waiting(u, id) = {}
                        ELSE u.printed[id] + Cardinality(Waiting(u, id)) = 1
    BY DEF PrintedBut
  <2>2. bad = {} /\ pipe = <<>> /\ ~Spoiled(s)
    BY <2>1, <1>9 DEF Spoiled, SameBooks, pipe
  <2>3. read = s.pipe
    BY <2>2, <1>1, <1>2
  <2>4. times(id) = Cardinality(Waiting(s, id))
    BY <2>3 DEF Waiting
  <2>5. IF id \in gone THEN s.printed[id] = 0 /\ Waiting(s, id) = {}
        ELSE s.printed[id] + Cardinality(Waiting(s, id)) = 1
    BY <1>10, <2>2 DEF PrintedBut
  <2>6. Waiting(u, id) = {} /\ Cardinality({}) = 0
    BY <1>9, <2>2, FS_EmptySet DEF Waiting
  <2>7. s.printed[id] + times(id) = IF id \in gone THEN 0 ELSE 1
    <3> HIDE DEF times
    <3>1. CASE id \in gone
      BY <3>1, <2>4, <2>5, <2>6
    <3>2. CASE id \notin gone
      BY <3>2, <2>4, <2>5
    <3> QED BY <3>1, <3>2
  <2>8. s.printed[id] \in 0 .. 2 /\ times(id) \in Nat
    BY <1>1, <1>5
  <2>9. u.printed[id] = Min({2, s.printed[id] + times(id)})
    BY <1>9 DEF printed
  <2> HIDE DEF times
  <2>10. u.printed[id] = s.printed[id] + times(id)
    BY <2>7, <2>8, <2>9, Saturates
  <2> QED BY <2>6, <2>7, <2>10
<1> QED BY <1>8, <1>9, <1>10 DEF u

\* What a recording does: a message that finds its place is the last of the pipe.
Recorded(s, t, m) ==
    /\ t \in LogState /\ SameBooks(s, t) /\ t.recursiveFailure = s.recursiveFailure
    /\ \A n \in Nat : IdsUpTo(s, n) /\ m.id <= n => IdsUpTo(t, n)
    /\ \A kinds, id : Told(t, kinds, id) => Told(s, kinds, id) \/ (m.kind \in kinds /\ m.id = id)
    /\ ~s.closed => Told(t, {m.kind}, m.id)
    /\ m.kind # "event" => \A gone : PrintedBut(s, gone) => PrintedBut(t, gone)
    /\ m.kind = "event" /\ m.id \in 1 .. MaxEvents
                => \A gone : m.id \in gone /\ PrintedBut(s, gone) => PrintedBut(t, gone \ {m.id})

\* LogEvent::record_event().
LEMMA RecordFacts ==
    ASSUME NEW s \in LogState, NEW m \in Messages, NEW t, t = Record(s, m)
    PROVE  Recorded(s, t, m)
<1>1. CASE s.closed
  <2>1. t = s
    BY <1>1 DEF Record
  <2>2. \A gone : PrintedBut(s, gone)
    BY <1>1 DEF PrintedBut, Spoiled
  <2> QED BY <1>1, <2>1, <2>2 DEF SameBooks, IdsUpTo, Told, Recorded
<1>2. CASE ~s.closed
  <2>1. t = [s EXCEPT !.pipe = Append(s.pipe, m)]
    BY <1>2 DEF Record
  <2>2. s.pipe \in Seq(Messages)
    BY DEF LogState
  <2>3. Append(s.pipe, m) \in Seq(Messages)
    BY <2>2
  <2>4. /\ t \in LogState /\ SameBooks(s, t) /\ t.recursiveFailure = s.recursiveFailure
        /\ t.pipe = Append(s.pipe, m) /\ t.printed = s.printed
    BY <2>1, <2>3 DEF LogState, SameBooks
  <2> DEFINE l == Len(s.pipe) + 1
  <2>5. /\ l \in Nat /\ DOMAIN t.pipe = DOMAIN s.pipe \cup {l} /\ l \notin DOMAIN s.pipe
        /\ t.pipe[l] = m /\ \A i \in DOMAIN s.pipe : t.pipe[i] = s.pipe[i]
    BY <2>2, <2>4
  <2> HIDE DEF l
  <2>6. \A n \in Nat : IdsUpTo(s, n) /\ m.id <= n => IdsUpTo(t, n)
    BY <2>5 DEF IdsUpTo
  <2>7. \A kinds, id : Told(t, kinds, id) => Told(s, kinds, id) \/ (m.kind \in kinds /\ m.id = id)
    BY <2>5 DEF Told
  <2>8. Told(t, {m.kind}, m.id)
    BY <2>5 DEF Told
  <2>9. \A id : Waiting(t, id) = Waiting(s, id)
                   \cup (IF m.kind = "event" /\ m.id = id THEN {l} ELSE {})
    BY <2>5 DEF Waiting
  <2>10. Spoiled(s) => Spoiled(t)
    BY <2>5, <2>4 DEF Spoiled, SameBooks
  <2>11. ASSUME m.kind # "event", NEW gone, PrintedBut(s, gone) PROVE PrintedBut(t, gone)
    BY <2>4, <2>9, <2>10, <2>11 DEF PrintedBut
  <2>12. ASSUME m.kind = "event", m.id \in 1 .. MaxEvents, NEW gone, m.id \in gone, PrintedBut(s, gone)
         PROVE  PrintedBut(t, gone \ {m.id})
    <3>1. SUFFICES ASSUME ~Spoiled(t), NEW id \in 1 .. MaxEvents
                   PROVE  IF id \in gone \ {m.id} THEN t.printed[id] = 0 /\ Waiting(t, id) = {}
                          ELSE t.printed[id] + Cardinality(Waiting(t, id)) = 1
      BY DEF PrintedBut
    <3>2. IF id \in gone THEN s.printed[id] = 0 /\ Waiting(s, id) = {}
          ELSE s.printed[id] + Cardinality(Waiting(s, id)) = 1
      BY <3>1, <2>10, <2>12 DEF PrintedBut
    <3>3. CASE id = m.id
      <4>1. t.printed[id] = 0 /\ Waiting(t, id) = {l}
        BY <3>2, <3>3, <2>4, <2>9, <2>12
      <4>2. Cardinality({l}) = 1
        BY FS_Singleton
      <4> QED BY <4>1, <4>2, <3>3
    <3>4. CASE id # m.id
      <4>1. Waiting(t, id) = Waiting(s, id)
        BY <3>4, <2>9
      <4> QED BY <4>1, <3>2, <3>4, <2>4
    <3> QED BY <3>3, <3>4
  <2> QED BY <2>4, <2>6, <2>7, <2>8, <2>11, <2>12, Zenon DEF Recorded
<1> QED BY <1>1, <1>2

\* What two tries do: a message that is recorded is in the pipe, and one that is not has left the
\* pipe as it was or empty; only an open pipe refuses one.
Attempted(s, ok, t, m) ==
    /\ ok \in BOOLEAN
    /\ t \in LogState /\ SameBooks(s, t) /\ t.recursiveFailure = s.recursiveFailure
    /\ \A n \in Nat : IdsUpTo(s, n) /\ m.id <= n => IdsUpTo(t, n)
    /\ \A kinds, id : Told(t, kinds, id)
                                => Told(s, kinds, id) \/ (ok /\ m.kind \in kinds /\ m.id = id)
    /\ ok /\ ~s.closed => Told(t, {m.kind}, m.id)
    /\ ~ok => ~s.closed
    /\ m.kind # "event" \/ ~ok => \A gone : PrintedBut(s, gone) => PrintedBut(t, gone)
    /\ m.kind = "event" /\ m.id \in 1 .. MaxEvents /\ ok
                => \A gone : m.id \in gone /\ PrintedBut(s, gone) => PrintedBut(t, gone \ {m.id})

\* The two tries of event().
LEMMA TryRecordFacts ==
    ASSUME NEW s \in LogState, NEW m \in Messages, NEW ticks,
           NEW r, r = TryRecord(s, ticks, m), NEW t, t = r.log
    PROVE  Attempted(s, r.ok, t, m)
<1> DEFINE f == FlushLog(s, ticks, m)
<1>1. CASE RecordFits(s, m)
  <2>1. r = [ok |-> TRUE, log |-> Record(s, m)]
    BY <1>1 DEF TryRecord
  <2>2. r.ok = TRUE /\ t = Record(s, m)
    BY <2>1
  <2>3. Recorded(s, t, m)
    BY <2>2, RecordFacts
  <2> QED BY <2>2, <2>3 DEF Recorded, Attempted
<1>2. CASE ~RecordFits(s, m)
  <2>1. ~s.closed
    BY <1>2 DEF RecordFits
  <2>2. f = s \/ f = UserEvents(s)
    BY DEF FlushLog
  <2>3. /\ f \in LogState /\ SameBooks(s, f) /\ f.recursiveFailure = s.recursiveFailure
        /\ f.pipe \in {s.pipe, <<>>}
        /\ \A gone : PrintedBut(s, gone) => PrintedBut(f, gone)
    <3>1. SameBooks(s, s)
      BY DEF SameBooks
    <3> QED BY <2>2, <3>1, UserEventsFacts
  <2>4. /\ \A n \in Nat : IdsUpTo(s, n) => IdsUpTo(f, n)
        /\ \A kinds, id : Told(f, kinds, id) => Told(s, kinds, id)
    BY <2>3 DEF IdsUpTo, Told
  <2>5. CASE RecordFits(f, m)
    <3>1. r = [ok |-> TRUE, log |-> Record(f, m)]
      BY <1>2, <2>5 DEF TryRecord
    <3>2. r.ok = TRUE /\ t = Record(f, m)
      BY <3>1
    <3> HIDE DEF f
    <3>3. Recorded(f, t, m)
      BY <2>3, <3>2, RecordFacts
    <3>4. SameBooks(s, t) /\ (~s.closed => ~f.closed)
      BY <2>3, <3>3 DEF SameBooks, Recorded
    <3> QED BY <2>1, <2>3, <2>4, <3>2, <3>3, <3>4, Zenon DEF Attempted, Recorded
  <2>6. CASE ~RecordFits(f, m)
    <3>1. r = [ok |-> FALSE, log |-> f]
      BY <1>2, <2>6 DEF TryRecord
    <3>2. r.ok = FALSE /\ t = f
      BY <3>1
    <3> HIDE DEF f
    <3> QED BY <2>1, <2>3, <2>4, <3>2, Zenon DEF Attempted
  <2> QED BY <2>5, <2>6
<1> QED BY <1>1, <1>2

\* What is said of the pipe depends on the pipe and on what is printed only.
LEMMA SamePipe ==
    ASSUME NEW s, NEW t, t.pipe = s.pipe, t.printed = s.printed, t.closed = s.closed
    PROVE  /\ \A gone : PrintedBut(t, gone) <=> PrintedBut(s, gone)
           /\ \A kinds, id : Told(t, kinds, id) <=> Told(s, kinds, id)
           /\ \A n : IdsUpTo(t, n) <=> IdsUpTo(s, n)
BY DEF PrintedBut, Spoiled, Waiting, Told, IdsUpTo

\* What event() within event() does with a message: a failure is counted, and nothing else tells it
\* from a success.
Tried(s, t, m) ==
    /\ t \in LogState /\ SameBooks(s, t)
    /\ t.recursiveFailure \in {s.recursiveFailure, s.recursiveFailure + 1}
    /\ \A n \in Nat : IdsUpTo(s, n) /\ m.id <= n => IdsUpTo(t, n)
    /\ \A kinds, id : Told(t, kinds, id)
         => \/ Told(s, kinds, id)
            \/ t.recursiveFailure = s.recursiveFailure /\ m.kind \in kinds /\ m.id = id
    /\ t.recursiveFailure = s.recursiveFailure /\ ~s.closed => Told(t, {m.kind}, m.id)
    /\ \A gone : PrintedBut(s, gone) => PrintedBut(t, gone)

\* event() within event().
LEMMA RecursiveEventFacts ==
    ASSUME NEW s \in LogState, NEW m \in Messages, NEW ticks, m.kind # "event",
           NEW t, t = RecursiveEvent(s, ticks, m)
    PROVE  Tried(s, t, m)
<1> DEFINE r == TryRecord(s, ticks, m)
           w == r.log
<1>1. /\ r.ok \in BOOLEAN
      /\ w \in LogState /\ SameBooks(s, w) /\ w.recursiveFailure = s.recursiveFailure
      /\ \A n \in Nat : IdsUpTo(s, n) /\ m.id <= n => IdsUpTo(w, n)
      /\ \A kinds, id : Told(w, kinds, id)
                           => Told(s, kinds, id) \/ (r.ok /\ m.kind \in kinds /\ m.id = id)
      /\ r.ok /\ ~s.closed => Told(w, {m.kind}, m.id)
      /\ \A gone : PrintedBut(s, gone) => PrintedBut(w, gone)
  <2> HIDE DEF w
  <2>1. w = r.log
    BY DEF w
  <2> HIDE DEF r
  <2>2. r = TryRecord(s, ticks, m)
    BY DEF r
  <2>3. Attempted(s, r.ok, w, m)
    BY <2>1, <2>2, TryRecordFacts
  <2> QED BY <2>3 DEF Attempted
<1>2. t = IF r.ok THEN w ELSE [w EXCEPT !.recursiveFailure = @ + 1]
  BY DEF RecursiveEvent
<1> HIDE DEF r, w
<1>3. CASE r.ok
  <2>1. t = w
    BY <1>2, <1>3
  <2> QED BY <1>1, <1>3, <2>1 DEF Tried
<1>4. CASE ~r.ok
  <2>1. t = [w EXCEPT !.recursiveFailure = @ + 1]
    BY <1>2, <1>4
  <2>2. /\ t \in LogState /\ t.pipe = w.pipe /\ t.printed = w.printed /\ t.closed = w.closed
        /\ SameBooks(s, t)
        /\ t.recursiveFailure = s.recursiveFailure + 1 /\ s.recursiveFailure \in Nat
    <3> DEFINE v == w.recursiveFailure + 1
    <3>1. w.recursiveFailure \in Nat /\ v \in Nat /\ v = s.recursiveFailure + 1
      BY <1>1 DEF LogState
    <3>2. t = [w EXCEPT !.recursiveFailure = v]
      BY <2>1, Zenon
    <3> HIDE DEF v
    <3> QED BY <1>1, <3>1, <3>2 DEF LogState, SameBooks
  <2>3. /\ \A gone : PrintedBut(t, gone) <=> PrintedBut(w, gone)
        /\ \A kinds, id : Told(t, kinds, id) <=> Told(w, kinds, id)
        /\ \A n : IdsUpTo(t, n) <=> IdsUpTo(w, n)
    BY <2>2, SamePipe, Zenon
  <2>4. t.recursiveFailure # s.recursiveFailure
    BY <2>2
  <2> QED BY <1>1, <1>4, <2>2, <2>3, <2>4, Zenon DEF Tried
<1> QED BY <1>1, <1>3, <1>4

\* report_lost_messages_statistics(): what is moved to the total is told, or moved back.
LEMMA StatisticsFacts ==
    ASSUME NEW s \in LogState, NEW ticks, s.lostTotally = s.toldTotal,
           NEW t, t = ReportLostStatistics(s, ticks)
    PROVE  /\ t \in LogState /\ t.events = s.events /\ t.closed = s.closed
           /\ t.lost = s.lost /\ t.noPrefix = s.noPrefix /\ t.silent = s.silent
           /\ t.planBFailures = s.planBFailures /\ t.planCFailures = s.planCFailures
           /\ t.lostRecently + t.lostTotally = s.lostRecently + s.lostTotally
           /\ t.lostTotally = t.toldTotal
           /\ \A n \in Nat : IdsUpTo(s, n) => IdsUpTo(t, n)
           /\ \A gone : PrintedBut(s, gone) => PrintedBut(t, gone)
<1>1. CASE s.lostRecently = 0
  <2>1. t = s
    BY <1>1 DEF ReportLostStatistics
  <2> QED BY <2>1
<1>2. CASE s.lostRecently # 0
  <2> DEFINE recent == s.lostRecently
             counted == [s EXCEPT !.lostTotally = @ + recent, !.lostRecently = @ - recent]
             m == Message("statistics", 0, StatisticsSize, counted.lostTotally)
             told == RecursiveEvent(counted, ticks, m)
  <2>1. /\ counted \in LogState /\ counted.pipe = s.pipe /\ counted.printed = s.printed
        /\ counted.closed = s.closed /\ counted.events = s.events
        /\ counted.lost = s.lost /\ counted.noPrefix = s.noPrefix /\ counted.silent = s.silent
        /\ counted.planBFailures = s.planBFailures /\ counted.planCFailures = s.planCFailures
        /\ counted.lostRecently = 0 /\ counted.lostTotally = s.lostTotally + s.lostRecently
        /\ counted.recursiveFailure = s.recursiveFailure /\ counted.toldTotal = s.toldTotal
    <3> DEFINE v1 == s.lostTotally + recent
               v2 == s.lostRecently - recent
    <3>1. v1 \in Nat /\ v1 = s.lostTotally + s.lostRecently /\ v2 = 0
      BY DEF LogState
    <3>2. counted = [s EXCEPT !.lostTotally = v1, !.lostRecently = v2]
      BY Zenon
    <3> HIDE DEF v1, v2, counted
    <3> QED BY <3>1, <3>2 DEF LogState
  <2> HIDE DEF counted
  <2>2. m \in Messages /\ m.kind = "statistics" /\ m.id = 0
    <3>1. counted.lostTotally \in Nat /\ StatisticsSize \in Nat
      BY <2>1, LogAssumption DEF LogState
    <3> QED BY <3>1 DEF Message, Messages, LogKinds
  <2>3. t = IF told.recursiveFailure > s.recursiveFailure
            THEN [told EXCEPT !.lostRecently = @ + recent, !.lostTotally = @ - recent]
            ELSE [told EXCEPT !.toldTotal = counted.lostTotally]
    BY <1>2, Zenon DEF ReportLostStatistics, counted
  <2> HIDE DEF m
  <2>4. /\ told \in LogState /\ SameBooks(counted, told)
        /\ \A n \in Nat : IdsUpTo(counted, n) /\ m.id <= n => IdsUpTo(told, n)
        /\ \A gone : PrintedBut(counted, gone) => PrintedBut(told, gone)
    <3>1. m.kind # "event"
      BY <2>2
    <3> HIDE DEF told
    <3>2. told = RecursiveEvent(counted, ticks, m)
      BY DEF told
    <3>3. Tried(counted, told, m)
      BY <2>1, <2>2, <3>1, <3>2, RecursiveEventFacts
    <3> QED BY <3>3 DEF Tried
  <2> HIDE DEF told
  <2>5. /\ t \in LogState /\ t.pipe = told.pipe /\ t.printed = told.printed /\ t.closed = told.closed
        /\ t.events = s.events /\ t.closed = s.closed
        /\ t.lost = s.lost /\ t.noPrefix = s.noPrefix /\ t.silent = s.silent
        /\ t.planBFailures = s.planBFailures /\ t.planCFailures = s.planCFailures
        /\ t.lostRecently + t.lostTotally = s.lostRecently + s.lostTotally
        /\ t.lostTotally = t.toldTotal
    <3>1. CASE told.recursiveFailure > s.recursiveFailure
      <4>1. t = [told EXCEPT !.lostRecently = @ + recent, !.lostTotally = @ - recent]
        BY <2>3, <3>1
      <4> DEFINE v1 == told.lostRecently + recent
                 v2 == told.lostTotally - recent
      <4>2. v1 = s.lostRecently /\ v2 = s.lostTotally /\ v1 \in Nat /\ v2 \in Nat
        BY <2>1, <2>4 DEF LogState, SameBooks
      <4>3. t = [told EXCEPT !.lostRecently = v1, !.lostTotally = v2]
        BY <4>1, Zenon
      <4> HIDE DEF v1, v2
      <4> QED BY ZenonT(30), <4>2, <4>3, <2>1, <2>4 DEF LogState, SameBooks
    <3>2. CASE ~(told.recursiveFailure > s.recursiveFailure)
      <4>1. t = [told EXCEPT !.toldTotal = counted.lostTotally]
        BY <2>3, <3>2
      <4> DEFINE v == counted.lostTotally
      <4>2. v = s.lostTotally + s.lostRecently /\ v \in Nat
        BY <2>1 DEF LogState
      <4>3. t = [told EXCEPT !.toldTotal = v]
        BY <4>1, Zenon
      <4>4. told.lostRecently = 0 /\ told.lostTotally = v /\ s.lostRecently + s.lostTotally = v
        BY <4>2, <2>1, <2>4 DEF LogState, SameBooks
      <4> HIDE DEF v
      <4>5. /\ t \in LogState /\ t.pipe = told.pipe /\ t.printed = told.printed
            /\ t.closed = told.closed /\ t.events = told.events
            /\ t.lost = told.lost /\ t.noPrefix = told.noPrefix /\ t.silent = told.silent
            /\ t.planBFailures = told.planBFailures /\ t.planCFailures = told.planCFailures
            /\ t.toldTotal = v /\ t.lostRecently = told.lostRecently /\ t.lostTotally = told.lostTotally
        BY <4>2, <4>3, <2>4 DEF LogState
      <4>6. v = 0 + v
        BY <4>2
      <4> QED BY <4>4, <4>5, <4>6, <2>1, <2>4 DEF SameBooks
    <3> QED BY <3>1, <3>2
  <2>6. /\ \A gone : PrintedBut(t, gone) <=> PrintedBut(told, gone)
        /\ \A n : IdsUpTo(t, n) <=> IdsUpTo(told, n)
    BY <2>5, SamePipe, Zenon
  <2>7. /\ \A gone : PrintedBut(counted, gone) <=> PrintedBut(s, gone)
        /\ \A n : IdsUpTo(counted, n) <=> IdsUpTo(s, n)
    BY <2>1, SamePipe, Zenon
  <2>8. \A n \in Nat : m.id <= n
    BY <2>2
  <2> QED BY <2>4, <2>5, <2>6, <2>7, <2>8
<1> QED BY <1>1, <1>2

\* report_lost_message(): a lost message is counted once, and each plan that fails is the one that
\* has left nothing in the pipe.
LEMMA LostMessageFacts ==
    ASSUME NEW s \in LogState, NEW ticks, NEW id \in Nat, ~s.closed,
           ~Told(s, TraceKinds, id),
           NEW t, t = ReportLostMessage(s, ticks, id)
    PROVE  /\ t \in LogState /\ t.events = s.events /\ t.closed = s.closed
           /\ t.lost = s.lost /\ t.noPrefix = s.noPrefix /\ t.silent = s.silent
           /\ t.lostRecently = s.lostRecently + 1 /\ t.lostTotally = s.lostTotally
           /\ t.toldTotal = s.toldTotal
           /\ t.planBFailures = s.planBFailures + (IF Told(t, PrefixKinds, id) THEN 0 ELSE 1)
           /\ t.planCFailures = s.planCFailures + (IF Told(t, TraceKinds, id) THEN 0 ELSE 1)
           /\ \A n \in Nat : IdsUpTo(s, n) /\ id <= n => IdsUpTo(t, n)
           /\ \A gone : PrintedBut(s, gone) => PrintedBut(t, gone)
<1> DEFINE s1 == [s EXCEPT !.lostRecently = @ + 1]
           mb == Message("plan b", id, PlanBSize, 0)
           b == RecursiveEvent(s1, ticks, mb)
           b1 == [b EXCEPT !.planBFailures = @ + 1]
           mc == Message("plan c", id, PlanCSize, 0)
           c1 == RecursiveEvent(b1, ticks, mc)
           before == s.recursiveFailure
           c == IF b.recursiveFailure > before THEN c1 ELSE b
<1>1. mb \in Messages /\ mb.kind = "plan b" /\ mb.id = id /\ mc \in Messages /\ mc.kind = "plan c" /\ mc.id = id
  <2>1. PlanBSize \in Nat /\ PlanCSize \in Nat
    BY LogAssumption
  <2> QED BY <2>1 DEF Message, Messages, LogKinds
<1>2. /\ s1 \in LogState /\ s1.pipe = s.pipe /\ s1.printed = s.printed /\ s1.closed = s.closed
      /\ s1.events = s.events /\ s1.lost = s.lost /\ s1.noPrefix = s.noPrefix /\ s1.silent = s.silent
      /\ s1.planBFailures = s.planBFailures /\ s1.planCFailures = s.planCFailures
      /\ s1.lostRecently = s.lostRecently + 1 /\ s1.lostTotally = s.lostTotally
      /\ s1.recursiveFailure = before /\ s1.toldTotal = s.toldTotal /\ before \in Nat
  <2> DEFINE v == s.lostRecently + 1
  <2>1. v \in Nat
    BY DEF LogState
  <2>2. s1 = [s EXCEPT !.lostRecently = v]
    BY Zenon
  <2> HIDE DEF s1, v
  <2>3. s1.lostRecently = v
    BY <2>2 DEF LogState
  <2> QED BY <2>1, <2>2, <2>3 DEF LogState, v
<1>3. t = [c EXCEPT !.planCFailures = @ + (IF c.recursiveFailure > before + 1 THEN 1 ELSE 0)]
  BY Zenon DEF ReportLostMessage
<1> HIDE DEF s1, mb, mc
<1>4. /\ b \in LogState /\ SameBooks(s1, b)
      /\ b.recursiveFailure \in {before, before + 1}
      /\ \A n \in Nat : IdsUpTo(s1, n) /\ id <= n => IdsUpTo(b, n)
      /\ \A kinds, i : Told(b, kinds, i)
           => Told(s1, kinds, i) \/ (b.recursiveFailure = before /\ mb.kind \in kinds /\ i = id)
      /\ b.recursiveFailure = before => Told(b, {mb.kind}, id)
      /\ \A gone : PrintedBut(s1, gone) => PrintedBut(b, gone)
  <2>1. mb.kind # "event" /\ ~s1.closed
    BY <1>1, <1>2
  <2> HIDE DEF b, before
  <2>2. b = RecursiveEvent(s1, ticks, mb)
    BY DEF b
  <2>3. Tried(s1, b, mb)
    BY <1>1, <1>2, <2>1, <2>2, RecursiveEventFacts
  <2> QED BY <1>1, <1>2, <2>1, <2>3 DEF Tried
<1>5. /\ \A gone : PrintedBut(s1, gone) <=> PrintedBut(s, gone)
      /\ \A kinds, i : Told(s1, kinds, i) <=> Told(s, kinds, i)
      /\ \A n : IdsUpTo(s1, n) <=> IdsUpTo(s, n)
  BY <1>2, SamePipe, Zenon
<1>6. ~Told(s, PrefixKinds, id)
  BY DEF Told, TraceKinds, PrefixKinds
<1> HIDE DEF b
<1>7. CASE b.recursiveFailure = before
  <2>1. ~(b.recursiveFailure > before) /\ ~(b.recursiveFailure > before + 1)
    BY <1>2, <1>7
  <2>2. c = b
    BY <2>1
  <2>3. t = [b EXCEPT !.planCFailures = @ + 0]
    BY <1>3, <2>1, <2>2
  <2>4. /\ t \in LogState /\ t.pipe = b.pipe /\ t.printed = b.printed /\ t.closed = b.closed
        /\ SameBooks(s1, t)
    <3> DEFINE v == b.planCFailures + 0
    <3>1. v \in Nat /\ v = b.planCFailures
      BY SMTT(30), <1>4 DEF LogState
    <3>2. t = [b EXCEPT !.planCFailures = v]
      BY <2>3, Zenon
    <3> HIDE DEF v
    <3> QED BY <3>1, <3>2, <1>4 DEF LogState, SameBooks
  <2>5. /\ \A gone : PrintedBut(t, gone) <=> PrintedBut(b, gone)
        /\ \A kinds, i : Told(t, kinds, i) <=> Told(b, kinds, i)
        /\ \A n : IdsUpTo(t, n) <=> IdsUpTo(b, n)
    BY <2>4, SamePipe, Zenon
  <2>6. Told(t, PrefixKinds, id) /\ Told(t, TraceKinds, id)
    <3>1. Told(b, PrefixKinds, id)
      BY <1>1, <1>4, <1>7 DEF Told, PrefixKinds
    <3>2. Told(b, TraceKinds, id)
      BY <3>1 DEF Told, PrefixKinds, TraceKinds
    <3> QED BY <3>1, <3>2, <2>5
  <2>7. /\ t.events = s.events /\ t.closed = s.closed
        /\ t.lost = s.lost /\ t.noPrefix = s.noPrefix /\ t.silent = s.silent
        /\ t.lostRecently = s.lostRecently + 1 /\ t.lostTotally = s.lostTotally
        /\ t.toldTotal = s.toldTotal
        /\ t.planBFailures = s.planBFailures + 0 /\ t.planCFailures = s.planCFailures + 0
    BY <2>4, <1>2 DEF SameBooks, LogState
  <2> QED BY <2>4, <2>5, <2>6, <2>7, <1>4, <1>5
<1>8. CASE b.recursiveFailure = before + 1
  <2>1. b.recursiveFailure > before /\ b.recursiveFailure # before
    BY <1>2, <1>8
  <2>2. c = c1
    BY <2>1
  <2>3. /\ b1 \in LogState /\ b1.pipe = b.pipe /\ b1.printed = b.printed /\ b1.closed = b.closed
        /\ b1.recursiveFailure = before + 1 /\ b1.closed = s.closed /\ b1.events = s.events
        /\ b1.lost = s.lost /\ b1.noPrefix = s.noPrefix /\ b1.silent = s.silent
        /\ b1.lostRecently = s.lostRecently + 1 /\ b1.lostTotally = s.lostTotally
        /\ b1.toldTotal = s.toldTotal
        /\ b1.planBFailures = s.planBFailures + 1 /\ b1.planCFailures = s.planCFailures
    <3> DEFINE v == b.planBFailures + 1
    <3>1. v \in Nat /\ v = s.planBFailures + 1
      BY <1>2, <1>4 DEF LogState, SameBooks
    <3>2. b1 = [b EXCEPT !.planBFailures = v]
      BY Zenon
    <3> HIDE DEF v, b1
    <3>3. /\ b1 \in LogState /\ b1.pipe = b.pipe /\ b1.printed = b.printed /\ b1.closed = b.closed
          /\ b1.recursiveFailure = b.recursiveFailure /\ b1.events = b.events
          /\ b1.lost = b.lost /\ b1.noPrefix = b.noPrefix /\ b1.silent = b.silent
          /\ b1.lostRecently = b.lostRecently /\ b1.lostTotally = b.lostTotally
          /\ b1.toldTotal = b.toldTotal
          /\ b1.planBFailures = v /\ b1.planCFailures = b.planCFailures
      BY <3>1, <3>2, <1>4 DEF LogState
    <3> QED BY <3>1, <3>3, <1>2, <1>4, <1>8 DEF SameBooks
  <2> HIDE DEF b1
  <2>4. /\ \A gone : PrintedBut(b1, gone) <=> PrintedBut(b, gone)
        /\ \A kinds, i : Told(b1, kinds, i) <=> Told(b, kinds, i)
        /\ \A n : IdsUpTo(b1, n) <=> IdsUpTo(b, n)
    BY <2>3, SamePipe, Zenon
  <2>5. /\ c1 \in LogState /\ SameBooks(b1, c1)
        /\ c1.recursiveFailure \in {before + 1, before + 1 + 1}
        /\ \A n \in Nat : IdsUpTo(b1, n) /\ id <= n => IdsUpTo(c1, n)
        /\ \A kinds, i : Told(c1, kinds, i)
             => Told(b1, kinds, i) \/ (c1.recursiveFailure = before + 1 /\ mc.kind \in kinds /\ i = id)
        /\ c1.recursiveFailure = before + 1 => Told(c1, {mc.kind}, id)
        /\ \A gone : PrintedBut(b1, gone) => PrintedBut(c1, gone)
    <3>1. mc.kind # "event" /\ ~b1.closed
      BY <1>1, <2>3
    <3> HIDE DEF c1, before
    <3>2. c1 = RecursiveEvent(b1, ticks, mc)
      BY DEF c1
    <3>3. Tried(b1, c1, mc)
      BY <1>1, <2>3, <3>1, <3>2, RecursiveEventFacts
    <3> QED BY <1>1, <2>3, <3>1, <3>3 DEF Tried
  <2> HIDE DEF c1
  <2>6. t = [c1 EXCEPT !.planCFailures = @ + (IF c1.recursiveFailure > before + 1 THEN 1 ELSE 0)]
    BY <1>3, <2>2
  <2>7. /\ t \in LogState /\ t.pipe = c1.pipe /\ t.printed = c1.printed /\ t.closed = c1.closed
        /\ t.events = s.events /\ t.closed = s.closed
        /\ t.lost = s.lost /\ t.noPrefix = s.noPrefix /\ t.silent = s.silent
        /\ t.lostRecently = s.lostRecently + 1 /\ t.lostTotally = s.lostTotally
        /\ t.toldTotal = s.toldTotal
        /\ t.planBFailures = s.planBFailures + 1
        /\ t.planCFailures = s.planCFailures + (IF c1.recursiveFailure > before + 1 THEN 1 ELSE 0)
    <3> DEFINE v == c1.planCFailures + (IF c1.recursiveFailure > before + 1 THEN 1 ELSE 0)
    <3>1. v \in Nat /\ v = s.planCFailures + (IF c1.recursiveFailure > before + 1 THEN 1 ELSE 0)
      BY SMTT(30), <2>3, <2>5 DEF LogState, SameBooks
    <3>2. t = [c1 EXCEPT !.planCFailures = v]
      BY <2>6, Zenon
    <3> HIDE DEF v
    <3>3. /\ t \in LogState /\ t.pipe = c1.pipe /\ t.printed = c1.printed /\ t.closed = c1.closed
          /\ t.events = c1.events
          /\ t.lost = c1.lost /\ t.noPrefix = c1.noPrefix /\ t.silent = c1.silent
          /\ t.lostRecently = c1.lostRecently /\ t.lostTotally = c1.lostTotally
          /\ t.toldTotal = c1.toldTotal
          /\ t.planBFailures = c1.planBFailures /\ t.planCFailures = v
      BY <3>1, <3>2, <2>5 DEF LogState
    <3> QED BY <3>1, <3>3, <2>3, <2>5 DEF SameBooks
  <2>8. /\ \A gone : PrintedBut(t, gone) <=> PrintedBut(c1, gone)
        /\ \A kinds, i : Told(t, kinds, i) <=> Told(c1, kinds, i)
        /\ \A n : IdsUpTo(t, n) <=> IdsUpTo(c1, n)
    BY <2>7, SamePipe, Zenon
  <2>9. ~Told(t, PrefixKinds, id)
    <3>1. mc.kind \notin PrefixKinds
      BY <1>1 DEF PrefixKinds
    <3> QED BY <3>1, <1>4, <1>5, <1>6, <2>1, <2>4, <2>5, <2>8
  <2>10. Told(t, TraceKinds, id) <=> ~(c1.recursiveFailure > before + 1)
    <3>1. CASE c1.recursiveFailure = before + 1
      <4>1. Told(c1, {mc.kind}, id)
        BY <2>5, <3>1
      <4>2. Told(c1, TraceKinds, id)
        BY <1>1, <4>1 DEF Told, TraceKinds
      <4> QED BY <4>2, <2>8, <3>1, <1>2
    <3>2. CASE c1.recursiveFailure = before + 1 + 1
      <4>1. c1.recursiveFailure # before + 1 /\ c1.recursiveFailure > before + 1
        BY <3>2, <1>2
      <4> QED BY <4>1, <1>4, <1>5, <2>1, <2>4, <2>5, <2>8
    <3> QED BY <3>1, <3>2, <2>5
  <2> QED BY <2>4, <2>5, <2>7, <2>8, <2>9, <2>10, <1>4, <1>5
<1> QED BY <1>4, <1>7, <1>8

\* What the histories keep of a lost event.
Noted(u, t, id) ==
    /\ t \in LogState /\ t.pipe = u.pipe /\ t.printed = u.printed /\ t.closed = u.closed
    /\ t.events = u.events /\ t.lostRecently = u.lostRecently /\ t.lostTotally = u.lostTotally
    /\ t.toldTotal = u.toldTotal
    /\ t.planBFailures = u.planBFailures /\ t.planCFailures = u.planCFailures
    /\ t.lost = u.lost \cup {id}
    /\ t.noPrefix = IF Told(u, PrefixKinds, id) THEN u.noPrefix ELSE u.noPrefix \cup {id}
    /\ t.silent = IF Told(u, TraceKinds, id) THEN u.silent ELSE u.silent \cup {id}

\* The counters and the histories of a lost event go together.
LEMMA NoteLostFacts ==
    ASSUME NEW u \in LogState, NEW id \in 1 .. MaxEvents, NEW t, t = NoteLost(u, id)
    PROVE  Noted(u, t, id)
<1> DEFINE l == u.lost \cup {id}
           p == IF Told(u, PrefixKinds, id) THEN u.noPrefix ELSE u.noPrefix \cup {id}
           q == IF Told(u, TraceKinds, id) THEN u.silent ELSE u.silent \cup {id}
<1>1. t = [u EXCEPT !.lost = l, !.noPrefix = p, !.silent = q]
  BY Zenon DEF NoteLost, Told, PrefixKinds, TraceKinds
<1>2. l \in SUBSET (1 .. MaxEvents) /\ p \in SUBSET (1 .. MaxEvents) /\ q \in SUBSET (1 .. MaxEvents)
  BY DEF LogState
<1> HIDE DEF l, p, q
<1>3. /\ t \in LogState /\ t.pipe = u.pipe /\ t.printed = u.printed /\ t.closed = u.closed
      /\ t.events = u.events /\ t.lostRecently = u.lostRecently /\ t.lostTotally = u.lostTotally
      /\ t.toldTotal = u.toldTotal
      /\ t.planBFailures = u.planBFailures /\ t.planCFailures = u.planCFailures
      /\ t.lost = l /\ t.noPrefix = p /\ t.silent = q
  BY <1>1, <1>2 DEF LogState
<1> QED BY <1>3 DEF l, p, q, Noted

\* A new event is one more.
LEMMA OneMoreId ==
    ASSUME NEW n \in Nat, NEW S, S \subseteq 1 .. n
    PROVE  Cardinality(S \cup {n + 1}) = Cardinality(S) + 1
<1>1. IsFiniteSet(1 .. n)
  BY FS_Interval
<1>2. n + 1 \notin S
  OBVIOUS
<1>3. IsFiniteSet(S)
  BY <1>1, FS_Subset
<1> QED BY <1>2, <1>3, FS_AddElement

\* event() of an event of the program: recorded, or lost with all that is counted about it.
LEMMA CollectPreserves ==
    ASSUME Balanced(log), NEW size \in EventSizes, NEW ticks, CollectEvent(size, ticks)
    PROVE  Balanced(log')
<1> DEFINE id == log.events + 1
           s0 == [log EXCEPT !.events = id]
           m == Message("event", id, size, 0)
           r == TryRecord(s0, ticks, m)
           t == r.log
<1>1. /\ log \in LogState /\ log.events \in Nat /\ MaxEvents \in Nat
      /\ id \in 1 .. MaxEvents /\ id \in Nat /\ log.events < id /\ log.events <= id
  <2>1. log.events < MaxEvents
    BY Zenon DEF CollectEvent
  <2>2. log \in LogState /\ MaxEvents \in Nat
    BY LogAssumption DEF Balanced
  <2>3. log.events \in 0 .. MaxEvents
    BY <2>2 DEF LogState
  <2> QED BY <2>1, <2>2, <2>3
<1>2. log' = IF r.ok THEN ReportLostStatistics([t EXCEPT !.recursiveFailure = 0], ticks)
             ELSE NoteLost(ReportLostMessage(t, ticks, id), id)
  BY Zenon DEF CollectEvent
<1>3. m \in Messages /\ m.kind = "event" /\ m.id = id
  BY <1>1, LogAssumption DEF Message, Messages, LogKinds
<1> HIDE DEF id, m
<1>4. /\ s0 \in LogState /\ s0.pipe = log.pipe /\ s0.printed = log.printed /\ s0.closed = log.closed
      /\ s0.events = id /\ s0.lostRecently = log.lostRecently /\ s0.lostTotally = log.lostTotally
      /\ s0.toldTotal = log.toldTotal
      /\ s0.planBFailures = log.planBFailures /\ s0.planCFailures = log.planCFailures
      /\ s0.lost = log.lost /\ s0.noPrefix = log.noPrefix /\ s0.silent = log.silent
  <2>1. id \in 0 .. MaxEvents
    BY <1>1
  <2> QED BY <1>1, <2>1 DEF LogState
<1> HIDE DEF s0
<1>5. /\ IdsUpTo(s0, log.events) /\ PrintedBut(s0, Gone(log))
      /\ \A kinds : ~Told(s0, kinds, id)
  <2>1. IdsUpTo(s0, log.events) /\ PrintedBut(s0, Gone(log))
    BY <1>4, SamePipe, Zenon DEF Balanced
  <2>2. \A i \in DOMAIN s0.pipe : s0.pipe[i] \in Messages
    BY <1>4 DEF LogState
  <2>3. \A i \in DOMAIN s0.pipe : s0.pipe[i].id \in Nat
    BY <2>2 DEF Messages
  <2>4. \A i \in DOMAIN s0.pipe : s0.pipe[i].id # id
    BY <1>1, <2>1, <2>3 DEF IdsUpTo
  <2> QED BY <2>1, <2>4 DEF Told
<1>6. IdsUpTo(s0, id)
  <2>1. \A i \in DOMAIN s0.pipe : s0.pipe[i] \in Messages
    BY <1>4 DEF LogState
  <2>2. \A i \in DOMAIN s0.pipe : s0.pipe[i].id \in Nat
    BY <2>1 DEF Messages
  <2> QED BY <1>1, <1>5, <2>2 DEF IdsUpTo
<1>7. Attempted(s0, r.ok, t, m)
  <2> HIDE DEF t
  <2>1. t = r.log
    BY DEF t
  <2> HIDE DEF r
  <2>2. r = TryRecord(s0, ticks, m)
    BY DEF r
  <2> QED BY <1>3, <1>4, <2>1, <2>2, TryRecordFacts
<1> HIDE DEF r, t
<1>8. /\ log.lost \subseteq 1 .. log.events /\ log.noPrefix \subseteq 1 .. log.events
      /\ log.silent \subseteq 1 .. log.events /\ 1 .. log.events \subseteq 1 .. id
      /\ log.lostRecently + log.lostTotally = Cardinality(log.lost)
      /\ log.lostTotally = log.toldTotal
      /\ log.planBFailures = Cardinality(log.noPrefix)
      /\ log.planCFailures = Cardinality(log.silent)
  BY <1>1 DEF Balanced, Counted
<1>9. m.id <= id /\ IdsUpTo(t, id)
  BY <1>1, <1>3, <1>6, <1>7 DEF Attempted
<1>10. CASE r.ok
  <2> DEFINE w == [t EXCEPT !.recursiveFailure = 0]
             f == ReportLostStatistics(w, ticks)
  <2>1. /\ w \in LogState /\ SameBooks(s0, w)
        /\ w.pipe = t.pipe /\ w.printed = t.printed /\ w.closed = t.closed
    BY <1>7 DEF LogState, SameBooks, Attempted
  <2> HIDE DEF w
  <2>2. /\ IdsUpTo(w, id) /\ PrintedBut(w, Gone(log) \ {id})
    <3>1. id \in Gone(log)
      BY <1>1 DEF Gone, id
    <3>2. PrintedBut(t, Gone(log) \ {id})
      BY <1>1, <1>3, <1>5, <1>7, <1>10, <3>1 DEF Attempted
    <3> QED BY <1>9, <3>2, <2>1, SamePipe, Zenon
  <2>3. w.lostTotally = w.toldTotal
    BY <2>1, <1>4, <1>8 DEF SameBooks
  <2>4. /\ f \in LogState /\ f.events = w.events
        /\ f.lost = w.lost /\ f.noPrefix = w.noPrefix /\ f.silent = w.silent
        /\ f.planBFailures = w.planBFailures /\ f.planCFailures = w.planCFailures
        /\ f.lostRecently + f.lostTotally = w.lostRecently + w.lostTotally
        /\ f.lostTotally = f.toldTotal
        /\ \A n \in Nat : IdsUpTo(w, n) => IdsUpTo(f, n)
        /\ \A gone : PrintedBut(w, gone) => PrintedBut(f, gone)
    <3> HIDE DEF f
    <3>1. f = ReportLostStatistics(w, ticks)
      BY DEF f
    <3> QED BY <2>1, <2>3, <3>1, StatisticsFacts
  <2>5. log' = f
    BY <1>2, <1>10 DEF w
  <2> HIDE DEF f
  <2>6. f.events = id /\ f.lost = log.lost /\ f.noPrefix = log.noPrefix /\ f.silent = log.silent
    BY <2>1, <2>4, <1>4 DEF SameBooks
  <2>7. Gone(f) = Gone(log) \ {id}
    BY <2>6, <1>1, <1>8 DEF Gone, id
  <2>8. Counted(f)
    BY <2>1, <2>4, <2>6, <1>4, <1>8 DEF Counted, SameBooks
  <2>9. Balanced(f)
    BY <1>1, <2>2, <2>4, <2>6, <2>7, <2>8 DEF Balanced
  <2> QED BY <2>5, <2>9
<1>11. CASE ~r.ok
  <2> DEFINE u == ReportLostMessage(t, ticks, id)
             f == NoteLost(u, id)
  <2>1. ~t.closed /\ ~Told(t, TraceKinds, id)
    BY <1>4, <1>5, <1>7, <1>11 DEF SameBooks, Attempted
  <2>2. /\ u \in LogState /\ u.events = t.events
        /\ u.lost = t.lost /\ u.noPrefix = t.noPrefix /\ u.silent = t.silent
        /\ u.lostRecently = t.lostRecently + 1 /\ u.lostTotally = t.lostTotally
        /\ u.toldTotal = t.toldTotal
        /\ u.planBFailures = t.planBFailures + (IF Told(u, PrefixKinds, id) THEN 0 ELSE 1)
        /\ u.planCFailures = t.planCFailures + (IF Told(u, TraceKinds, id) THEN 0 ELSE 1)
        /\ \A n \in Nat : IdsUpTo(t, n) /\ id <= n => IdsUpTo(u, n)
        /\ \A gone : PrintedBut(t, gone) => PrintedBut(u, gone)
    <3> HIDE DEF u
    <3>1. u = ReportLostMessage(t, ticks, id)
      BY DEF u
    <3>2. t \in LogState
      BY <1>7 DEF Attempted
    <3> QED BY <1>1, <2>1, <3>1, <3>2, LostMessageFacts
  <2> HIDE DEF u
  <2>3. /\ f \in LogState /\ f.pipe = u.pipe /\ f.printed = u.printed /\ f.closed = u.closed
        /\ f.events = u.events /\ f.lostRecently = u.lostRecently /\ f.lostTotally = u.lostTotally
        /\ f.toldTotal = u.toldTotal
        /\ f.planBFailures = u.planBFailures /\ f.planCFailures = u.planCFailures
        /\ f.lost = u.lost \cup {id}
        /\ f.noPrefix = IF Told(u, PrefixKinds, id) THEN u.noPrefix ELSE u.noPrefix \cup {id}
        /\ f.silent = IF Told(u, TraceKinds, id) THEN u.silent ELSE u.silent \cup {id}
    <3> HIDE DEF f
    <3>1. f = NoteLost(u, id)
      BY DEF f
    <3>2. Noted(u, f, id)
      BY <1>1, <2>2, <3>1, NoteLostFacts
    <3> QED BY <3>2 DEF Noted
  <2>4. log' = f
    BY <1>2, <1>11 DEF u
  <2> HIDE DEF f
  <2>5. /\ t.events = id /\ t.lost = log.lost /\ t.noPrefix = log.noPrefix /\ t.silent = log.silent
        /\ t.lostRecently = log.lostRecently /\ t.lostTotally = log.lostTotally
        /\ t.planBFailures = log.planBFailures /\ t.planCFailures = log.planCFailures
        /\ t.toldTotal = log.toldTotal
    BY <1>4, <1>7 DEF SameBooks, Attempted
  <2>6. /\ Cardinality(log.lost \cup {id}) = Cardinality(log.lost) + 1
        /\ Cardinality(log.noPrefix \cup {id}) = Cardinality(log.noPrefix) + 1
        /\ Cardinality(log.silent \cup {id}) = Cardinality(log.silent) + 1
    BY <1>1, <1>8, OneMoreId DEF id
  <2>7. f.lost = log.lost \cup {id} /\ f.events = id
    BY <2>2, <2>3, <2>5
  <2>8. log.lostRecently \in Nat /\ log.lostTotally \in Nat /\ log.planBFailures \in Nat /\ log.planCFailures \in Nat
    BY <1>1 DEF LogState
  <2>9. f.lostRecently + f.lostTotally = Cardinality(f.lost) /\ f.lostTotally = f.toldTotal
    <3>1. f.lostRecently = log.lostRecently + 1 /\ f.lostTotally = log.lostTotally /\ f.toldTotal = log.toldTotal
      BY <2>2, <2>3, <2>5
    <3>2. Cardinality(f.lost) = (log.lostRecently + log.lostTotally) + 1
      BY <2>6, <2>7, <1>8
    <3> QED BY <3>1, <3>2, <2>8, <1>8
  <2>10. f.planBFailures = Cardinality(f.noPrefix) /\ f.noPrefix \subseteq 1 .. id
    <3>1. CASE Told(u, PrefixKinds, id)
      BY <3>1, <2>2, <2>3, <2>5, <2>8, <1>8
    <3>2. CASE ~Told(u, PrefixKinds, id)
      <4>1. f.noPrefix = log.noPrefix \cup {id} /\ f.planBFailures = log.planBFailures + 1
        BY <3>2, <2>2, <2>3, <2>5
      <4> QED BY <4>1, <2>6, <1>1, <1>8
    <3> QED BY <3>1, <3>2
  <2>11. f.planCFailures = Cardinality(f.silent) /\ f.silent \subseteq 1 .. id
    <3>1. CASE Told(u, TraceKinds, id)
      BY <3>1, <2>2, <2>3, <2>5, <2>8, <1>8
    <3>2. CASE ~Told(u, TraceKinds, id)
      <4>1. f.silent = log.silent \cup {id} /\ f.planCFailures = log.planCFailures + 1
        BY <3>2, <2>2, <2>3, <2>5
      <4> QED BY <4>1, <2>6, <1>1, <1>8
    <3> QED BY <3>1, <3>2
  <2>12. f.lost \subseteq 1 .. id
    BY <2>7, <1>1, <1>8
  <2>13. Counted(f)
    BY <2>7, <2>9, <2>10, <2>11, <2>12 DEF Counted
  <2>14. Gone(f) = Gone(log)
    BY <2>7, <1>1, <1>8 DEF Gone, id
  <2>15. IdsUpTo(f, id) /\ PrintedBut(f, Gone(log))
    <3>1. IdsUpTo(u, id) /\ PrintedBut(u, Gone(log))
      BY <1>1, <1>5, <1>7, <1>9, <1>11, <2>2 DEF Attempted
    <3> QED BY <3>1, <2>3, SamePipe, Zenon
  <2>16. Balanced(f)
    BY <2>3, <2>7, <2>13, <2>14, <2>15 DEF Balanced
  <2> QED BY <2>4, <2>16
<1> QED BY <1>10, <1>11

\* The books are balanced at the start and after each step.
LEMMA LogStep == LogInv /\ [LogNext]_logVars => LogInv'
<1>1. ASSUME LogInv, NEW size \in EventSizes, NEW ticks, CollectEvent(size, ticks) PROVE LogInv'
  <2>1. Balanced(log')
    BY <1>1, CollectPreserves DEF LogInv
  <2> QED BY <2>1 DEF LogInv
<1>2. ASSUME LogInv, FlushOnTrap PROVE LogInv'
  <2> DEFINE u == log'
  <2>1. u = UserEvents(log) /\ log \in LogState
    BY <1>2 DEF LogInv, Balanced, FlushOnTrap
  <2> HIDE DEF u
  <2>2. /\ u \in LogState /\ SameBooks(log, u)
        /\ u.pipe \in {log.pipe, <<>>}
        /\ \A gone : PrintedBut(log, gone) => PrintedBut(u, gone)
    BY <2>1, UserEventsFacts
  <2>3. IdsUpTo(u, u.events) /\ Counted(u) /\ Gone(u) = Gone(log)
    BY <1>2, <2>2 DEF LogInv, Balanced, IdsUpTo, Counted, SameBooks, Gone
  <2>4. Balanced(u)
    BY <1>2, <2>2, <2>3 DEF LogInv, Balanced
  <2> QED BY <2>4 DEF LogInv, u
<1>3. ASSUME LogInv, WriteMalformed PROVE LogInv'
  <2> DEFINE u == log'
             m == Message("malformed", 0, MalformedSize, 0)
  <2>1. u = Record(log, m) /\ log \in LogState
    BY <1>3 DEF LogInv, Balanced, WriteMalformed, Record
  <2>2. m \in Messages /\ m.kind # "event" /\ m.id = 0
    BY LogAssumption DEF Message, Messages, LogKinds
  <2> HIDE DEF u, m
  <2>3. /\ u \in LogState /\ SameBooks(log, u)
        /\ \A n \in Nat : IdsUpTo(log, n) /\ m.id <= n => IdsUpTo(u, n)
        /\ \A gone : PrintedBut(log, gone) => PrintedBut(u, gone)
    <3>1. Recorded(log, u, m)
      BY <2>1, <2>2, RecordFacts
    <3> QED BY <2>2, <3>1 DEF Recorded
  <2>4. log.events \in Nat /\ m.id <= log.events
    BY <2>1, <2>2, LogAssumption DEF LogState
  <2>5. IdsUpTo(u, u.events) /\ Counted(u) /\ Gone(u) = Gone(log)
    BY <1>3, <2>3, <2>4 DEF LogInv, Balanced, Counted, SameBooks, Gone
  <2>6. Balanced(u)
    BY <1>3, <2>3, <2>5 DEF LogInv, Balanced
  <2> QED BY <2>6 DEF LogInv, u
<1>4. ASSUME LogInv, ClosePipe PROVE LogInv'
  <2> DEFINE u == log'
  <2>1. u = [log EXCEPT !.closed = TRUE] /\ log \in LogState
    BY <1>4 DEF LogInv, Balanced, ClosePipe
  <2> HIDE DEF u
  <2>2. /\ u \in LogState /\ u.closed = TRUE /\ u.pipe = log.pipe /\ u.events = log.events
        /\ u.lostRecently = log.lostRecently /\ u.lostTotally = log.lostTotally
        /\ u.planBFailures = log.planBFailures /\ u.planCFailures = log.planCFailures
        /\ u.lost = log.lost /\ u.noPrefix = log.noPrefix /\ u.silent = log.silent
        /\ u.toldTotal = log.toldTotal
    BY <2>1 DEF LogState
  <2>3. PrintedBut(u, Gone(u))
    BY <2>2 DEF PrintedBut, Spoiled
  <2>4. IdsUpTo(u, u.events) /\ Counted(u)
    BY <1>4, <2>2 DEF LogInv, Balanced, Counted, IdsUpTo
  <2>5. Balanced(u)
    BY <2>2, <2>3, <2>4 DEF Balanced
  <2> QED BY <2>5 DEF LogInv, u
<1>5. ASSUME LogInv, UNCHANGED logVars PROVE LogInv'
  BY <1>5 DEF LogInv, logVars
<1> QED BY <1>1, <1>2, <1>3, <1>4, <1>5 DEF LogNext

\* Before the first event there is nothing to count.
LEMMA LogInitially == LogInit => LogInv
<1>1. SUFFICES ASSUME LogInit PROVE Balanced(log)
  BY DEF LogInv
<1>2. MaxEvents \in Nat /\ Cardinality({}) = 0
  BY LogAssumption, FS_EmptySet
<1>3. /\ log.pipe = <<>> /\ log.closed = FALSE /\ log.lostRecently = 0 /\ log.lostTotally = 0
      /\ log.planBFailures = 0 /\ log.planCFailures = 0 /\ log.events = 0
      /\ log.printed = [id \in 1 .. MaxEvents |-> 0]
      /\ log.lost = {} /\ log.noPrefix = {} /\ log.silent = {} /\ log.toldTotal = 0
  BY <1>1 DEF LogInit
<1>4. log \in LogState
  <2>1. [id \in 1 .. MaxEvents |-> 0] \in [1 .. MaxEvents -> 0 .. 2]
    OBVIOUS
  <2>2. <<>> \in Seq(Messages)
    OBVIOUS
  <2> QED BY <1>1, <1>2, <2>1, <2>2 DEF LogInit, LogState
<1>5. Counted(log) /\ IdsUpTo(log, log.events)
  BY <1>2, <1>3 DEF Counted, IdsUpTo
<1>6. PrintedBut(log, Gone(log))
  <2>1. \A id \in 1 .. MaxEvents : id \in Gone(log) /\ log.printed[id] = 0 /\ Waiting(log, id) = {}
    BY <1>2, <1>3 DEF Gone, Waiting
  <2> QED BY <2>1 DEF PrintedBut
<1> QED BY <1>4, <1>5, <1>6 DEF Balanced

\* The inductive invariant of the user log.
THEOREM LogInvariance == LogSpec => []LogInv
<1> QED BY LogInitially, LogStep, PTL DEF LogSpec

\* The books of LogCollector balance, for pipes and messages of any size and any number of events:
\* an event is printed once, waits in the pipe or is counted as lost, and what is reported as
\* lost, or as lost without a trace, was.
THEOREM LogAlwaysAddsUp == LogSpec => []LogAddsUp
<1>1. ASSUME LogInv PROVE LogAddsUp
  <2>1. log \in LogState /\ Counted(log) /\ PrintedBut(log, Gone(log))
    BY <1>1 DEF LogInv, Balanced
  <2>2. LostEventsAreCounted /\ BackupPlansAreCounted
    BY <2>1 DEF Counted, LostEventsAreCounted, BackupPlansAreCounted
  <2>3. ASSUME ~log.closed, ~HasMalformed, NEW id \in 1 .. log.events
        PROVE  IF id \in log.lost THEN log.printed[id] = 0 /\ InPipe(id) = {}
               ELSE log.printed[id] + Cardinality(InPipe(id)) = 1
    <3>1. ~Spoiled(log)
      BY <2>3 DEF HasMalformed, Spoiled
    <3>2. log.events \in 0 .. MaxEvents
      BY <2>1 DEF LogState
    <3>3. id \in 1 .. MaxEvents /\ id \notin (log.events + 1 .. MaxEvents)
      BY <2>3, <3>2, LogAssumption
    <3>4. InPipe(id) = Waiting(log, id)
      BY DEF InPipe, Waiting
    <3>5. id \in Gone(log) <=> id \in log.lost
      BY <3>3 DEF Gone
    <3> QED BY <2>1, <3>1, <3>3, <3>4, <3>5 DEF PrintedBut
  <2> QED BY <2>2, <2>3 DEF EventsArePrintedOnce, LogAddsUp
<1> QED BY <1>1, LogInvariance, PTL
=============================================================================
