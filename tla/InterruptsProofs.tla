-------------------------- MODULE InterruptsProofs --------------------------
(***************************************************************************)
(* Proofs about exceptions and interrupts, for any number of CPUs, any     *)
(* exceptions that have a gate, any lines of the PIC and any nesting: the  *)
(* frames of the traps of a CPU lie on its own stacks, one above the       *)
(* other, and nobody writes into the frame of a trap that may return.      *)
(***************************************************************************)
EXTENDS Interrupts, FiniteSetTheorems, TLAPS

Words == [cpu : TrapCpus, level : Nat, what : {"context", "error", "number", "register", "none"}, i : Nat]
Pointers == [stack : StackNames, depth : Nat]
Running == {"kernel", "process", "current"}
TrapRecords ==
    [vector : Nat, stage : {"stub", "trampoline", "generic", "fatal", "restore", "handler"},
     mode : Running, irq : BOOLEAN, from : Pointers, number : Words, error : Words, context : Int]
CpuRecords ==
    [mode : Running \cup {"panicked", "yielded", "halted"}, irq : BOOLEAN, rsp : Pointers,
     traps : Seq(TrapRecords)]

FaultStack == <<0, "double fault">>
OwnStacks(c) == {<<c, "kernel">>, <<c, "page fault">>}

\* Where the processor has put the frame of a trap, and how many words it has by now.
FrameStart(c, t) ==
    IF Gate(t.vector).ist # "none" THEN IstStack(c, Gate(t.vector).ist)
    ELSE IF t.mode = "kernel" THEN t.from ELSE KernelStack(c)
FrameSize(t) ==
    CASE t.stage = "stub" -> IF t.vector \in HardwareErrorCodes THEN 6 ELSE 5
      [] t.stage = "handler" -> 5
      [] t.stage = "trampoline" -> 7
      [] OTHER -> 16

\* A trap from which the kernel does not return: what is under its frame does not matter.
Ends(t) == t.mode = "kernel" /\ t.stage # "handler" /\ IsFatal(t.vector)

\* No trap ends the kernel after the i-th and up to the j-th.
Returns(traps, i, j) == \A k \in i + 1 .. j : ~Ends(traps[k])

TrapOK(c, t) ==
    /\ t.stage # "handler" => t.vector \in Exceptions
    /\ t.stage = "handler" => t.vector \in PicBase .. PicBase + 15 /\ c = 0
    /\ t.stage = "restore" => ~Ends(t)
    /\ t.stage = "fatal" => t.vector = DoubleFault
    /\ FrameStart(c, t) \in Pointers /\ FrameStart(c, t).stack \in OwnStacks(c) \cup {FaultStack}

\* What a CPU without traps runs, and where.
AtRest(c, mode, rsp) ==
    \/ mode = "kernel" /\ rsp = KernelStack(c)
    \/ mode \in {"process", "current"} /\ rsp = StackTop(c, "user")

\* The traps of a CPU: each but the first interrupts the handler of the one before.
Nested(c, traps) ==
    /\ \A i \in 1 .. Len(traps) : TrapOK(c, traps[i])
    /\ Len(traps) > 0 => AtRest(c, traps[1].mode, traps[1].from)
    /\ \A i \in 1 .. Len(traps) - 1 :
          /\ traps[i].stage = "generic"
          /\ traps[i + 1].mode = "kernel" /\ ~traps[i + 1].irq
          /\ traps[i + 1].from = Down(FrameStart(c, traps[i]), 16)
    /\ \A i, j \in 1 .. Len(traps) : i < j /\ Returns(traps, i, j) =>
          /\ FrameStart(c, traps[j]).stack = FrameStart(c, traps[i]).stack
          /\ FrameStart(c, traps[j]).depth >= FrameStart(c, traps[i]).depth + 16

\* What a CPU executes: the handler of its last trap.
Executing(c, st) ==
    LET top == st.traps[Len(st.traps)] IN
    /\ Len(st.traps) = 0 => AtRest(c, st.mode, st.rsp)
    /\ Len(st.traps) > 0 =>
          /\ st.mode \in {"kernel", "panicked", "yielded", "halted"} /\ ~st.irq
          /\ st.mode # "kernel" => top.stage \in {"generic", "fatal"}
          /\ st.rsp = Down(FrameStart(c, top), FrameSize(top))

NoFault(traps) == \A i \in 1 .. Len(traps) : traps[i].vector # DoubleFault

\* The words of the frame of the i-th trap, as far as it has got.
FrameOK(c, i, t, s) ==
    LET b == FrameStart(c, t).depth
        code == IF t.vector \in HardwareErrorCodes THEN t.vector ELSE 0
    IN
    /\ Len(s) >= b + FrameSize(t)
    /\ \A n \in 1 .. 5 : s[b + n] = TrapWord(c, i, "context", n)
    /\ FrameSize(t) >= 6 => s[b + 6] = TrapWord(c, i, "error", code)
    /\ FrameSize(t) >= 7 => s[b + 7] = TrapWord(c, i, "number", t.vector)
    /\ FrameSize(t) = 16 =>
          /\ \A n \in 1 .. 9 : s[b + 7 + n] = TrapWord(c, i, "register", n)
          /\ t.number = TrapWord(c, i, "number", t.vector)
          /\ t.error = TrapWord(c, i, "error", code)
          /\ t.context = b + 5

FramesOK(c, traps, stk) ==
    NoFault(traps) => \A i \in 1 .. Len(traps) : Returns(traps, i, Len(traps)) =>
        FrameOK(c, i, traps[i], stk[FrameStart(c, traps[i]).stack])

CpuOK(c, st, stk) ==
    /\ st \in CpuRecords
    /\ Nested(c, st.traps)
    /\ Executing(c, st)
    /\ FramesOK(c, st.traps, stk)
    /\ st.rsp.depth <= Len(stk[st.rsp.stack])
    /\ NoFault(st.traps) =>
          \A i \in 1 .. Len(st.traps) : FrameStart(c, st.traps[i]).stack \in OwnStacks(c)

StacksOK(stk) == stk \in [StackNames -> Seq(Words)]

\* What a CPU may do to the stacks.
OnlyOwn(c, stk, stk2) ==
    /\ StacksOK(stk2)
    /\ \A s \in StackNames : s \notin OwnStacks(c) \cup {FaultStack} => stk2[s] = stk[s]
    /\ Len(stk2[FaultStack]) >= Len(stk[FaultStack])

FramesInv ==
    /\ StacksOK(stacks)
    /\ cpuState \in [TrapCpus -> CpuRecords]
    /\ \A c \in TrapCpus : CpuOK(c, cpuState[c], stacks)

\* The lock of the report of double faults is taken once.
Reports(st) == Len(st.traps) > 0 /\ st.traps[Len(st.traps)].vector = DoubleFault
               /\ (st.traps[Len(st.traps)].stage = "fatal" \/ st.mode = "panicked")
ReportInv ==
    /\ \A c \in TrapCpus : Reports(cpuState[c]) => stopAll # "free"
    /\ \A c, d \in TrapCpus : Reports(cpuState[c]) /\ Reports(cpuState[d]) => c = d

\* The interrupt that CPU 0 is handling is delivered and not counted yet.
PicInv ==
    /\ pic.aeoi = TRUE /\ pic.isr = {} /\ pic.base = <<PicBase, PicBase + 8>>
    /\ pic = [irr |-> pic.irr, isr |-> pic.isr, base |-> pic.base, aeoi |-> pic.aeoi, cascade |-> pic.cascade]
    /\ trapCounts \in [PicLines -> Nat] /\ acked \in [PicLines -> Nat]
    /\ \A l \in PicLines :
          acked[l] = trapCounts[l] + (IF StageIs(0, "handler") /\ Trap(0).vector = PicBase + l THEN 1 ELSE 0)

TrapInv == FramesInv /\ ReportInv /\ PicInv
-----------------------------------------------------------------------------
\* The stacks have names.
LEMMA StackNameFacts ==
    /\ FaultStack \in StackNames /\ 0 \in TrapCpus
    /\ \A c \in TrapCpus : OwnStacks(c) \subseteq StackNames /\ <<c, "user">> \in StackNames
    /\ \A c, d \in TrapCpus : c # d => OwnStacks(c) \cap (OwnStacks(d) \cup {FaultStack}) = {}
    /\ \A c \in TrapCpus : FaultStack \notin OwnStacks(c) /\ <<c, "user">> # FaultStack
    /\ \A c, d \in TrapCpus : <<c, "user">> \notin OwnStacks(d)
    /\ \A c \in TrapCpus : KernelStack(c) \in Pointers /\ StackTop(c, "user") \in Pointers
                           /\ KernelStack(c).stack \in OwnStacks(c) /\ KernelStack(c).depth = 0
                           /\ StackTop(c, "user").stack = <<c, "user">> /\ StackTop(c, "user").depth = 0
<1>1. 0 \in TrapCpus
  BY TrapConstants
<1>2. /\ FaultStack \in StackNames
      /\ \A c \in TrapCpus : OwnStacks(c) \subseteq StackNames /\ <<c, "user">> \in StackNames
  BY <1>1 DEF FaultStack, StackNames, OwnStacks
<1>3. /\ \A c, d \in TrapCpus : c # d => OwnStacks(c) \cap (OwnStacks(d) \cup {FaultStack}) = {}
      /\ \A c \in TrapCpus : FaultStack \notin OwnStacks(c) /\ <<c, "user">> # FaultStack
      /\ \A c, d \in TrapCpus : <<c, "user">> \notin OwnStacks(d)
  BY DEF FaultStack, OwnStacks
<1>4. \A c \in TrapCpus : KernelStack(c) \in Pointers /\ StackTop(c, "user") \in Pointers
                           /\ KernelStack(c).stack \in OwnStacks(c) /\ KernelStack(c).depth = 0
                           /\ StackTop(c, "user").stack = <<c, "user">> /\ StackTop(c, "user").depth = 0
  BY <1>2 DEF KernelStack, StackTop, Pointers, OwnStacks
<1> QED BY <1>1, <1>2, <1>3, <1>4

\* Of two naturals the greater.
LEMMA MaxOfTwo ==
    ASSUME NEW a \in Nat, NEW b \in Nat
    PROVE  Max({a, b}) = IF a <= b THEN b ELSE a
<1>1. \E x \in {a, b} : \A y \in {a, b} : x >= y
  OBVIOUS
<1>2. Max({a, b}) \in {a, b} /\ \A y \in {a, b} : Max({a, b}) >= y
  BY <1>1 DEF Max
<1> QED BY <1>2

\* Words that are written on top of a stack leave what is below.
LEMMA OverwriteFacts ==
    ASSUME NEW W, NEW s \in Seq(W), NEW words \in Seq(W), NEW depth \in Nat, depth <= Len(s),
           NEW r, r = Overwrite(s, depth, words)
    PROVE  /\ r \in Seq(W) /\ Len(r) \in Nat /\ Len(r) >= Len(s) /\ Len(r) >= depth + Len(words)
           /\ \A i \in 1 .. depth : r[i] = s[i]
           /\ \A n \in 1 .. Len(words) : r[depth + n] = words[n]
<1> DEFINE k == Max({Len(s), depth + Len(words)})
<1>1. Len(s) \in Nat /\ Len(words) \in Nat /\ depth + Len(words) \in Nat
  OBVIOUS
<1>2. k = IF Len(s) <= depth + Len(words) THEN depth + Len(words) ELSE Len(s)
  BY <1>1, MaxOfTwo
<1>3. k \in Nat /\ k >= Len(s) /\ k >= depth + Len(words)
  <2> HIDE DEF k
  <2> QED BY <1>1, <1>2
<1>4. r = [i \in 1 .. k |-> IF i \in depth + 1 .. depth + Len(words) THEN words[i - depth] ELSE s[i]]
  BY DEF Overwrite
<1>5. \A i \in 1 .. k : i \in depth + 1 .. depth + Len(words) \/ i \in 1 .. Len(s)
  <2> HIDE DEF k
  <2> QED BY <1>1, <1>2
<1> HIDE DEF k
<1>6. \A i \in depth + 1 .. depth + Len(words) : i - depth \in 1 .. Len(words)
  BY <1>1
<1>7. \A i \in 1 .. k : r[i] \in W
  <2>1. SUFFICES ASSUME NEW i \in 1 .. k PROVE r[i] \in W
    OBVIOUS
  <2>2. CASE i \in depth + 1 .. depth + Len(words)
    <3>1. r[i] = words[i - depth] /\ i - depth \in 1 .. Len(words)
      BY <1>4, <1>6, <2>2
    <3> QED BY <3>1
  <2>3. CASE i \notin depth + 1 .. depth + Len(words)
    <3>1. r[i] = s[i] /\ i \in 1 .. Len(s)
      BY <1>4, <1>5, <2>3
    <3> QED BY <3>1
  <2> QED BY <2>2, <2>3
<1>8. r \in [1 .. k -> W]
  BY <1>4, <1>7
<1>9. r \in Seq(W) /\ Len(r) = k
  BY <1>3, <1>8
<1>10. \A i \in 1 .. depth : r[i] = s[i]
  <2>1. SUFFICES ASSUME NEW i \in 1 .. depth PROVE r[i] = s[i]
    OBVIOUS
  <2>2. i \in 1 .. k /\ i \notin depth + 1 .. depth + Len(words)
    BY <1>1, <1>3
  <2> QED BY <1>4, <2>2
<1>11. \A n \in 1 .. Len(words) : r[depth + n] = words[n]
  <2>1. SUFFICES ASSUME NEW n \in 1 .. Len(words) PROVE r[depth + n] = words[n]
    OBVIOUS
  <2>2. depth + n \in 1 .. k /\ depth + n \in depth + 1 .. depth + Len(words) /\ (depth + n) - depth = n
    BY <1>1, <1>3
  <2> QED BY <1>4, <2>2
<1> QED BY <1>3, <1>9, <1>10, <1>11

\* The last element of a sequence removed.
LEMMA RemoveLast ==
    ASSUME NEW S, NEW q \in Seq(S), Len(q) > 0, NEW r, r = Front(q)
    PROVE  /\ r \in Seq(S) /\ Len(r) = Len(q) - 1
           /\ \A i \in 1 .. Len(q) - 1 : r[i] = q[i]
<1>1. r = SubSeq(q, 1, Len(q) - 1)
  BY DEF Front
<1>2. Len(q) \in Nat /\ Len(q) - 1 \in Nat /\ Len(q) - 1 <= Len(q) /\ \A i \in 1 .. Len(q) : q[i] \in S
  OBVIOUS
<1>3. r = [i \in 1 .. Len(q) - 1 |-> q[i]]
  BY <1>1, <1>2
<1>4. r \in [1 .. Len(q) - 1 -> S]
  BY <1>2, <1>3
<1> QED BY <1>2, <1>3, <1>4

ReplacesLast(q, x, r) == r = Append(Front(q), x)

\* The last element of a sequence replaced.
LEMMA ReplaceLast ==
    ASSUME NEW S, NEW q \in Seq(S), Len(q) > 0, NEW x \in S, NEW r, ReplacesLast(q, x, r)
    PROVE  /\ r \in Seq(S) /\ Len(r) = Len(q) /\ r[Len(q)] = x
           /\ \A i \in 1 .. Len(q) - 1 : r[i] = q[i]
<1>1. /\ Front(q) \in Seq(S) /\ Len(Front(q)) = Len(q) - 1
      /\ \A i \in 1 .. Len(q) - 1 : Front(q)[i] = q[i]
  BY RemoveLast
<1> QED BY <1>1 DEF ReplacesLast

\* One more word.
LEMMA OneMoreWord ==
    ASSUME NEW W, NEW q \in Seq(W), NEW e \in W
    PROVE  q \o <<e>> = Append(q, e)
OBVIOUS

\* A part of a sequence, word by word.
LEMMA SubSeqIs ==
    ASSUME NEW W, NEW s \in Seq(W), NEW a \in Nat, NEW k \in Nat, a + k <= Len(s),
           NEW w, w \in Seq(W), Len(w) = k, \A n \in 1 .. k : s[a + n] = w[n]
    PROVE  SubSeq(s, a + 1, a + k) = w
<1>1. SubSeq(s, a + 1, a + k) \in Seq(W) /\ Len(SubSeq(s, a + 1, a + k)) = k
  OBVIOUS
<1>2. \A n \in 1 .. k : SubSeq(s, a + 1, a + k)[n] = w[n]
  OBVIOUS
<1> QED BY <1>1, <1>2

\* A frame depends on the words that it has.
LEMMA FrameKept ==
    ASSUME NEW c, NEW i, NEW t, NEW s, NEW r, FrameOK(c, i, t, s),
           FrameStart(c, t).depth \in Nat,
           \A n \in 1 .. FrameStart(c, t).depth + FrameSize(t) : r[n] = s[n],
           Len(r) >= FrameStart(c, t).depth + FrameSize(t)
    PROVE  FrameOK(c, i, t, r)
<1> DEFINE b == FrameStart(c, t).depth
<1>1. FrameSize(t) \in {5, 6, 7, 16}
  BY DEF FrameSize
<1>2. \A n \in 1 .. 5 : b + n \in 1 .. b + FrameSize(t)
  BY SMTT(30), <1>1
<1>3. FrameSize(t) >= 6 => b + 6 \in 1 .. b + FrameSize(t)
  BY <1>1
<1>4. FrameSize(t) >= 7 => b + 7 \in 1 .. b + FrameSize(t)
  BY <1>1
<1>5. FrameSize(t) = 16 => \A n \in 1 .. 9 : b + 7 + n \in 1 .. b + FrameSize(t)
  BY <1>1
<1> QED BY <1>2, <1>3, <1>4, <1>5 DEF FrameOK

\* Where frames start: the stack of the gate, of the TSS, or the current one.
LEMMA StartFacts ==
    ASSUME NEW c \in TrapCpus, NEW t
    PROVE  /\ t.vector = DoubleFault => FrameStart(c, t).stack = FaultStack /\ FrameStart(c, t).depth = 0
           /\ t.vector = PageFault => FrameStart(c, t).stack = <<c, "page fault">> /\ FrameStart(c, t).depth = 0
           /\ t.vector \notin {DoubleFault, PageFault}
                => FrameStart(c, t) = IF t.mode = "kernel" THEN t.from ELSE KernelStack(c)
           /\ t.vector \in {DoubleFault, PageFault} => FrameStart(c, t) \in Pointers
           /\ (t.stage = "handler" => t.vector \in PicBase .. PicBase + 15) /\ t.mode = "kernel" /\ ~Ends(t)
                => FrameStart(c, t) = t.from
<1>1. t.vector = DoubleFault => FrameStart(c, t) = StackTop(0, "double fault")
  BY DEF FrameStart, Gate, IstStack, DoubleFault, PageFault
<1>2. t.vector = PageFault => FrameStart(c, t) = StackTop(c, "page fault")
  BY DEF FrameStart, Gate, IstStack, DoubleFault, PageFault
<1>3. t.vector \notin {DoubleFault, PageFault}
                => FrameStart(c, t) = IF t.mode = "kernel" THEN t.from ELSE KernelStack(c)
  BY DEF FrameStart, Gate
<1>4. (t.stage = "handler" => t.vector \in PicBase .. PicBase + 15) /\ t.mode = "kernel" /\ ~Ends(t)
                => t.vector \notin {DoubleFault, PageFault}
  BY DEF Ends, IsFatal, DoubleFault, PageFault, Breakpoint, Overflow, PicBase
<1>5. /\ StackTop(0, "double fault").stack = FaultStack /\ StackTop(0, "double fault").depth = 0
      /\ StackTop(c, "page fault").stack = <<c, "page fault">> /\ StackTop(c, "page fault").depth = 0
      /\ StackTop(0, "double fault") \in Pointers /\ StackTop(c, "page fault") \in Pointers
  BY StackNameFacts DEF StackTop, FaultStack, Pointers, OwnStacks
<1> QED BY <1>1, <1>2, <1>3, <1>4, <1>5

\* Moving a stack pointer.
LEMMA DownFacts ==
    ASSUME NEW p \in Pointers, NEW n \in Nat
    PROVE  Down(p, n) \in Pointers /\ Down(p, n).stack = p.stack /\ Down(p, n).depth = p.depth + n
BY DEF Down, Pointers

\* Pushing twice.
LEMMA DownTwice ==
    ASSUME NEW p \in Pointers, NEW m \in Nat, NEW n \in Nat
    PROVE  Down(Down(p, m), n) = Down(p, m + n)
<1>1. Down(p, m) = [stack |-> p.stack, depth |-> p.depth + m]
  BY DEF Down, Pointers
<1>2. Down(Down(p, m), n) = [stack |-> p.stack, depth |-> (p.depth + m) + n]
  <2>1. Down(p, m) \in Pointers /\ Down(p, m).stack = p.stack /\ Down(p, m).depth = p.depth + m
    BY DownFacts
  <2>2. \A q \in Pointers : Down(q, n) = [stack |-> q.stack, depth |-> q.depth + n]
    BY DEF Down, Pointers
  <2> QED BY <2>1, <2>2
<1>3. Down(p, m + n) = [stack |-> p.stack, depth |-> p.depth + (m + n)]
  BY DEF Down, Pointers
<1>4. p.depth \in Nat
  BY DEF Pointers
<1> QED BY <1>2, <1>3, <1>4

\* The size of a frame.
LEMMA SizeFacts ==
    ASSUME NEW t
    PROVE  /\ FrameSize(t) \in {5, 6, 7, 16} /\ FrameSize(t) \in Nat
           /\ t.stage \in {"generic", "fatal", "restore"} => FrameSize(t) = 16
           /\ t.stage = "handler" => FrameSize(t) = 5
           /\ t.stage = "trampoline" => FrameSize(t) = 7
           /\ t.stage = "stub" => FrameSize(t) = IF t.vector \in HardwareErrorCodes THEN 6 ELSE 5
<1>1. /\ FrameSize(t) \in {5, 6, 7, 16}
      /\ t.stage \in {"generic", "fatal", "restore"} => FrameSize(t) = 16
      /\ t.stage = "handler" => FrameSize(t) = 5
      /\ t.stage = "trampoline" => FrameSize(t) = 7
      /\ t.stage = "stub" => FrameSize(t) = IF t.vector \in HardwareErrorCodes THEN 6 ELSE 5
  BY DEF FrameSize
<1> QED BY <1>1

\* Where the stack pointer of a CPU may be.
LEMMA RspFacts ==
    ASSUME NEW c \in TrapCpus, NEW st, NEW stk, CpuOK(c, st, stk)
    PROVE  /\ st.rsp \in Pointers
           /\ st.rsp.stack \in OwnStacks(c) \cup {FaultStack, <<c, "user">>}
           /\ st.mode = "kernel" => st.rsp.stack \in OwnStacks(c) \cup {FaultStack}
           /\ st.mode = "kernel" /\ NoFault(st.traps) => st.rsp.stack \in OwnStacks(c)
           /\ Len(st.traps) \in Nat /\ st.traps \in Seq(TrapRecords)
           /\ \A i \in 1 .. Len(st.traps) : st.traps[i] \in TrapRecords /\ TrapOK(c, st.traps[i])
<1>1. st.rsp \in Pointers /\ st.traps \in Seq(TrapRecords)
  BY DEF CpuOK, CpuRecords
<1>2. Len(st.traps) \in Nat /\ \A i \in 1 .. Len(st.traps) : st.traps[i] \in TrapRecords
  BY <1>1
<1>3. \A i \in 1 .. Len(st.traps) : TrapOK(c, st.traps[i])
  BY DEF CpuOK, Nested
<1>4. CASE Len(st.traps) = 0
  <2>1. AtRest(c, st.mode, st.rsp)
    BY <1>4 DEF CpuOK, Executing
  <2> QED BY <1>1, <1>2, <1>3, <2>1, StackNameFacts DEF AtRest
<1>5. CASE Len(st.traps) > 0
  <2> DEFINE top == st.traps[Len(st.traps)]
  <2>1. st.rsp = Down(FrameStart(c, top), FrameSize(top))
    BY <1>5 DEF CpuOK, Executing
  <2>2. Len(st.traps) \in 1 .. Len(st.traps)
    BY <1>2, <1>5
  <2>3. FrameStart(c, top) \in Pointers /\ FrameStart(c, top).stack \in OwnStacks(c) \cup {FaultStack}
    BY <1>3, <2>2 DEF TrapOK
  <2>4. NoFault(st.traps) => FrameStart(c, top).stack \in OwnStacks(c)
    BY <2>2 DEF CpuOK
  <2> HIDE DEF top
  <2>5. st.rsp.stack = FrameStart(c, top).stack
    <3>1. FrameSize(top) \in Nat
      BY SizeFacts
    <3> QED BY <2>1, <2>3, <3>1, DownFacts
  <2> QED BY <1>1, <1>2, <1>3, <2>3, <2>4, <2>5
<1> QED BY <1>2, <1>4, <1>5

\* A step of a CPU does not disturb the others: they share no stack but that of double faults.
LEMMA OthersKeep ==
    ASSUME NEW c \in TrapCpus, NEW d \in TrapCpus, c # d, NEW st, NEW stk, NEW stk2,
           CpuOK(d, st, stk), OnlyOwn(c, stk, stk2), StacksOK(stk)
    PROVE  CpuOK(d, st, stk2)
<1>1. \A s \in OwnStacks(d) \cup {<<d, "user">>} : stk2[s] = stk[s]
  BY StackNameFacts DEF OnlyOwn
<1>2. st.rsp.depth <= Len(stk2[st.rsp.stack])
  <2>1. st.rsp.stack \in OwnStacks(d) \cup {FaultStack, <<d, "user">>} /\ st.rsp \in Pointers
    BY RspFacts
  <2>2. st.rsp.depth \in Nat
    BY <2>1 DEF Pointers
  <2>3. CASE st.rsp.stack = FaultStack
    <3>1. Len(stk2[FaultStack]) >= Len(stk[FaultStack]) /\ Len(stk2[FaultStack]) \in Nat /\ Len(stk[FaultStack]) \in Nat
      BY StackNameFacts DEF OnlyOwn, StacksOK
    <3>2. st.rsp.depth <= Len(stk[FaultStack])
      BY <2>3 DEF CpuOK
    <3> QED BY <2>2, <2>3, <3>1, <3>2
  <2>4. CASE st.rsp.stack # FaultStack
    BY <1>1, <2>1, <2>4 DEF CpuOK
  <2> QED BY <2>3, <2>4
<1>3. FramesOK(d, st.traps, stk2)
  <2>1. SUFFICES ASSUME NoFault(st.traps), NEW i \in 1 .. Len(st.traps), Returns(st.traps, i, Len(st.traps))
                 PROVE  FrameOK(d, i, st.traps[i], stk2[FrameStart(d, st.traps[i]).stack])
    BY DEF FramesOK
  <2>2. FrameOK(d, i, st.traps[i], stk[FrameStart(d, st.traps[i]).stack])
    BY <2>1 DEF CpuOK, FramesOK
  <2>3. FrameStart(d, st.traps[i]).stack \in OwnStacks(d)
    BY <2>1 DEF CpuOK
  <2> QED BY <1>1, <2>2, <2>3
<1> QED BY <1>2, <1>3 DEF CpuOK

Pushes(stk, p, words, stk2) == stk2 = [stk EXCEPT ![p.stack] = Overwrite(stk[p.stack], p.depth, words)]

\* Pushing words on a stack of the CPU.
LEMMA PushFacts ==
    ASSUME NEW c \in TrapCpus, NEW stk, StacksOK(stk), NEW p \in Pointers,
           p.stack \in OwnStacks(c) \cup {FaultStack}, p.depth <= Len(stk[p.stack]),
           NEW words \in Seq(Words),
           NEW stk2, Pushes(stk, p, words, stk2)
    PROVE  /\ OnlyOwn(c, stk, stk2)
           /\ Len(stk2[p.stack]) >= p.depth + Len(words)
           /\ \A n \in 1 .. p.depth : stk2[p.stack][n] = stk[p.stack][n]
           /\ \A n \in 1 .. Len(words) : stk2[p.stack][p.depth + n] = words[n]
<1> DEFINE r == Overwrite(stk[p.stack], p.depth, words)
<1>1. p.stack \in StackNames /\ p.depth \in Nat /\ stk[p.stack] \in Seq(Words)
  BY DEF Pointers, StacksOK
<1>2. /\ r \in Seq(Words) /\ Len(r) >= Len(stk[p.stack]) /\ Len(r) >= p.depth + Len(words)
      /\ \A i \in 1 .. p.depth : r[i] = stk[p.stack][i]
      /\ \A n \in 1 .. Len(words) : r[p.depth + n] = words[n]
  <2> HIDE DEF r
  <2>1. r = Overwrite(stk[p.stack], p.depth, words)
    BY DEF r
  <2> QED BY SMTT(30), <1>1, <2>1, OverwriteFacts
<1> HIDE DEF r
<1>3. stk2 = [stk EXCEPT ![p.stack] = r]
  BY DEF Pushes, r
<1>4. stk2[p.stack] = r /\ StacksOK(stk2) /\ \A s \in StackNames : s # p.stack => stk2[s] = stk[s]
  BY <1>1, <1>2, <1>3 DEF StacksOK
<1>5. Len(stk2[FaultStack]) >= Len(stk[FaultStack])
  <2>1. Len(stk[FaultStack]) \in Nat
    BY StackNameFacts DEF StacksOK
  <2>2. CASE p.stack = FaultStack
    BY <2>2, <1>2, <1>4
  <2>3. CASE p.stack # FaultStack
    BY <2>1, <2>3, <1>4, StackNameFacts
  <2> QED BY <2>2, <2>3
<1> QED BY <1>2, <1>4, <1>5 DEF OnlyOwn

\* The traps of a CPU, one more.
LEMMA NestedMore ==
    ASSUME NEW c \in TrapCpus, NEW traps \in Seq(TrapRecords), NEW t \in TrapRecords,
           Nested(c, traps), TrapOK(c, t),
           Len(traps) = 0 => AtRest(c, t.mode, t.from),
           Len(traps) > 0 => /\ traps[Len(traps)].stage = "generic"
                             /\ t.mode = "kernel" /\ ~t.irq
                             /\ t.from = Down(FrameStart(c, traps[Len(traps)]), 16),
           NEW more, more = Append(traps, t)
    PROVE  /\ Nested(c, more)
           /\ \A i \in 1 .. Len(traps) : Returns(more, i, Len(more)) =>
                 /\ Returns(traps, i, Len(traps))
                 /\ FrameStart(c, t).stack = FrameStart(c, traps[i]).stack
                 /\ FrameStart(c, t).depth >= FrameStart(c, traps[i]).depth + 16
<1> DEFINE L == Len(traps)
<1>1. /\ L \in Nat /\ Len(more) = L + 1 /\ more[L + 1] = t /\ more \in Seq(TrapRecords)
      /\ \A i \in 1 .. L : more[i] = traps[i]
  OBVIOUS
<1>2. \A i \in 1 .. L + 1 : TrapOK(c, more[i])
  <2>1. \A i \in 1 .. L : TrapOK(c, traps[i])
    BY DEF Nested
  <2> QED BY <1>1, <2>1
<1>3. AtRest(c, more[1].mode, more[1].from)
  <2>1. CASE L = 0
    BY <1>1, <2>1
  <2>2. CASE L > 0
    BY <1>1, <2>2 DEF Nested
  <2> QED BY <1>1, <2>1, <2>2
<1>4. \A i \in 1 .. L :
          /\ more[i].stage = "generic"
          /\ more[i + 1].mode = "kernel" /\ ~more[i + 1].irq
          /\ more[i + 1].from = Down(FrameStart(c, more[i]), 16)
  <2>1. SUFFICES ASSUME NEW i \in 1 .. L
                 PROVE  /\ more[i].stage = "generic"
                        /\ more[i + 1].mode = "kernel" /\ ~more[i + 1].irq
                        /\ more[i + 1].from = Down(FrameStart(c, more[i]), 16)
    OBVIOUS
  <2>2. CASE i = L
    BY <1>1, <2>2
  <2>3. CASE i # L
    <3>1. i \in 1 .. L - 1 /\ i + 1 \in 1 .. L
      BY <1>1, <2>3
    <3> QED BY <1>1, <3>1 DEF Nested
  <2> QED BY <2>2, <2>3
<1>5. \A i \in 1 .. L : Returns(more, i, L + 1) =>
                 /\ Returns(traps, i, L)
                 /\ FrameStart(c, t).stack = FrameStart(c, traps[i]).stack
                 /\ FrameStart(c, t).depth >= FrameStart(c, traps[i]).depth + 16
  <2>1. SUFFICES ASSUME NEW i \in 1 .. L, Returns(more, i, L + 1)
                 PROVE  /\ Returns(traps, i, L)
                        /\ FrameStart(c, t).stack = FrameStart(c, traps[i]).stack
                        /\ FrameStart(c, t).depth >= FrameStart(c, traps[i]).depth + 16
    OBVIOUS
  <2>2. ~Ends(t)
    <3>1. L + 1 \in i + 1 .. L + 1
      BY <1>1
    <3> QED BY <1>1, <2>1, <3>1 DEF Returns
  <2>3. Returns(traps, i, L)
    <3>1. \A k \in i + 1 .. L : k \in i + 1 .. L + 1 /\ k \in 1 .. L
      BY <1>1
    <3> QED BY <1>1, <2>1, <3>1 DEF Returns
  <2>4. t.mode = "kernel" /\ t.from = Down(FrameStart(c, traps[L]), 16) /\ L \in 1 .. L
    BY <1>1
  <2>5. FrameStart(c, t) = t.from
    BY <2>2, <2>4, StartFacts DEF TrapOK
  <2>6. \A k \in 1 .. L : FrameStart(c, traps[k]) \in Pointers /\ FrameStart(c, traps[k]).depth \in Nat
    BY DEF Nested, TrapOK, Pointers
  <2>7. /\ FrameStart(c, t).stack = FrameStart(c, traps[L]).stack
        /\ FrameStart(c, t).depth = FrameStart(c, traps[L]).depth + 16
    <3> DEFINE p == FrameStart(c, traps[L])
    <3>1. p \in Pointers /\ 16 \in Nat
      BY <2>4, <2>6
    <3>2. FrameStart(c, t) = Down(p, 16)
      BY <2>4, <2>5
    <3> HIDE DEF p
    <3>3. Down(p, 16).stack = p.stack /\ Down(p, 16).depth = p.depth + 16
      BY <3>1, DownFacts
    <3> QED BY <3>2, <3>3 DEF p
  <2>8. CASE i = L
    BY <2>3, <2>6, <2>7, <2>8
  <2>9. CASE i # L
    <3>1. i < L
      BY <1>1, <2>9
    <3>2. /\ FrameStart(c, traps[L]).stack = FrameStart(c, traps[i]).stack
          /\ FrameStart(c, traps[L]).depth >= FrameStart(c, traps[i]).depth + 16
      BY <2>3, <2>4, <3>1 DEF Nested
    <3> QED BY <2>3, <2>4, <2>6, <2>7, <3>2
  <2> QED BY <2>8, <2>9
<1>6. \A i, j \in 1 .. L + 1 : i < j /\ Returns(more, i, j) =>
          /\ FrameStart(c, more[j]).stack = FrameStart(c, more[i]).stack
          /\ FrameStart(c, more[j]).depth >= FrameStart(c, more[i]).depth + 16
  <2>1. SUFFICES ASSUME NEW i \in 1 .. L + 1, NEW j \in 1 .. L + 1, i < j, Returns(more, i, j)
                 PROVE  /\ FrameStart(c, more[j]).stack = FrameStart(c, more[i]).stack
                        /\ FrameStart(c, more[j]).depth >= FrameStart(c, more[i]).depth + 16
    OBVIOUS
  <2>2. i \in 1 .. L
    BY <1>1, <2>1
  <2>3. CASE j = L + 1
    BY <1>1, <1>5, <2>1, <2>2, <2>3
  <2>4. CASE j # L + 1
    <3>1. j \in 1 .. L
      BY <1>1, <2>4
    <3>2. Returns(traps, i, j)
      <4>1. \A k \in i + 1 .. j : k \in 1 .. L
        BY <1>1, <2>2, <3>1
      <4> QED BY <1>1, <2>1, <4>1 DEF Returns
    <3> QED BY <1>1, <2>1, <2>2, <3>1, <3>2 DEF Nested
  <2> QED BY <2>3, <2>4
<1>7. Nested(c, more)
  <2>1. Len(more) = L + 1 /\ Len(more) - 1 = L
    BY <1>1
  <2> HIDE DEF L
  <2> QED BY <1>2, <1>3, <1>4, <1>6, <2>1 DEF Nested
<1> QED BY <1>1, <1>5, <1>7

\* The processor delivers a vector: the trap, where its frame starts, and its words.
Delivers(c, v, stage, st, stk, t, p, words, st2, stk2) ==
    /\ t = [vector |-> v, stage |-> stage, mode |-> st.mode, irq |-> st.irq, from |-> st.rsp,
            number |-> NoWord, error |-> NoWord, context |-> 0]
    /\ p = FrameStart(c, t)
    /\ words = ContextOf(c, Len(st.traps) + 1) \o
                   (IF v \in HardwareErrorCodes THEN <<TrapWord(c, Len(st.traps) + 1, "error", v)>> ELSE <<>>)
    /\ Pushes(stk, p, words, stk2)
    /\ st2 = [mode |-> "kernel", irq |-> FALSE, rsp |-> Down(p, Len(words)), traps |-> Append(st.traps, t)]

\* What it may deliver.
Deliverable(c, v, stage) ==
    \/ stage = "stub" /\ v \in Exceptions
    \/ stage = "handler" /\ v \in PicBase .. PicBase + 15 /\ c = 0

\* A delivered vector leaves the traps that it interrupts as they are.
LEMMA DeliverKeeps ==
    ASSUME NEW c \in TrapCpus, NEW st, NEW stk, StacksOK(stk), CpuOK(c, st, stk),
           st.mode \in Running, Len(st.traps) > 0 => st.traps[Len(st.traps)].stage = "generic",
           NEW v, NEW stage, Deliverable(c, v, stage),
           NEW t, NEW p, NEW words, NEW st2, NEW stk2,
           Delivers(c, v, stage, st, stk, t, p, words, st2, stk2)
    PROVE  OnlyOwn(c, stk, stk2) /\ CpuOK(c, st2, stk2)
<1> DEFINE L == Len(st.traps)
           more == Append(st.traps, t)
<1>1. /\ st.rsp \in Pointers /\ L \in Nat /\ st.traps \in Seq(TrapRecords)
      /\ st.mode = "kernel" => st.rsp.stack \in OwnStacks(c) \cup {FaultStack}
      /\ st.mode = "kernel" /\ NoFault(st.traps) => st.rsp.stack \in OwnStacks(c)
      /\ \A i \in 1 .. Len(st.traps) : st.traps[i] \in TrapRecords /\ TrapOK(c, st.traps[i])
  BY RspFacts
<1>2. v \in Nat
  <2>1. WithErrorCode \subseteq Nat /\ WithoutErrorCode \subseteq Nat
    BY DEF WithErrorCode, WithoutErrorCode, DoubleFault, PageFault, Breakpoint, Overflow
  <2>2. \A x \in Exceptions : x \in Nat
    BY <2>1, ExceptionsAssumption
  <2>3. \A x \in PicBase .. PicBase + 15 : x \in Nat
    BY DEF PicBase
  <2> QED BY <2>2, <2>3 DEF Deliverable
<1>3. t \in TrapRecords
  <2>1. NoWord \in Words
    BY StackNameFacts DEF NoWord, TrapWord, Words
  <2>2. st.irq \in BOOLEAN
    BY DEF CpuOK, CpuRecords
  <2>3. stage \in {"stub", "handler"}
    BY DEF Deliverable
  <2> QED BY <1>1, <1>2, <2>1, <2>2, <2>3 DEF Delivers, TrapRecords
<1>4. t.vector = v /\ t.stage = stage /\ t.mode = st.mode /\ t.irq = st.irq /\ t.from = st.rsp
  BY DEF Delivers
<1>0. p = FrameStart(c, t)
  BY DEF Delivers
<1>5. /\ p \in Pointers /\ p.stack \in OwnStacks(c) \cup {FaultStack}
      /\ NoFault(st.traps) /\ v # DoubleFault => p.stack \in OwnStacks(c)
  <2>1. CASE v = DoubleFault
    BY <1>0, <1>4, <2>1, StartFacts
  <2>2. CASE v = PageFault
    <3>1. <<c, "page fault">> \in OwnStacks(c)
      BY DEF OwnStacks
    <3> QED BY <1>0, <1>4, <2>2, <3>1, StartFacts
  <2>3. CASE v \notin {DoubleFault, PageFault} /\ st.mode = "kernel"
    BY <1>0, <1>1, <1>4, <2>3, StartFacts
  <2>4. CASE v \notin {DoubleFault, PageFault} /\ st.mode # "kernel"
    <3>1. p = KernelStack(c)
      BY <1>0, <1>4, <2>4, StartFacts
    <3> QED BY <2>4, <3>1, StackNameFacts
  <2> QED BY <2>1, <2>2, <2>3, <2>4
<1>6. p.depth \in Nat /\ p.depth <= Len(stk[p.stack])
  <2>1. p.depth \in Nat /\ Len(stk[p.stack]) \in Nat
    BY <1>5 DEF Pointers, StacksOK
  <2>2. p = st.rsp \/ p.depth = 0
    BY ZenonT(30), <1>0, <1>4, StartFacts, StackNameFacts
  <2>3. st.rsp.depth <= Len(stk[st.rsp.stack])
    BY DEF CpuOK
  <2> QED BY <2>1, <2>2, <2>3
<1>7. TrapOK(c, t)
  <2>1. stage \in {"stub", "handler"} /\ (stage = "stub" => v \in Exceptions)
    BY DEF Deliverable
  <2>2. stage = "handler" => v \in PicBase .. PicBase + 15 /\ c = 0
    BY DEF Deliverable
  <2> QED BY <1>0, <1>4, <1>5, <2>1, <2>2 DEF TrapOK
<1>8. FrameSize(t) = IF v \in HardwareErrorCodes THEN 6 ELSE 5
  <2>1. stage = "handler" => v \notin HardwareErrorCodes
    BY DEF Deliverable, HardwareErrorCodes, PicBase
  <2>2. stage \in {"stub", "handler"}
    BY DEF Deliverable
  <2> QED BY <1>4, <2>1, <2>2, SizeFacts
<1>9. /\ words \in Seq(Words) /\ Len(words) = FrameSize(t)
      /\ \A n \in 1 .. 5 : words[n] = TrapWord(c, L + 1, "context", n)
      /\ v \in HardwareErrorCodes => words[6] = TrapWord(c, L + 1, "error", v)
  <2>1. TrapWord(c, L + 1, "error", v) \in Words /\ \A n \in 1 .. 5 : TrapWord(c, L + 1, "context", n) \in Words
    BY <1>1, <1>2 DEF TrapWord, Words
  <2> DEFINE q == ContextOf(c, L + 1)
             e == TrapWord(c, L + 1, "error", v)
  <2>2. q \in Seq(Words) /\ Len(q) = 5 /\ \A n \in 1 .. 5 : q[n] = TrapWord(c, L + 1, "context", n)
    BY <2>1 DEF ContextOf
  <2>3. words = q \o (IF v \in HardwareErrorCodes THEN <<e>> ELSE <<>>)
    BY DEF Delivers
  <2>4. e \in Words
    BY <2>1
  <2> HIDE DEF q, e
  <2>5. CASE v \in HardwareErrorCodes
    <3>1. words = q \o <<e>>
      BY <2>3, <2>4, <2>5
    <3>2. words \in Seq(Words) /\ Len(words) = 6 /\ words[6] = e /\ \A n \in 1 .. 5 : words[n] = q[n]
      <4>1. /\ words \in Seq(Words) /\ Len(words) = Len(q) + 1 /\ words[Len(q) + 1] = e
            /\ \A n \in 1 .. Len(q) : words[n] = q[n]
        <5>1. q \in Seq(Words)
          BY <2>2
        <5>2. words = Append(q, e)
          BY <2>4, <3>1, <5>1, OneMoreWord
        <5> QED BY <2>4, <5>1, <5>2
      <4> QED BY <2>2, <4>1
    <3> QED BY <1>8, <2>2, <2>5, <3>2 DEF e
  <2>6. CASE v \notin HardwareErrorCodes
    <3>1. words = q
      BY <2>2, <2>3, <2>6
    <3> QED BY <1>8, <2>2, <2>6, <3>1
  <2> QED BY <2>5, <2>6
<1>10. /\ OnlyOwn(c, stk, stk2)
       /\ Len(stk2[p.stack]) >= p.depth + Len(words)
       /\ \A n \in 1 .. p.depth : stk2[p.stack][n] = stk[p.stack][n]
       /\ \A n \in 1 .. Len(words) : stk2[p.stack][p.depth + n] = words[n]
  <2>1. Pushes(stk, p, words, stk2)
    BY DEF Delivers
  <2>2. p.stack \in OwnStacks(c) \cup {FaultStack}
    BY <1>5
  <2>3. p.depth <= Len(stk[p.stack])
    BY <1>6
  <2>4. words \in Seq(Words)
    BY <1>9
  <2>5. p \in Pointers
    BY <1>5
  <2> QED BY <2>1, <2>2, <2>3, <2>4, <2>5, PushFacts
<1>11. /\ L = 0 => AtRest(c, t.mode, t.from)
       /\ L > 0 => /\ st.traps[L].stage = "generic"
                   /\ t.mode = "kernel" /\ ~t.irq
                   /\ t.from = Down(FrameStart(c, st.traps[L]), 16)
  <2>1. L > 0 => FrameSize(st.traps[L]) = 16
    BY SizeFacts
  <2> QED BY <1>4, <2>1 DEF CpuOK, Executing, Running
<1>12. /\ Nested(c, more)
       /\ \A i \in 1 .. L : Returns(more, i, Len(more)) =>
                 /\ Returns(st.traps, i, L)
                 /\ p.stack = FrameStart(c, st.traps[i]).stack
                 /\ p.depth >= FrameStart(c, st.traps[i]).depth + 16
  <2>1. Nested(c, st.traps)
    BY DEF CpuOK
  <2> HIDE DEF more
  <2>2. more = Append(st.traps, t)
    BY DEF more
  <2> QED BY <1>0, <1>1, <1>3, <1>7, <1>11, <2>1, <2>2, NestedMore
<1>13. /\ Len(more) = L + 1 /\ more[L + 1] = t /\ more \in Seq(TrapRecords)
       /\ \A i \in 1 .. L : more[i] = st.traps[i]
  BY <1>1, <1>3
<1>14. /\ Down(p, Len(words)) \in Pointers
       /\ Down(p, Len(words)).stack = p.stack /\ Down(p, Len(words)).depth = p.depth + Len(words)
  <2>1. Len(words) \in Nat
    BY <1>9
  <2> QED BY <1>5, <2>1, DownFacts
<1>15. NoFault(more) => NoFault(st.traps) /\ v # DoubleFault
  <2>1. \A i \in 1 .. L : i \in 1 .. L + 1 /\ more[i] = st.traps[i]
    BY <1>1, <1>13
  <2>2. L + 1 \in 1 .. L + 1
    BY <1>1
  <2> QED BY <1>4, <1>13, <2>1, <2>2 DEF NoFault
<1> HIDE DEF more, L
<1>16. FramesOK(c, more, stk2)
  <2>1. SUFFICES ASSUME NoFault(more), NEW i \in 1 .. Len(more), Returns(more, i, Len(more))
                 PROVE  FrameOK(c, i, more[i], stk2[FrameStart(c, more[i]).stack])
    BY DEF FramesOK
  <2>2. CASE i \in 1 .. L
    <3>1. /\ Returns(st.traps, i, L) /\ p.stack = FrameStart(c, st.traps[i]).stack
          /\ p.depth >= FrameStart(c, st.traps[i]).depth + 16
      BY <1>12, <2>1, <2>2
    <3>2. FrameOK(c, i, st.traps[i], stk[p.stack])
      BY <1>15, <2>1, <2>2, <3>1 DEF CpuOK, FramesOK, L
    <3>3. FrameStart(c, st.traps[i]).depth \in Nat
      BY <1>1, <2>2 DEF L, TrapOK, Pointers
    <3>4. FrameSize(st.traps[i]) \in {5, 6, 7, 16}
      BY SizeFacts
    <3>5. \A n \in 1 .. FrameStart(c, st.traps[i]).depth + FrameSize(st.traps[i]) : n \in 1 .. p.depth
      BY <1>6, <3>1, <3>3, <3>4
    <3>6. \A n \in 1 .. FrameStart(c, st.traps[i]).depth + FrameSize(st.traps[i]) :
             stk2[p.stack][n] = stk[p.stack][n]
      BY <1>10, <3>5
    <3>7. Len(stk2[p.stack]) >= FrameStart(c, st.traps[i]).depth + FrameSize(st.traps[i])
      <4>1. Len(stk2[p.stack]) \in Nat
        BY <1>5, <1>10 DEF Pointers, OnlyOwn, StacksOK
      <4>2. Len(words) \in Nat
        BY <1>9
      <4>3. Len(stk2[p.stack]) >= p.depth
        BY <1>6, <1>10, <4>1, <4>2
      <4>4. p.depth >= FrameStart(c, st.traps[i]).depth + FrameSize(st.traps[i])
        BY <1>6, <3>1, <3>3, <3>4
      <4>5. FrameSize(st.traps[i]) \in Nat
        BY <3>4
      <4> QED BY <1>6, <3>3, <4>1, <4>3, <4>4, <4>5
    <3>8. FrameOK(c, i, st.traps[i], stk2[p.stack])
      BY <3>2, <3>3, <3>6, <3>7, FrameKept
    <3> QED BY <1>13, <2>2, <3>1, <3>8
  <2>3. CASE i = L + 1
    <3>1. more[i] = t /\ FrameStart(c, more[i]) = p
      BY <1>0, <1>13, <2>3
    <3>2. \A n \in 1 .. 5 : stk2[p.stack][p.depth + n] = TrapWord(c, i, "context", n)
      BY <1>8, <1>9, <1>10, <2>3 DEF L
    <3>3. FrameSize(t) >= 6 => v \in HardwareErrorCodes /\ stk2[p.stack][p.depth + 6] = TrapWord(c, i, "error", v)
      BY <1>8, <1>9, <1>10, <2>3 DEF L
    <3>4. ~(FrameSize(t) >= 7) /\ FrameSize(t) # 16
      BY <1>8
    <3>5. FrameOK(c, i, t, stk2[p.stack])
      BY <1>0, <1>4, <1>9, <1>10, <3>2, <3>3, <3>4 DEF FrameOK
    <3> QED BY <3>1, <3>5
  <2> QED BY <1>1, <1>13, <2>2, <2>3
<1>17. NoFault(more) => \A i \in 1 .. Len(more) : FrameStart(c, more[i]).stack \in OwnStacks(c)
  <2>1. SUFFICES ASSUME NoFault(more), NEW i \in 1 .. Len(more) PROVE FrameStart(c, more[i]).stack \in OwnStacks(c)
    OBVIOUS
  <2>2. CASE i \in 1 .. L
    BY <1>13, <1>15, <2>1, <2>2 DEF CpuOK, L
  <2>3. CASE i = L + 1
    BY <1>0, <1>5, <1>13, <1>15, <2>1, <2>3
  <2> QED BY <1>1, <1>13, <2>2, <2>3
<1>18. st2.mode = "kernel" /\ ~st2.irq /\ st2.rsp = Down(p, Len(words)) /\ st2.traps = more
  BY DEF Delivers, more
<1>19. st2 \in CpuRecords
  <2>1. st2 = [mode |-> "kernel", irq |-> FALSE, rsp |-> Down(p, Len(words)), traps |-> more]
    BY DEF Delivers, more
  <2> QED BY <1>13, <1>14, <2>1 DEF CpuRecords, Running
<1>20. Executing(c, st2)
  <2>1. Len(st2.traps) > 0 /\ st2.traps[Len(st2.traps)] = t
    BY <1>1, <1>13, <1>18
  <2> QED BY <1>0, <1>9, <1>18, <2>1 DEF Executing
<1>21. st2.rsp.depth <= Len(stk2[st2.rsp.stack])
  BY <1>6, <1>9, <1>10, <1>14, <1>18
<1> QED BY <1>10, <1>12, <1>16, <1>17, <1>18, <1>19, <1>20, <1>21 DEF CpuOK

\* A stack as it was, up to a pointer.
SameUpTo(p, stk, stk2) ==
    Len(stk2[p.stack]) >= p.depth /\ \A n \in 1 .. p.depth : stk2[p.stack][n] = stk[p.stack][n]

\* The frames under that of the last trap are kept as long as the stack is up to there.
LEMMA LowerFramesKept ==
    ASSUME NEW c \in TrapCpus, NEW traps \in Seq(TrapRecords), Nested(c, traps), Len(traps) > 0,
           NEW stk, NEW stk2, StacksOK(stk), StacksOK(stk2), FramesOK(c, traps, stk), NoFault(traps),
           SameUpTo(FrameStart(c, traps[Len(traps)]), stk, stk2),
           NEW i \in 1 .. Len(traps) - 1, Returns(traps, i, Len(traps))
    PROVE  FrameOK(c, i, traps[i], stk2[FrameStart(c, traps[i]).stack])
<1> DEFINE L == Len(traps)
           p == FrameStart(c, traps[L])
           b == FrameStart(c, traps[i])
<1>0. Len(stk2[p.stack]) >= p.depth /\ \A n \in 1 .. p.depth : stk2[p.stack][n] = stk[p.stack][n]
  BY DEF SameUpTo
<1>1. L \in Nat /\ i \in 1 .. L /\ L \in 1 .. L /\ i < L
  OBVIOUS
<1>2. b.stack = p.stack /\ p.depth >= b.depth + 16
  BY <1>1 DEF Nested
<1>3. /\ b \in Pointers /\ p \in Pointers
  BY <1>1 DEF Nested, TrapOK
<1>4. b.depth \in Nat /\ p.depth \in Nat /\ Len(stk2[p.stack]) \in Nat
  BY <1>3 DEF Pointers, StacksOK
<1>5. FrameOK(c, i, traps[i], stk[b.stack])
  BY <1>1 DEF FramesOK
<1>6. FrameSize(traps[i]) \in {5, 6, 7, 16}
  BY SizeFacts
<1>7. \A n \in 1 .. b.depth + FrameSize(traps[i]) : n \in 1 .. p.depth
  BY <1>2, <1>4, <1>6
<1>8. Len(stk2[p.stack]) >= b.depth + FrameSize(traps[i])
  <2>1. p.depth >= b.depth + FrameSize(traps[i]) /\ FrameSize(traps[i]) \in Nat
    BY SMTT(30), <1>2, <1>4, <1>6
  <2> HIDE DEF b, p
  <2> QED BY <1>0, <1>4, <2>1
<1>9. \A n \in 1 .. b.depth + FrameSize(traps[i]) : stk2[b.stack][n] = stk[b.stack][n]
  BY <1>0, <1>2, <1>7
<1> QED BY <1>2, <1>4, <1>5, <1>8, <1>9, FrameKept

\* The same trap, further on.
Continues(t, t2) ==
    /\ t.stage # "handler" /\ t2.stage # "handler"
    /\ t2.vector = t.vector /\ t2.mode = t.mode /\ t2.irq = t.irq /\ t2.from = t.from

SameFrames(c, traps, on) ==
    /\ \A i \in 1 .. Len(traps) : /\ FrameStart(c, on[i]) = FrameStart(c, traps[i])
                                  /\ on[i].vector = traps[i].vector
    /\ \A i, j \in 1 .. Len(traps) : Returns(on, i, j) = Returns(traps, i, j)

\* The last of the nested traps goes on.
LEMMA NestedOn ==
    ASSUME NEW c \in TrapCpus, NEW traps \in Seq(TrapRecords), Nested(c, traps), Len(traps) > 0,
           NEW t2 \in TrapRecords, Continues(traps[Len(traps)], t2), TrapOK(c, t2),
           NEW on, ReplacesLast(traps, t2, on)
    PROVE  /\ on \in Seq(TrapRecords) /\ Len(on) = Len(traps) /\ on[Len(traps)] = t2
           /\ \A i \in 1 .. Len(traps) - 1 : on[i] = traps[i]
           /\ SameFrames(c, traps, on)
           /\ Nested(c, on)
<1> DEFINE L == Len(traps)
<1>1. /\ L \in Nat /\ L \in 1 .. L /\ on \in Seq(TrapRecords) /\ Len(on) = L /\ on[L] = t2
      /\ \A i \in 1 .. L - 1 : on[i] = traps[i]
  <2>1. L \in Nat /\ L \in 1 .. L
    OBVIOUS
  <2>2. /\ on \in Seq(TrapRecords) /\ Len(on) = L /\ on[L] = t2
        /\ \A i \in 1 .. L - 1 : on[i] = traps[i]
    BY ReplaceLast
  <2> QED BY <2>1, <2>2
<1>2. \A i \in 1 .. L : i = L \/ i \in 1 .. L - 1
  BY <1>1
<1>3. \A i \in 1 .. L : /\ FrameStart(c, on[i]) = FrameStart(c, traps[i])
                        /\ Ends(on[i]) = Ends(traps[i])
                        /\ on[i].vector = traps[i].vector
                        /\ on[i].mode = traps[i].mode /\ on[i].irq = traps[i].irq /\ on[i].from = traps[i].from
  <2>1. FrameStart(c, t2) = FrameStart(c, traps[L]) /\ Ends(t2) = Ends(traps[L])
    BY DEF Continues, FrameStart, Ends
  <2> QED BY <1>1, <1>2, <2>1 DEF Continues
<1>4. \A i, j \in 1 .. L : Returns(on, i, j) = Returns(traps, i, j)
  <2>1. SUFFICES ASSUME NEW i \in 1 .. L, NEW j \in 1 .. L PROVE Returns(on, i, j) = Returns(traps, i, j)
    OBVIOUS
  <2>2. \A k \in i + 1 .. j : k \in 1 .. L
    BY <1>1
  <2> QED BY <1>3, <2>2 DEF Returns
<1>5. \A i \in 1 .. L : TrapOK(c, on[i])
  BY <1>1, <1>2 DEF Nested
<1>6. AtRest(c, on[1].mode, on[1].from)
  <2>1. 1 \in 1 .. L
    BY <1>1
  <2> QED BY <1>3, <2>1 DEF Nested
<1>7. \A i \in 1 .. L - 1 :
          /\ on[i].stage = "generic"
          /\ on[i + 1].mode = "kernel" /\ ~on[i + 1].irq
          /\ on[i + 1].from = Down(FrameStart(c, on[i]), 16)
  <2>1. \A i \in 1 .. L - 1 : i \in 1 .. L /\ i + 1 \in 1 .. L
    BY <1>1
  <2> QED BY <1>1, <1>3, <2>1 DEF Nested
<1>8. \A i, j \in 1 .. L : i < j /\ Returns(on, i, j) =>
          /\ FrameStart(c, on[j]).stack = FrameStart(c, on[i]).stack
          /\ FrameStart(c, on[j]).depth >= FrameStart(c, on[i]).depth + 16
  BY <1>3, <1>4 DEF Nested
<1> HIDE DEF L
<1>9. Nested(c, on)
  BY <1>1, <1>5, <1>6, <1>7, <1>8 DEF Nested
<1> QED BY <1>1, <1>3, <1>4, <1>9 DEF L, SameFrames

\* A CPU whose last trap goes on.
Goes(c, st, t2, st2) ==
    /\ st2 = [st EXCEPT !.rsp = Down(FrameStart(c, t2), FrameSize(t2)), !.traps = Append(Front(st.traps), t2)]
    /\ Continues(st.traps[Len(st.traps)], t2)
    /\ TrapOK(c, t2)
    /\ st.mode # "kernel" => t2.stage \in {"generic", "fatal"}

\* The last trap goes on and the others wait.
LEMMA TopChanged ==
    ASSUME NEW c \in TrapCpus, NEW st, NEW stk, StacksOK(stk), CpuOK(c, st, stk), Len(st.traps) > 0,
           NEW t2 \in TrapRecords, NEW st2, Goes(c, st, t2, st2),
           NEW stk2, StacksOK(stk2), NEW p, p = FrameStart(c, t2),
           \A n \in 1 .. p.depth : stk2[p.stack][n] = stk[p.stack][n],
           Len(stk2[p.stack]) >= p.depth + FrameSize(t2),
           NoFault(st.traps) => FrameOK(c, Len(st.traps), t2, stk2[p.stack])
    PROVE  CpuOK(c, st2, stk2)
<1> DEFINE L == Len(st.traps)
           on == Append(Front(st.traps), t2)
<1>1. st.traps \in Seq(TrapRecords) /\ Nested(c, st.traps) /\ FramesOK(c, st.traps, stk) /\ L \in Nat
  BY RspFacts DEF CpuOK
<1>2. Continues(st.traps[L], t2) /\ TrapOK(c, t2)
  BY DEF Goes
<1>3. /\ on \in Seq(TrapRecords) /\ Len(on) = L /\ on[L] = t2
      /\ \A i \in 1 .. L - 1 : on[i] = st.traps[i]
      /\ \A i \in 1 .. L : /\ FrameStart(c, on[i]) = FrameStart(c, st.traps[i])
                           /\ on[i].vector = st.traps[i].vector
      /\ Nested(c, on)
      /\ \A i, j \in 1 .. L : Returns(on, i, j) = Returns(st.traps, i, j)
  <2> HIDE DEF on
  <2>1. ReplacesLast(st.traps, t2, on)
    BY DEF ReplacesLast, on
  <2>2. /\ on \in Seq(TrapRecords) /\ Len(on) = Len(st.traps) /\ on[Len(st.traps)] = t2
        /\ \A i \in 1 .. Len(st.traps) - 1 : on[i] = st.traps[i]
        /\ SameFrames(c, st.traps, on)
        /\ Nested(c, on)
    BY <1>1, <1>2, <2>1, NestedOn
  <2> QED BY <2>2 DEF SameFrames
<1>4. NoFault(on) = NoFault(st.traps)
  BY <1>3 DEF NoFault
<1> HIDE DEF on
<1>5. st2 = [st EXCEPT !.rsp = Down(p, FrameSize(t2)), !.traps = on] /\ st \in CpuRecords
  BY DEF Goes, on, CpuOK
<1>6. p \in Pointers /\ FrameSize(t2) \in Nat
  BY <1>2, SizeFacts DEF TrapOK
<1>7. /\ Down(p, FrameSize(t2)) \in Pointers /\ Down(p, FrameSize(t2)).stack = p.stack
      /\ Down(p, FrameSize(t2)).depth = p.depth + FrameSize(t2)
  BY <1>6, DownFacts
<1>8. /\ st2 \in CpuRecords
      /\ st2.mode = st.mode /\ st2.irq = st.irq /\ st2.rsp = Down(p, FrameSize(t2)) /\ st2.traps = on
  BY <1>3, <1>5, <1>7 DEF CpuRecords
<1>9. Executing(c, st2)
  <2>1. st.mode \in {"kernel", "panicked", "yielded", "halted"} /\ ~st.irq
    BY DEF CpuOK, Executing
  <2>2. st.mode # "kernel" => t2.stage \in {"generic", "fatal"}
    BY DEF Goes
  <2> QED BY <1>3, <1>8, <2>1, <2>2 DEF Executing
<1>10. FramesOK(c, on, stk2)
  <2>1. SUFFICES ASSUME NoFault(on), NEW i \in 1 .. L, Returns(on, i, L)
                 PROVE  FrameOK(c, i, on[i], stk2[FrameStart(c, on[i]).stack])
    BY <1>3 DEF FramesOK
  <2>2. L \in 1 .. L /\ Returns(st.traps, i, L)
    BY <1>1, <1>3, <2>1
  <2>3. CASE i = L
    BY <1>3, <1>4, <2>1, <2>3
  <2>4. CASE i # L
    <3>1. i \in 1 .. L - 1
      BY <1>1, <2>4
    <3>2. p = FrameStart(c, st.traps[L])
      BY <1>3, <2>2
    <3>3. Len(stk2[p.stack]) >= p.depth
      <4>1. Len(stk2[p.stack]) \in Nat /\ p.depth \in Nat
        BY <1>6 DEF Pointers, StacksOK
      <4> QED BY <1>6, <4>1
    <3>5. SameUpTo(FrameStart(c, st.traps[Len(st.traps)]), stk, stk2)
      BY <3>2, <3>3 DEF SameUpTo
    <3>4. FrameOK(c, i, st.traps[i], stk2[FrameStart(c, st.traps[i]).stack])
      BY <1>1, <1>4, <2>1, <2>2, <3>1, <3>5, LowerFramesKept
    <3> QED BY <1>3, <3>1, <3>4
  <2> QED BY <2>3, <2>4
<1>11. NoFault(on) => \A i \in 1 .. Len(on) : FrameStart(c, on[i]).stack \in OwnStacks(c)
  BY <1>3, <1>4 DEF CpuOK
<1> QED BY <1>3, <1>7, <1>8, <1>9, <1>10, <1>11 DEF CpuOK

\* A CPU that stops stays in the handler.
LEMMA StopKeeps ==
    ASSUME NEW c \in TrapCpus, NEW st, NEW stk, CpuOK(c, st, stk), Len(st.traps) > 0,
           st.traps[Len(st.traps)].stage \in {"generic", "fatal"},
           NEW m \in {"panicked", "yielded", "halted"}, NEW st2, st2 = [st EXCEPT !.mode = m]
    PROVE  CpuOK(c, st2, stk)
<1>1. st \in CpuRecords
  BY DEF CpuOK
<1>2. st2 \in CpuRecords /\ st2.mode = m /\ st2.irq = st.irq /\ st2.rsp = st.rsp /\ st2.traps = st.traps
  BY <1>1 DEF CpuRecords
<1>3. Executing(c, st2)
  BY <1>2 DEF CpuOK, Executing
<1> QED BY <1>2, <1>3 DEF CpuOK

\* The last of the nested traps returns.
LEMMA NestedLess ==
    ASSUME NEW c \in TrapCpus, NEW traps \in Seq(TrapRecords), Nested(c, traps), Len(traps) > 0,
           NEW less, less = Front(traps)
    PROVE  /\ less \in Seq(TrapRecords) /\ Len(less) = Len(traps) - 1
           /\ \A i \in 1 .. Len(traps) - 1 : less[i] = traps[i]
           /\ Nested(c, less)
           /\ \A i \in 1 .. Len(traps) - 1 : Returns(less, i, Len(less)) /\ ~Ends(traps[Len(traps)])
                                               => Returns(traps, i, Len(traps))
<1> DEFINE L == Len(traps)
<1>1. L \in Nat /\ L \in 1 .. L /\ L - 1 \in Nat
  OBVIOUS
<1>2. less \in Seq(TrapRecords) /\ Len(less) = L - 1 /\ \A i \in 1 .. L - 1 : less[i] = traps[i]
  BY RemoveLast
<1>3. \A i \in 1 .. L - 1 : i \in 1 .. L
  BY <1>1
<1>4. \A i \in 1 .. L - 1 : TrapOK(c, less[i])
  BY <1>2, <1>3 DEF Nested
<1>5. L - 1 > 0 => AtRest(c, less[1].mode, less[1].from)
  <2>1. L - 1 > 0 => 1 \in 1 .. L - 1
    BY <1>1
  <2> QED BY <1>2, <2>1 DEF Nested
<1>6. \A i \in 1 .. (L - 1) - 1 :
          /\ less[i].stage = "generic"
          /\ less[i + 1].mode = "kernel" /\ ~less[i + 1].irq
          /\ less[i + 1].from = Down(FrameStart(c, less[i]), 16)
  <2>1. \A i \in 1 .. (L - 1) - 1 : i \in 1 .. L - 1 /\ i + 1 \in 1 .. L - 1
    BY <1>1
  <2> QED BY <1>2, <2>1 DEF Nested
<1>7. \A i, j \in 1 .. L - 1 : i < j /\ Returns(less, i, j) =>
          /\ FrameStart(c, less[j]).stack = FrameStart(c, less[i]).stack
          /\ FrameStart(c, less[j]).depth >= FrameStart(c, less[i]).depth + 16
  <2>1. SUFFICES ASSUME NEW i \in 1 .. L - 1, NEW j \in 1 .. L - 1, i < j, Returns(less, i, j)
                 PROVE  /\ FrameStart(c, less[j]).stack = FrameStart(c, less[i]).stack
                        /\ FrameStart(c, less[j]).depth >= FrameStart(c, less[i]).depth + 16
    OBVIOUS
  <2>2. \A k \in i + 1 .. j : k \in 1 .. L - 1
    BY <1>1
  <2>3. Returns(traps, i, j)
    BY <1>2, <2>1, <2>2 DEF Returns
  <2> QED BY <1>2, <1>3, <2>1, <2>3 DEF Nested
<1>8. \A i \in 1 .. L - 1 : Returns(less, i, L - 1) /\ ~Ends(traps[L]) => Returns(traps, i, L)
  <2>1. SUFFICES ASSUME NEW i \in 1 .. L - 1, Returns(less, i, L - 1), ~Ends(traps[L]) PROVE Returns(traps, i, L)
    OBVIOUS
  <2>2. \A k \in i + 1 .. L : k = L \/ (k \in i + 1 .. L - 1 /\ k \in 1 .. L - 1)
    BY <1>1
  <2> QED BY <1>2, <2>1, <2>2 DEF Returns
<1> HIDE DEF L
<1>9. Nested(c, less)
  BY <1>2, <1>4, <1>5, <1>6, <1>7 DEF Nested
<1> QED BY <1>2, <1>8, <1>9 DEF L

\* A CPU that returns from its last trap, and what becomes of the frame.
Returning(c, st, mode, stk, st2, stk2) ==
    LET t == st.traps[Len(st.traps)] IN
    /\ ~Ends(t)
    /\ mode = IF t.mode = "current" /\ t.stage = "restore" THEN "kernel" ELSE t.mode
    /\ st2 = [mode |-> mode, irq |-> t.irq, traps |-> Front(st.traps),
              rsp |-> IF mode = t.mode THEN t.from ELSE KernelStack(c)]
    /\ stk2 = IF st.rsp.stack = FaultStack THEN stk
              ELSE [stk EXCEPT ![st.rsp.stack] = SubSeq(@, 1, st.rsp.depth - FrameSize(t))]

\* A part of a stack is a stack.
LEMMA Cut ==
    ASSUME NEW W, NEW s \in Seq(W), NEW k \in Nat, k <= Len(s), NEW r, r = SubSeq(s, 1, k)
    PROVE  r \in Seq(W) /\ Len(r) = k /\ \A n \in 1 .. k : r[n] = s[n]
<1>1. r = [i \in 1 .. k |-> s[i]]
  OBVIOUS
<1>2. \A i \in 1 .. k : s[i] \in W
  OBVIOUS
<1>3. r \in [1 .. k -> W]
  BY <1>1, <1>2
<1> QED BY <1>1, <1>3

\* The last trap returns and the others go on as they were.
LEMMA TopRemoved ==
    ASSUME NEW c \in TrapCpus, NEW st, NEW stk, StacksOK(stk), CpuOK(c, st, stk), Len(st.traps) > 0,
           NEW mode, NEW st2, NEW stk2, Returning(c, st, mode, stk, st2, stk2)
    PROVE  OnlyOwn(c, stk, stk2) /\ CpuOK(c, st2, stk2)
<1> DEFINE L == Len(st.traps)
           t == st.traps[L]
           less == Front(st.traps)
           p == FrameStart(c, t)
<1>1. /\ st.traps \in Seq(TrapRecords) /\ Nested(c, st.traps) /\ FramesOK(c, st.traps, stk) /\ L \in Nat
      /\ L \in 1 .. L /\ t \in TrapRecords /\ TrapOK(c, t)
  BY RspFacts DEF CpuOK
<1>2. /\ less \in Seq(TrapRecords) /\ Len(less) = L - 1
      /\ \A i \in 1 .. L - 1 : less[i] = st.traps[i]
      /\ Nested(c, less)
      /\ \A i \in 1 .. L - 1 : Returns(less, i, Len(less)) /\ ~Ends(t) => Returns(st.traps, i, L)
  <2> HIDE DEF less
  <2>1. less = Front(st.traps)
    BY DEF less
  <2> QED BY <1>1, <2>1, NestedLess
<1>3. /\ ~Ends(t)
      /\ mode = IF t.mode = "current" /\ t.stage = "restore" THEN "kernel" ELSE t.mode
      /\ st2 = [mode |-> mode, irq |-> t.irq, traps |-> less,
                rsp |-> IF mode = t.mode THEN t.from ELSE KernelStack(c)]
  BY DEF Returning
<1>4. p \in Pointers /\ p.stack \in OwnStacks(c) \cup {FaultStack} /\ FrameSize(t) \in Nat
  BY <1>1, SizeFacts DEF TrapOK
<1>5. st.rsp = Down(p, FrameSize(t))
  BY DEF CpuOK, Executing
<1>6. st.rsp.stack = p.stack /\ st.rsp.depth = p.depth + FrameSize(t) /\ p.depth \in Nat
  <2> HIDE DEF p, t
  <2> QED BY <1>4, <1>5, DownFacts DEF Pointers
<1>7. p.depth <= Len(stk[p.stack]) /\ Len(stk[p.stack]) \in Nat /\ stk[p.stack] \in Seq(Words)
  <2>1. st.rsp.depth <= Len(stk[st.rsp.stack])
    BY DEF CpuOK
  <2>2. stk[p.stack] \in Seq(Words) /\ Len(stk[p.stack]) \in Nat
    BY <1>4 DEF Pointers, StacksOK
  <2> HIDE DEF p, t
  <2> QED BY <1>4, <1>6, <2>1, <2>2
<1>8. stk2 = IF p.stack = FaultStack THEN stk ELSE [stk EXCEPT ![p.stack] = SubSeq(stk[p.stack], 1, p.depth)]
  <2>1. st.rsp.depth - FrameSize(t) = p.depth
    <3> HIDE DEF p, t
    <3> QED BY <1>4, <1>6
  <2> QED BY <1>6, <2>1 DEF Returning
<1> HIDE DEF p, t, less, L
<1>9. /\ StacksOK(stk2) /\ SameUpTo(p, stk, stk2)
      /\ \A s \in StackNames : s # p.stack \/ s = FaultStack => stk2[s] = stk[s]
  <2>1. p.stack \in StackNames
    BY <1>4 DEF Pointers
  <2>2. CASE p.stack = FaultStack
    BY <1>7, <1>8, <2>2 DEF SameUpTo
  <2>3. CASE p.stack # FaultStack
    <3> DEFINE r == SubSeq(stk[p.stack], 1, p.depth)
    <3>1. r \in Seq(Words) /\ Len(r) = p.depth /\ \A n \in 1 .. p.depth : r[n] = stk[p.stack][n]
      BY <1>6, <1>7, Cut
    <3>2. stk2 = [stk EXCEPT ![p.stack] = r]
      BY <1>8, <2>3
    <3> HIDE DEF r
    <3>3. stk2[p.stack] = r /\ StacksOK(stk2) /\ \A s \in StackNames : s # p.stack => stk2[s] = stk[s]
      BY <2>1, <3>1, <3>2 DEF StacksOK
    <3> QED BY <1>6, <2>3, <3>1, <3>3 DEF SameUpTo
  <2> QED BY <2>2, <2>3
<1>10. OnlyOwn(c, stk, stk2)
  <2>1. \A s \in StackNames : s \notin OwnStacks(c) \cup {FaultStack} => stk2[s] = stk[s]
    BY <1>4, <1>9
  <2>2. stk2[FaultStack] = stk[FaultStack] /\ Len(stk[FaultStack]) \in Nat
    BY <1>9, StackNameFacts DEF StacksOK
  <2> QED BY <1>9, <2>1, <2>2 DEF OnlyOwn
<1>11. t.mode \in Running /\ t.irq \in BOOLEAN /\ t.from \in Pointers
  BY <1>1 DEF TrapRecords
<1>12. /\ st2.mode = mode /\ st2.irq = t.irq /\ st2.traps = less
       /\ st2.rsp = (IF mode = t.mode THEN t.from ELSE KernelStack(c))
       /\ mode \in Running
  BY <1>3, <1>11 DEF Running
<1>13. st2 \in CpuRecords
  <2>1. KernelStack(c) \in Pointers
    BY StackNameFacts
  <2> QED BY <1>2, <1>3, <1>11, <1>12, <2>1 DEF CpuRecords
<1>14. CASE L = 1
  <2>1. Len(less) = 0
    BY <1>2, <1>14
  <2>2. AtRest(c, t.mode, t.from)
    BY <1>1, <1>14 DEF Nested, L, t
  <2>3. AtRest(c, st2.mode, st2.rsp)
    BY <1>3, <1>12, <2>2 DEF AtRest
  <2>4. st2.rsp.depth = 0 /\ st2.rsp.stack \in StackNames
    BY <2>3, StackNameFacts DEF AtRest, Pointers
  <2>5. st2.rsp.depth <= Len(stk2[st2.rsp.stack])
    BY <1>9, <2>4 DEF StacksOK
  <2>6. Executing(c, st2)
    BY <1>12, <2>1, <2>3 DEF Executing
  <2>7. FramesOK(c, less, stk2)
    BY <2>1 DEF FramesOK
  <2> QED BY <1>2, <1>10, <1>12, <1>13, <2>1, <2>5, <2>6, <2>7 DEF CpuOK
<1>15. CASE L # 1
  <2>0. L > 0 /\ L \in Nat
    BY <1>1 DEF L
  <2>1. L - 1 \in 1 .. L - 1 /\ L - 1 \in 1 .. L /\ (L - 1) + 1 = L
    BY <1>15, <2>0
  <2>2. /\ st.traps[L - 1].stage = "generic" /\ t.mode = "kernel" /\ ~t.irq
        /\ t.from = Down(FrameStart(c, st.traps[L - 1]), 16)
    BY <1>1, <2>1 DEF Nested, t, L
  <2>3. p = t.from
    BY <1>1, <1>3, <2>2, StartFacts DEF TrapOK, p
  <2>4. mode = "kernel" /\ st2.rsp = p
    BY <1>3, <1>12, <2>2, <2>3
  <2>5. FrameSize(less[L - 1]) = 16 /\ less[L - 1] = st.traps[L - 1]
    BY <1>2, <2>1, <2>2, SizeFacts
  <2>6. Executing(c, st2)
    <3>1. st2.rsp = Down(FrameStart(c, less[L - 1]), FrameSize(less[L - 1]))
      BY <2>2, <2>3, <2>4, <2>5
    <3>2. Len(st2.traps) = L - 1 /\ Len(st2.traps) > 0
      BY <1>2, <1>12, <2>1
    <3> QED BY <1>12, <2>2, <2>4, <3>1, <3>2 DEF Executing
  <2>7. st2.rsp.depth <= Len(stk2[st2.rsp.stack])
    <3>1. Len(stk2[p.stack]) \in Nat
      BY <1>4, <1>9 DEF Pointers, StacksOK
    <3> QED BY <1>6, <1>9, <2>4, <3>1 DEF SameUpTo
  <2>8. NoFault(less) => NoFault(st.traps)
    <3>1. t.vector # DoubleFault
      <4>1. t.stage = "handler" => t.vector \in PicBase .. PicBase + 15
        BY <1>1 DEF TrapOK
      <4>2. t.stage # "handler" => t.vector \in {Breakpoint, Overflow}
        BY <1>3, <2>2 DEF Ends, IsFatal
      <4> QED BY SMTT(30), <4>1, <4>2 DEF DoubleFault, PicBase, Breakpoint, Overflow
    <3>2. \A i \in 1 .. L : i = L \/ i \in 1 .. L - 1
      BY <1>1
    <3> QED BY <1>2, <3>1, <3>2 DEF NoFault, t, L
  <2>9. FramesOK(c, less, stk2)
    <3>1. SUFFICES ASSUME NoFault(less), NEW i \in 1 .. L - 1, Returns(less, i, Len(less))
                   PROVE  FrameOK(c, i, less[i], stk2[FrameStart(c, less[i]).stack])
      BY <1>2 DEF FramesOK
    <3>2. Returns(st.traps, i, Len(st.traps))
      BY <1>2, <1>3, <3>1 DEF L
    <3>3. SameUpTo(FrameStart(c, st.traps[Len(st.traps)]), stk, stk2)
      BY <1>9 DEF p, t, L
    <3>4. i \in 1 .. Len(st.traps) - 1
      BY DEF L
    <3>5. FrameOK(c, i, st.traps[i], stk2[FrameStart(c, st.traps[i]).stack])
      BY <1>1, <1>9, <2>8, <3>1, <3>2, <3>3, <3>4, LowerFramesKept
    <3> QED BY <1>2, <3>5
  <2>10. NoFault(less) => \A i \in 1 .. Len(less) : FrameStart(c, less[i]).stack \in OwnStacks(c)
    <3>1. \A i \in 1 .. Len(less) : i \in 1 .. L /\ less[i] = st.traps[i]
      BY <1>1, <1>2
    <3> QED BY <2>8, <3>1 DEF CpuOK, L
  <2> QED BY <1>2, <1>10, <1>12, <1>13, <2>6, <2>7, <2>9, <2>10 DEF CpuOK
<1> QED BY <1>14, <1>15

\* Words that complete the frame of a trap that goes on.
Completes(c, level, t, t2, words, old) ==
    \A s : /\ FrameOK(c, level, t, old)
           /\ \A n \in 1 .. FrameStart(c, t).depth + FrameSize(t) : s[n] = old[n]
           /\ \A n \in 1 .. Len(words) : s[FrameStart(c, t).depth + FrameSize(t) + n] = words[n]
           /\ Len(s) >= FrameStart(c, t).depth + FrameSize(t2)
           => FrameOK(c, level, t2, s)

\* The handler of the last trap pushes words.
LEMMA PushKeeps ==
    ASSUME NEW c \in TrapCpus, NEW st, NEW stk, StacksOK(stk), CpuOK(c, st, stk), Len(st.traps) > 0,
           st.mode = "kernel",
           NEW t, t = st.traps[Len(st.traps)], NEW t2 \in TrapRecords, Continues(t, t2), TrapOK(c, t2),
           NEW words \in Seq(Words), FrameSize(t2) = FrameSize(t) + Len(words),
           NoFault(st.traps) => Completes(c, Len(st.traps), t, t2, words, stk[st.rsp.stack]),
           NEW stk2, Pushes(stk, st.rsp, words, stk2),
           NEW st2, st2 = [st EXCEPT !.rsp = Down(st.rsp, Len(words)), !.traps = Append(Front(st.traps), t2)]
    PROVE  OnlyOwn(c, stk, stk2) /\ CpuOK(c, st2, stk2)
<1> DEFINE L == Len(st.traps)
           p == FrameStart(c, t2)
<1>1. /\ st.traps \in Seq(TrapRecords) /\ L \in Nat /\ L \in 1 .. L /\ TrapOK(c, t)
      /\ st.rsp \in Pointers /\ st.rsp.stack \in OwnStacks(c) \cup {FaultStack}
  BY RspFacts
<1>2. p = FrameStart(c, t)
  BY DEF Continues, FrameStart
<1>3. p \in Pointers /\ FrameSize(t) \in Nat /\ FrameSize(t2) \in Nat /\ p.depth \in Nat
  BY SizeFacts DEF TrapOK, Pointers
<1>4. st.rsp = Down(p, FrameSize(t))
  BY <1>2 DEF CpuOK, Executing
<1> HIDE DEF p
<1>5. st.rsp.stack = p.stack /\ st.rsp.depth = p.depth + FrameSize(t)
  BY <1>3, <1>4, DownFacts
<1>6. st.rsp.depth <= Len(stk[st.rsp.stack])
  BY DEF CpuOK
<1>7. /\ OnlyOwn(c, stk, stk2)
      /\ Len(stk2[p.stack]) >= st.rsp.depth + Len(words)
      /\ \A n \in 1 .. st.rsp.depth : stk2[p.stack][n] = stk[p.stack][n]
      /\ \A n \in 1 .. Len(words) : stk2[p.stack][st.rsp.depth + n] = words[n]
  <2> DEFINE q == st.rsp
  <2>1. /\ q \in Pointers /\ q.stack \in OwnStacks(c) \cup {FaultStack}
        /\ q.depth <= Len(stk[q.stack]) /\ Pushes(stk, q, words, stk2) /\ q.stack = p.stack
    BY <1>1, <1>5, <1>6
  <2>2. SUFFICES /\ OnlyOwn(c, stk, stk2)
                 /\ Len(stk2[p.stack]) >= q.depth + Len(words)
                 /\ \A n \in 1 .. q.depth : stk2[p.stack][n] = stk[p.stack][n]
                 /\ \A n \in 1 .. Len(words) : stk2[p.stack][q.depth + n] = words[n]
    OBVIOUS
  <2> HIDE DEF q
  <2> QED BY <2>1, PushFacts
<1>8. Down(st.rsp, Len(words)) = Down(p, FrameSize(t2))
  <2>1. Len(words) \in Nat
    OBVIOUS
  <2>2. Down(Down(p, FrameSize(t)), Len(words)) = Down(p, FrameSize(t) + Len(words))
    BY <1>3, <2>1, DownTwice
  <2> QED BY <1>4, <2>2
<1>9. Goes(c, st, t2, st2)
  BY <1>8 DEF Goes, p
<1>10. Len(stk2[p.stack]) >= p.depth + FrameSize(t2)
  <2>1. Len(words) \in Nat
    OBVIOUS
  <2>2. p.depth + FrameSize(t2) = st.rsp.depth + Len(words)
    BY <1>3, <1>5, <2>1
  <2> QED BY <1>7, <2>2
<1>11. \A n \in 1 .. p.depth : stk2[p.stack][n] = stk[p.stack][n]
  <2>1. \A n \in 1 .. p.depth : n \in 1 .. st.rsp.depth
    BY <1>3, <1>5
  <2> QED BY <1>7, <2>1
<1>12. NoFault(st.traps) => FrameOK(c, L, t2, stk2[p.stack])
  <2>1. SUFFICES ASSUME NoFault(st.traps) PROVE FrameOK(c, L, t2, stk2[p.stack])
    OBVIOUS
  <2>2. Returns(st.traps, L, L)
    BY <1>1 DEF Returns
  <2>3. FrameOK(c, L, t, stk[p.stack])
    BY <1>1, <1>2, <2>1, <2>2 DEF CpuOK, FramesOK
  <2>4. \A n \in 1 .. p.depth + FrameSize(t) : stk2[p.stack][n] = stk[p.stack][n]
    BY <1>5, <1>7
  <2>5. \A n \in 1 .. Len(words) : stk2[p.stack][p.depth + FrameSize(t) + n] = words[n]
    BY <1>5, <1>7
  <2>6. Completes(c, L, t, t2, words, stk[p.stack])
    BY <1>5, <2>1
  <2> QED BY <1>2, <1>10, <2>3, <2>4, <2>5, <2>6 DEF Completes
<1>13. StacksOK(stk2)
  BY <1>7 DEF OnlyOwn
<1>14. p = FrameStart(c, t2)
  BY DEF p
<1> QED BY <1>7, <1>9, <1>10, <1>11, <1>12, <1>13, <1>14, TopChanged

-----------------------------------------------------------------------------
\* A step of a CPU.
Steps(c, st) ==
    /\ cpuState' = [cpuState EXCEPT ![c] = st]
    /\ OnlyOwn(c, stacks, stacks')
    /\ CpuOK(c, st, stacks')

Handles(st) == Len(st.traps) > 0 /\ st.traps[Len(st.traps)].stage = "handler"

\* A step of a CPU keeps the frames of all.
LEMMA FramesStep ==
    ASSUME FramesInv, NEW c \in TrapCpus, NEW st, Steps(c, st)
    PROVE  FramesInv' /\ cpuState'[c] = st /\ \A d \in TrapCpus : d # c => cpuState'[d] = cpuState[d]
<1>1. cpuState' = [cpuState EXCEPT ![c] = st] /\ st \in CpuRecords /\ cpuState \in [TrapCpus -> CpuRecords]
  BY DEF Steps, CpuOK, FramesInv
<1>2. /\ cpuState' \in [TrapCpus -> CpuRecords] /\ cpuState'[c] = st
      /\ \A d \in TrapCpus : d # c => cpuState'[d] = cpuState[d]
  BY <1>1
<1>3. \A d \in TrapCpus : CpuOK(d, cpuState'[d], stacks')
  <2>1. SUFFICES ASSUME NEW d \in TrapCpus PROVE CpuOK(d, cpuState'[d], stacks')
    OBVIOUS
  <2>2. CASE d = c
    BY <1>2, <2>2 DEF Steps
  <2>3. CASE d # c
    <3>1. CpuOK(d, cpuState[d], stacks) /\ StacksOK(stacks) /\ OnlyOwn(c, stacks, stacks')
      BY DEF FramesInv, Steps
    <3>2. CpuOK(d, cpuState[d], stacks')
      BY <2>3, <3>1, OthersKeep
    <3> QED BY <1>2, <2>3, <3>2
  <2> QED BY <2>2, <2>3
<1>4. StacksOK(stacks')
  BY DEF Steps, OnlyOwn
<1> QED BY <1>2, <1>3, <1>4 DEF FramesInv

\* A step that starts no report of a double fault.
LEMMA ReportStep ==
    ASSUME FramesInv, ReportInv, NEW c \in TrapCpus, NEW st, Steps(c, st),
           Reports(st) => Reports(cpuState[c]), stopAll # "free" => stopAll' # "free"
    PROVE  ReportInv'
<1>1. \A d \in TrapCpus : Reports(cpuState'[d]) => Reports(cpuState[d])
  BY FramesStep
<1> QED BY <1>1 DEF ReportInv

\* A step outside of the handlers of the PIC.
LEMMA PicStep ==
    ASSUME FramesInv, PicInv, NEW c \in TrapCpus, NEW st, Steps(c, st),
           ~Handles(cpuState[c]), ~Handles(st), UNCHANGED <<pic, trapCounts, acked>>
    PROVE  PicInv'
<1>1. 0 \in TrapCpus
  BY StackNameFacts
<1>2. cpuState'[0] = cpuState[0] \/ (~Handles(cpuState[0]) /\ ~Handles(cpuState'[0]))
  BY <1>1, FramesStep
<1>3. StageIs(0, "handler") <=> Handles(cpuState[0])
  BY DEF StageIs, Level, Trap, Last, Handles
<1>4. StageIs(0, "handler")' <=> Handles(cpuState'[0])
  BY DEF StageIs, Level, Trap, Last, Handles
<1>5. \A l \in PicLines :
        (StageIs(0, "handler") /\ Trap(0).vector = PicBase + l)
           <=> (StageIs(0, "handler") /\ Trap(0).vector = PicBase + l)'
  BY <1>2, <1>3, <1>4 DEF Trap
<1>6. pic' = pic /\ trapCounts' = trapCounts /\ acked' = acked
  OBVIOUS
<1>7. \A l \in PicLines :
          acked'[l] = trapCounts'[l] + (IF (StageIs(0, "handler") /\ Trap(0).vector = PicBase + l)' THEN 1 ELSE 0)
  BY <1>5, <1>6 DEF PicInv
<1> QED BY <1>6, <1>7 DEF PicInv

\* What the guards speak of.
LEMMA TopIs ==
    ASSUME NEW c
    PROVE  /\ Trap(c) = cpuState[c].traps[Len(cpuState[c].traps)]
           /\ Level(c) = Len(cpuState[c].traps)
           /\ \A stage : StageIs(c, stage) <=> /\ Len(cpuState[c].traps) > 0
                                              /\ cpuState[c].traps[Len(cpuState[c].traps)].stage = stage
           /\ Handles(cpuState[c]) <=> StageIs(c, "handler")
BY DEF Trap, Level, StageIs, Last, Handles

\* The processor delivers a vector to a CPU.
LEMMA DeliverStep ==
    ASSUME FramesInv, NEW c \in TrapCpus, NEW v, NEW stage, Deliverable(c, v, stage),
           cpuState[c].mode \in Running, Level(c) > 0 => StageIs(c, "generic"), Deliver(c, v, stage)
    PROVE  \E st : /\ Steps(c, st) /\ st.mode = "kernel" /\ Len(st.traps) > 0
                   /\ st.traps[Len(st.traps)].stage = stage /\ st.traps[Len(st.traps)].vector = v
<1> DEFINE s == cpuState[c]
           t == [vector |-> v, stage |-> stage, mode |-> s.mode, irq |-> s.irq, from |-> s.rsp,
                 number |-> NoWord, error |-> NoWord, context |-> 0]
           p == FrameStart(c, t)
           words == ContextOf(c, Len(s.traps) + 1) \o
                    (IF v \in HardwareErrorCodes THEN <<TrapWord(c, Len(s.traps) + 1, "error", v)>> ELSE <<>>)
           st == [mode |-> "kernel", irq |-> FALSE, rsp |-> Down(p, Len(words)), traps |-> Append(s.traps, t)]
<1>1. p = IF Gate(v).ist # "none" THEN IstStack(c, Gate(v).ist)
          ELSE IF s.mode = "kernel" THEN s.rsp ELSE KernelStack(c)
  <2>1. t.vector = v /\ t.mode = s.mode /\ t.from = s.rsp
    OBVIOUS
  <2> HIDE DEF t
  <2> QED BY <2>1 DEF FrameStart
<1>2. stacks' = Pushed(p, words) /\ cpuState' = [cpuState EXCEPT ![c] = st]
  <2> DEFINE e == IF Gate(v).ist # "none" THEN IstStack(c, Gate(v).ist)
                  ELSE IF s.mode = "kernel" THEN s.rsp ELSE KernelStack(c)
  <2>1. /\ stacks' = Pushed(e, words)
        /\ cpuState' = [cpuState EXCEPT ![c] = [mode |-> "kernel", irq |-> FALSE, rsp |-> Down(e, Len(words)),
                                                traps |-> Append(s.traps, t)]]
    BY Zenon DEF Deliver, Level
  <2>2. p = e
    BY <1>1
  <2> QED BY <2>1, <2>2, Zenon
<1>3. /\ CpuOK(c, s, stacks) /\ StacksOK(stacks) /\ s.mode \in Running
      /\ Len(s.traps) > 0 => s.traps[Len(s.traps)].stage = "generic"
  BY TopIs DEF FramesInv
<1>4. t.stage = stage /\ t.vector = v
  OBVIOUS
<1>5. st.mode = "kernel" /\ st.traps = Append(s.traps, t)
  OBVIOUS
<1>6. Delivers(c, v, stage, s, stacks, t, p, words, st, stacks')
  <2>1. Pushes(stacks, p, words, stacks')
    BY <1>2 DEF Pushed, Pushes
  <2> QED BY <2>1, Zenon DEF Delivers
<1>7. s.traps \in Seq(TrapRecords)
  BY <1>3, RspFacts
<1> HIDE DEF s, t, p, words, st
<1>8. OnlyOwn(c, stacks, stacks') /\ CpuOK(c, st, stacks')
  BY <1>3, <1>6, DeliverKeeps
<1>9. Steps(c, st)
  BY <1>2, <1>8 DEF Steps
<1>10. Len(st.traps) > 0 /\ st.traps[Len(st.traps)] = t
  BY <1>5, <1>7
<1> QED BY <1>4, <1>5, <1>9, <1>10

\* An exception.
LEMMA RaiseStep ==
    ASSUME TrapInv, NEW c \in TrapCpus, NEW v \in Exceptions, Raise(c, v)
    PROVE  TrapInv'
<1>1. /\ Executes(c)
      /\ Level(c) > 0 => StageIs(c, "generic")
      /\ Deliver(c, v, "stub")
      /\ UNCHANGED <<pic, stopAll, trapCounts, acked>>
  BY DEF Raise
<1>2. cpuState[c].mode \in Running
  BY <1>1 DEF Executes, TrapInv, FramesInv, CpuRecords
<1>3. Deliverable(c, v, "stub")
  BY DEF Deliverable
<1>4. PICK st : /\ Steps(c, st) /\ st.mode = "kernel" /\ Len(st.traps) > 0
                /\ st.traps[Len(st.traps)].stage = "stub"
  BY <1>1, <1>2, <1>3, DeliverStep DEF TrapInv
<1>5. ~Reports(st) /\ ~Handles(st)
  BY <1>4 DEF Reports, Handles
<1>6. ~Handles(cpuState[c])
  BY <1>1, TopIs DEF Raise, Handles
<1> QED BY <1>1, <1>4, <1>5, <1>6, FramesStep, ReportStep, PicStep DEF TrapInv

\* A device raises its line.
LEMMA RaiseLineStep ==
    ASSUME TrapInv, NEW line \in PicLines, RaiseLine(line)
    PROVE  TrapInv'
<1>1. /\ pic' = [pic EXCEPT !.irr = @ \cup {line}]
      /\ UNCHANGED <<stacks, cpuState, stopAll, trapCounts, acked>>
  BY DEF RaiseLine
<1>2. FramesInv' /\ ReportInv'
  BY <1>1 DEF TrapInv, FramesInv, ReportInv
<1>3. PicInv'
  BY <1>1 DEF TrapInv, PicInv, StageIs, Level, Trap
<1> QED BY <1>2, <1>3 DEF TrapInv

\* The handler pushes words and goes on.
LEMMA PushAndGoStep ==
    ASSUME TrapInv, NEW c \in TrapCpus, Level(c) > 0, Trap(c).stage \in {"stub", "trampoline"},
           NEW t2 \in TrapRecords, Continues(Trap(c), t2), TrapOK(c, t2), t2.stage \in {"trampoline", "generic"},
           NEW words \in Seq(Words), FrameSize(t2) = FrameSize(Trap(c)) + Len(words),
           Completes(c, Level(c), Trap(c), t2, words, stacks[cpuState[c].rsp.stack]),
           PushAndGo(c, words, t2)
    PROVE  TrapInv'
<1> DEFINE s == cpuState[c]
           st == [s EXCEPT !.rsp = Down(s.rsp, Len(words)), !.traps = Append(Front(s.traps), t2)]
<1>1. /\ stacks' = Pushed(s.rsp, words)
      /\ cpuState' = [cpuState EXCEPT ![c].rsp = Down(@, Len(words)), ![c].traps = Append(Front(@), t2)]
      /\ UNCHANGED <<pic, stopAll, trapCounts, acked>>
  BY DEF PushAndGo
<1>2. cpuState \in [TrapCpus -> CpuRecords] /\ CpuOK(c, s, stacks) /\ StacksOK(stacks) /\ s \in CpuRecords
  BY DEF TrapInv, FramesInv
<1>3. cpuState' = [cpuState EXCEPT ![c] = st]
  BY <1>1, <1>2
<1>4. Len(s.traps) > 0 /\ Trap(c) = s.traps[Len(s.traps)] /\ Level(c) = Len(s.traps)
  BY TopIs
<1>5. s.mode = "kernel"
  BY <1>2, <1>4 DEF CpuOK, Executing
<1>6. Pushes(stacks, s.rsp, words, stacks')
  BY <1>1 DEF Pushed, Pushes
<1> HIDE DEF s
<1>7. s.traps \in Seq(TrapRecords)
  BY <1>2, RspFacts
<1>8. st.traps = Append(Front(s.traps), t2) /\ st.mode = s.mode
  BY <1>2 DEF CpuRecords
<1>9. st.traps[Len(st.traps)] = t2
  <2>1. ReplacesLast(s.traps, t2, st.traps)
    BY <1>8 DEF ReplacesLast
  <2> HIDE DEF st
  <2>2. Len(st.traps) = Len(s.traps) /\ st.traps[Len(s.traps)] = t2
    BY <1>4, <1>7, <2>1, ReplaceLast
  <2> QED BY <2>2
<1>10. st = [s EXCEPT !.rsp = Down(s.rsp, Len(words)), !.traps = Append(Front(s.traps), t2)]
  OBVIOUS
<1> HIDE DEF st
<1>11. Completes(c, Len(s.traps), Trap(c), t2, words, stacks[s.rsp.stack])
  BY <1>4 DEF s
<1>12. OnlyOwn(c, stacks, stacks') /\ CpuOK(c, st, stacks')
  BY <1>2, <1>4, <1>5, <1>6, <1>10, <1>11, PushKeeps
<1>13. Steps(c, st)
  BY <1>3, <1>12 DEF Steps
<1>14. ~Reports(st) /\ ~Handles(st)
  BY <1>5, <1>8, <1>9 DEF Reports, Handles
<1>15. ~Handles(cpuState[c])
  BY TopIs DEF Handles
<1> QED BY <1>1, <1>13, <1>14, <1>15, FramesStep, ReportStep, PicStep DEF TrapInv

\* What is known of the last trap of a CPU.
LEMMA TopFacts ==
    ASSUME TrapInv, NEW c \in TrapCpus, Level(c) > 0
    PROVE  /\ Trap(c) \in TrapRecords /\ TrapOK(c, Trap(c)) /\ Level(c) \in Nat
           /\ cpuState[c].rsp = Down(FrameStart(c, Trap(c)), FrameSize(Trap(c)))
           /\ cpuState[c].rsp \in Pointers
           /\ cpuState[c].rsp.stack = FrameStart(c, Trap(c)).stack
           /\ cpuState[c].rsp.depth = FrameStart(c, Trap(c)).depth + FrameSize(Trap(c))
           /\ FrameStart(c, Trap(c)).depth \in Nat
           /\ cpuState[c].rsp.depth <= Len(stacks[cpuState[c].rsp.stack])
           /\ stacks[cpuState[c].rsp.stack] \in Seq(Words)
           /\ NoFault(cpuState[c].traps) =>
                 FrameOK(c, Level(c), Trap(c), stacks[FrameStart(c, Trap(c)).stack])
<1> DEFINE s == cpuState[c]
           t == s.traps[Len(s.traps)]
<1>1. CpuOK(c, s, stacks) /\ StacksOK(stacks)
  BY DEF TrapInv, FramesInv
<1>2. Trap(c) = t /\ Level(c) = Len(s.traps)
  BY TopIs
<1>3. /\ s.rsp \in Pointers /\ Len(s.traps) \in Nat /\ s.traps \in Seq(TrapRecords)
      /\ t \in TrapRecords /\ TrapOK(c, t) /\ Len(s.traps) \in 1 .. Len(s.traps)
  BY <1>1, <1>2, RspFacts
<1>4. s.rsp = Down(FrameStart(c, t), FrameSize(t)) /\ s.rsp.depth <= Len(stacks[s.rsp.stack])
  BY <1>1, <1>2 DEF CpuOK, Executing
<1>5. FrameStart(c, t) \in Pointers /\ FrameSize(t) \in Nat
  BY <1>3, SizeFacts DEF TrapOK
<1>6. s.rsp.stack = FrameStart(c, t).stack /\ s.rsp.depth = FrameStart(c, t).depth + FrameSize(t)
  <2> HIDE DEF t
  <2> QED BY <1>4, <1>5, DownFacts
<1>7. FrameStart(c, t).depth \in Nat /\ stacks[s.rsp.stack] \in Seq(Words)
  BY <1>1, <1>3, <1>5 DEF Pointers, StacksOK
<1>8. NoFault(s.traps) => FrameOK(c, Len(s.traps), t, stacks[FrameStart(c, t).stack])
  <2>1. Returns(s.traps, Len(s.traps), Len(s.traps))
    BY <1>3 DEF Returns
  <2> QED BY <1>1, <1>3, <2>1 DEF CpuOK, FramesOK
<1> QED BY <1>2, <1>3, <1>4, <1>6, <1>7, <1>8

\* For a vector with a gate the stub pushes an error code when the processor does not.
LEMMA GateFacts ==
    ASSUME NEW v \in Exceptions
    PROVE  v \in Nat /\ (Gate(v).kind = "no error code" <=> v \notin HardwareErrorCodes)
<1>1. v \in WithErrorCode \cup WithoutErrorCode
  BY ExceptionsAssumption
<1>2. v \in Nat /\ (v \in WithErrorCode <=> v \in HardwareErrorCodes)
  BY <1>1 DEF WithErrorCode, WithoutErrorCode, HardwareErrorCodes, DoubleFault, PageFault, Breakpoint, Overflow
<1> QED BY <1>1, <1>2 DEF Gate

\* The stub of a vector.
LEMMA StubStep ==
    ASSUME TrapInv, NEW c \in TrapCpus, Stub(c)
    PROVE  TrapInv'
<1> DEFINE t == Trap(c)
           v == t.vector
           L == Level(c)
           t2 == [t EXCEPT !.stage = "trampoline"]
           number == TrapWord(c, L, "number", v)
           zero == TrapWord(c, L, "error", 0)
           words == (IF Gate(v).kind = "no error code" THEN <<zero>> ELSE <<>>) \o <<number>>
           b == FrameStart(c, t).depth
<1>1. L > 0 /\ t.stage = "stub" /\ PushAndGo(c, words, t2)
  BY DEF Stub, StageIs
<1>2. t \in TrapRecords /\ TrapOK(c, t) /\ L \in Nat /\ b \in Nat
  BY <1>1, TopFacts
<1>3. v \in Exceptions
  BY <1>1, <1>2 DEF TrapOK
<1>4. v \in Nat /\ (Gate(v).kind = "no error code" <=> v \notin HardwareErrorCodes)
  <2> HIDE DEF v
  <2> QED BY <1>3, GateFacts
<1>5. number \in Words /\ zero \in Words
  BY <1>2, <1>4 DEF TrapWord, Words
<1>6. words = Append(IF v \in HardwareErrorCodes THEN <<>> ELSE <<zero>>, number)
  <2> HIDE DEF number, zero, v
  <2>1. <<>> \in Seq(Words) /\ <<zero>> \in Seq(Words)
    BY <1>5
  <2>2. <<>> \o <<number>> = Append(<<>>, number) /\ <<zero>> \o <<number>> = Append(<<zero>>, number)
    BY <1>5, <2>1, OneMoreWord
  <2> QED BY <1>4, <2>2
<1>7. /\ t2 \in TrapRecords /\ t2.stage = "trampoline" /\ t2.vector = v /\ t2.mode = t.mode
      /\ t2.irq = t.irq /\ t2.from = t.from
  BY <1>2 DEF TrapRecords
<1> HIDE DEF t2
<1>8. Continues(t, t2) /\ FrameStart(c, t2) = FrameStart(c, t)
  BY <1>1, <1>7 DEF Continues, FrameStart
<1>9. TrapOK(c, t2)
  BY <1>2, <1>3, <1>7, <1>8 DEF TrapOK
<1>10. FrameSize(t) = (IF v \in HardwareErrorCodes THEN 6 ELSE 5) /\ FrameSize(t2) = 7
  BY <1>1, <1>7, SizeFacts
<1> HIDE DEF words, number, zero
<1>11. /\ words \in Seq(Words) /\ FrameSize(t2) = FrameSize(t) + Len(words)
       /\ v \in HardwareErrorCodes => words[1] = number
       /\ v \notin HardwareErrorCodes => words[1] = zero /\ words[2] = number
  BY <1>5, <1>6, <1>10
<1>12. Completes(c, L, t, t2, words, stacks[cpuState[c].rsp.stack])
  <2> DEFINE old == stacks[cpuState[c].rsp.stack]
  <2> HIDE DEF old, t, L, b
  <2>1. SUFFICES ASSUME NEW s, FrameOK(c, L, t, old),
                        \A n \in 1 .. FrameStart(c, t).depth + FrameSize(t) : s[n] = old[n],
                        \A n \in 1 .. Len(words) : s[FrameStart(c, t).depth + FrameSize(t) + n] = words[n],
                        Len(s) >= FrameStart(c, t).depth + FrameSize(t2)
                 PROVE  FrameOK(c, L, t2, s)
    BY DEF Completes, old
  <2>2. b = FrameStart(c, t).depth /\ b = FrameStart(c, t2).depth
    BY <1>8 DEF b
  <2>3. \A n \in 1 .. 5 : s[b + n] = TrapWord(c, L, "context", n)
    <3>1. \A n \in 1 .. 5 : b + n \in 1 .. b + FrameSize(t)
      BY <1>2, <1>10
    <3> QED BY <2>1, <2>2, <3>1 DEF FrameOK
  <2>4. s[b + 6] = TrapWord(c, L, "error", IF v \in HardwareErrorCodes THEN v ELSE 0)
    <3>1. CASE v \in HardwareErrorCodes
      <4>1. b + 6 \in 1 .. b + FrameSize(t) /\ FrameSize(t) >= 6
        BY <1>2, <1>10, <3>1
      <4> QED BY <2>1, <2>2, <3>1, <4>1 DEF FrameOK
    <3>2. CASE v \notin HardwareErrorCodes
      <4>1. FrameSize(t) = 5 /\ 1 \in 1 .. Len(words) /\ b + FrameSize(t) + 1 = b + 6
        BY <1>2, <1>10, <1>11, <3>2
      <4> QED BY <1>11, <2>1, <2>2, <3>2, <4>1 DEF zero
    <3> QED BY <3>1, <3>2
  <2>5. s[b + 7] = number
    <3>1. CASE v \in HardwareErrorCodes
      <4>1. 1 \in 1 .. Len(words) /\ b + FrameSize(t) + 1 = b + 7
        BY <1>2, <1>10, <1>11, <3>1
      <4> QED BY <1>11, <2>1, <2>2, <3>1, <4>1
    <3>2. CASE v \notin HardwareErrorCodes
      <4>1. 2 \in 1 .. Len(words) /\ b + FrameSize(t) + 2 = b + 7
        BY <1>2, <1>10, <1>11, <3>2
      <4> QED BY <1>11, <2>1, <2>2, <3>2, <4>1
    <3> QED BY <3>1, <3>2
  <2> QED BY <1>7, <1>10, <2>1, <2>2, <2>3, <2>4, <2>5 DEF FrameOK, number
<1> QED BY <1>1, <1>7, <1>8, <1>9, <1>11, <1>12, PushAndGoStep

\* trap_trampoline() saves the registers and reads the arguments.
LEMMA TrampolineStep ==
    ASSUME TrapInv, NEW c \in TrapCpus, Trampoline(c)
    PROVE  TrapInv'
<1> DEFINE t == Trap(c)
           L == Level(c)
           rsp == cpuState[c].rsp
           old == stacks[rsp.stack]
           t2 == [t EXCEPT !.stage = "generic", !.number = old[rsp.depth], !.error = old[rsp.depth - 1],
                           !.context = rsp.depth - 2]
           words == RegistersOf(c, L)
           b == FrameStart(c, t).depth
<1>1. L > 0 /\ t.stage = "trampoline" /\ PushAndGo(c, words, t2)
  BY DEF Trampoline, StageIs
<1>2. /\ t \in TrapRecords /\ TrapOK(c, t) /\ L \in Nat /\ b \in Nat
      /\ rsp.depth = b + FrameSize(t) /\ rsp.depth <= Len(old) /\ old \in Seq(Words)
  BY <1>1, TopFacts
<1>3. FrameSize(t) = 7
  BY <1>1, SizeFacts
<1> HIDE DEF t, rsp, b, old, L
<1>4. /\ rsp.depth = b + 7 /\ rsp.depth - 1 = b + 6 /\ rsp.depth - 2 = b + 5
      /\ rsp.depth \in 1 .. Len(old) /\ rsp.depth - 1 \in 1 .. Len(old)
  BY <1>2, <1>3
<1>5. old[b + 7] \in Words /\ old[b + 6] \in Words
  BY <1>2, <1>4
<1>6. t2 = [t EXCEPT !.stage = "generic", !.number = old[b + 7], !.error = old[b + 6], !.context = b + 5]
  BY <1>4
<1>7. /\ t2 \in TrapRecords /\ t2.stage = "generic" /\ t2.vector = t.vector /\ t2.mode = t.mode
      /\ t2.irq = t.irq /\ t2.from = t.from
      /\ t2.number = old[b + 7] /\ t2.error = old[b + 6] /\ t2.context = b + 5
  <2> DEFINE w == old[b + 7]
             e == old[b + 6]
             k == b + 5
  <2>1. w \in Words /\ e \in Words /\ k \in Int
    BY <1>2, <1>5
  <2>2. t2 = [t EXCEPT !.stage = "generic", !.number = w, !.error = e, !.context = k]
    BY <1>6
  <2> HIDE DEF t2, w, e, k
  <2>3. /\ t2 \in TrapRecords /\ t2.stage = "generic" /\ t2.vector = t.vector /\ t2.mode = t.mode
        /\ t2.irq = t.irq /\ t2.from = t.from /\ t2.number = w /\ t2.error = e /\ t2.context = k
    BY <1>2, <2>1, <2>2 DEF TrapRecords
  <2> QED BY <2>3 DEF w, e, k
<1> HIDE DEF t2
<1>8. Continues(t, t2) /\ FrameStart(c, t2) = FrameStart(c, t)
  BY <1>1, <1>7 DEF Continues, FrameStart
<1>9. TrapOK(c, t2)
  BY <1>1, <1>2, <1>7, <1>8 DEF TrapOK
<1>10. FrameSize(t2) = 16
  BY <1>7, SizeFacts
<1>11. words \in Seq(Words) /\ Len(words) = 9 /\ \A n \in 1 .. 9 : words[n] = TrapWord(c, L, "register", n)
  <2>1. \A n \in 1 .. 9 : TrapWord(c, L, "register", n) \in Words
    BY <1>2 DEF TrapWord, Words
  <2> QED BY <2>1 DEF RegistersOf
<1> HIDE DEF words
<1>12. Completes(c, L, t, t2, words, old)
  <2>1. SUFFICES ASSUME NEW s, FrameOK(c, L, t, old),
                        \A n \in 1 .. FrameStart(c, t).depth + FrameSize(t) : s[n] = old[n],
                        \A n \in 1 .. Len(words) : s[FrameStart(c, t).depth + FrameSize(t) + n] = words[n],
                        Len(s) >= FrameStart(c, t).depth + FrameSize(t2)
                 PROVE  FrameOK(c, L, t2, s)
    BY DEF Completes
  <2>2. b = FrameStart(c, t).depth /\ b = FrameStart(c, t2).depth
    BY <1>8 DEF b
  <2>3. \A n \in 1 .. 7 : b + n \in 1 .. b + 7
    BY <1>2
  <2>4. \A n \in 1 .. 7 : s[b + n] = old[b + n]
    BY <1>3, <2>1, <2>2, <2>3
  <2>5. /\ \A n \in 1 .. 5 : old[b + n] = TrapWord(c, L, "context", n)
        /\ old[b + 6] = TrapWord(c, L, "error", IF t.vector \in HardwareErrorCodes THEN t.vector ELSE 0)
        /\ old[b + 7] = TrapWord(c, L, "number", t.vector)
    BY <1>3, <2>1, <2>2 DEF FrameOK
  <2>6. \A n \in 1 .. 9 : s[b + 7 + n] = TrapWord(c, L, "register", n)
    BY <1>3, <1>11, <2>1, <2>2
  <2>7. /\ \A n \in 1 .. 5 : s[b + n] = TrapWord(c, L, "context", n)
        /\ s[b + 6] = old[b + 6] /\ s[b + 7] = old[b + 7]
    BY <2>4, <2>5
  <2> QED BY <1>7, <1>10, <2>1, <2>2, <2>5, <2>6, <2>7 DEF FrameOK
<1>13. FrameSize(t2) = FrameSize(t) + Len(words)
  BY <1>3, <1>10, <1>11
<1>14. Completes(c, Level(c), Trap(c), t2, words, stacks[cpuState[c].rsp.stack])
  BY <1>12 DEF L, t, old, rsp
<1>15. /\ Level(c) > 0 /\ Trap(c).stage = "trampoline" /\ PushAndGo(c, words, t2)
       /\ Continues(Trap(c), t2) /\ FrameSize(t2) = FrameSize(Trap(c)) + Len(words)
  BY <1>1, <1>8, <1>13 DEF L, t
<1> QED BY <1>7, <1>9, <1>11, <1>14, <1>15, PushAndGoStep

\* The handler goes on with the same frame.
LEMMA GoToStep ==
    ASSUME TrapInv, NEW c \in TrapCpus, Level(c) > 0, Trap(c).stage \in {"generic", "fatal"}, Executes(c),
           NEW stage, stage \in {"fatal", "restore"},
           stage = "restore" => ~Ends(Trap(c)), stage = "fatal" => Trap(c).vector = DoubleFault,
           GoTo(c, stage), UNCHANGED stacks
    PROVE  \E st : /\ Steps(c, st) /\ st.mode = "kernel" /\ Len(st.traps) > 0
                   /\ st.traps[Len(st.traps)].stage = stage
<1> DEFINE s == cpuState[c]
           t == Trap(c)
           t2 == [t EXCEPT !.stage = stage]
           st == [s EXCEPT !.traps = Append(Front(s.traps), t2)]
<1>1. cpuState \in [TrapCpus -> CpuRecords] /\ CpuOK(c, s, stacks) /\ StacksOK(stacks) /\ s \in CpuRecords
  BY DEF TrapInv, FramesInv
<1>2. cpuState' = [cpuState EXCEPT ![c] = st]
  BY <1>1 DEF GoTo
<1>3. Len(s.traps) > 0 /\ t = s.traps[Len(s.traps)] /\ Level(c) = Len(s.traps)
  BY TopIs
<1>4. /\ t \in TrapRecords /\ TrapOK(c, t)
      /\ s.rsp = Down(FrameStart(c, t), FrameSize(t))
      /\ s.rsp.stack = FrameStart(c, t).stack
      /\ s.rsp.depth = FrameStart(c, t).depth + FrameSize(t)
      /\ s.rsp.depth <= Len(stacks[s.rsp.stack]) /\ FrameStart(c, t).depth \in Nat
      /\ NoFault(s.traps) => FrameOK(c, Len(s.traps), t, stacks[FrameStart(c, t).stack])
  BY <1>3, TopFacts
<1>5. s.mode = "kernel"
  BY <1>1, <1>3 DEF CpuOK, Executing, Executes
<1>6. t.stage \in {"generic", "fatal"}
  OBVIOUS
<1>7. /\ t2 \in TrapRecords /\ t2.stage = stage /\ t2.vector = t.vector /\ t2.mode = t.mode
      /\ t2.irq = t.irq /\ t2.from = t.from
      /\ t2.number = t.number /\ t2.error = t.error /\ t2.context = t.context
  BY <1>4 DEF TrapRecords
<1>8. st.traps = Append(Front(s.traps), t2) /\ st.mode = s.mode /\ st.rsp = s.rsp
  BY <1>1 DEF CpuRecords
<1>0. (stage = "restore" => ~Ends(t)) /\ (stage = "fatal" => t.vector = DoubleFault)
  OBVIOUS
<1> HIDE DEF t2, t
<1>9. FrameStart(c, t2) = FrameStart(c, t) /\ Continues(t, t2) /\ Ends(t2) = Ends(t)
  BY <1>6, <1>7 DEF Continues, FrameStart, Ends
<1>10. FrameSize(t2) = 16 /\ FrameSize(t) = 16
  BY <1>6, <1>7, SizeFacts
<1>11. TrapOK(c, t2)
  BY <1>0, <1>4, <1>6, <1>7, <1>9 DEF TrapOK
<1>12. st = [s EXCEPT !.rsp = Down(FrameStart(c, t2), FrameSize(t2)), !.traps = Append(Front(s.traps), t2)]
  <2>1. Down(FrameStart(c, t2), FrameSize(t2)) = s.rsp
    BY <1>4, <1>9, <1>10
  <2> QED BY <1>1, <2>1 DEF CpuRecords
<1> HIDE DEF st
<1>13. Goes(c, s, t2, st)
  BY <1>3, <1>5, <1>9, <1>11, <1>12 DEF Goes
<1>14. NoFault(s.traps) => FrameOK(c, Len(s.traps), t2, stacks[FrameStart(c, t2).stack])
  BY <1>4, <1>7, <1>9, <1>10 DEF FrameOK
<1> HIDE DEF s
<1>15. CpuOK(c, st, stacks)
  <2> DEFINE p == FrameStart(c, t2)
  <2>1. Len(stacks[p.stack]) >= p.depth + FrameSize(t2)
    <3>1. Len(stacks[p.stack]) \in Nat
      BY <1>1, <1>4, <1>9 DEF TrapOK, Pointers, StacksOK
    <3> QED BY <1>4, <1>9, <1>10, <3>1
  <2> HIDE DEF p
  <2>2. p = FrameStart(c, t2) /\ \A n \in 1 .. p.depth : stacks[p.stack][n] = stacks[p.stack][n]
    BY DEF p
  <2>3. NoFault(s.traps) => FrameOK(c, Len(s.traps), t2, stacks[p.stack])
    BY <1>14, <2>2
  <2> QED BY <1>1, <1>3, <1>7, <1>13, <2>1, <2>2, <2>3, TopChanged
<1>16. Steps(c, st)
  <2>1. OnlyOwn(c, stacks, stacks)
    <3>1. Len(stacks[FaultStack]) \in Nat
      BY <1>1, StackNameFacts DEF StacksOK
    <3> QED BY <1>1, <3>1 DEF OnlyOwn
  <2>2. stacks' = stacks
    OBVIOUS
  <2> QED BY <1>2, <1>15, <2>1, <2>2 DEF Steps
<1>17. Len(st.traps) > 0 /\ st.traps[Len(st.traps)] = t2
  <2>1. ReplacesLast(s.traps, t2, st.traps) /\ s.traps \in Seq(TrapRecords)
    BY <1>1, <1>8, RspFacts DEF ReplacesLast
  <2>2. Len(st.traps) = Len(s.traps) /\ st.traps[Len(s.traps)] = t2
    BY <1>3, <1>7, <2>1, ReplaceLast
  <2> QED BY <1>3, <2>2
<1> QED BY <1>5, <1>7, <1>8, <1>16, <1>17

\* The CPU stops in the handler.
LEMMA StopInStep ==
    ASSUME TrapInv, NEW c \in TrapCpus, Level(c) > 0, Trap(c).stage \in {"generic", "fatal"},
           NEW m \in {"panicked", "yielded", "halted"}, StopIn(c, m), UNCHANGED stacks
    PROVE  \E st : Steps(c, st) /\ st.mode = m /\ st.traps = cpuState[c].traps
<1> DEFINE s == cpuState[c]
           st == [s EXCEPT !.mode = m]
<1>1. cpuState \in [TrapCpus -> CpuRecords] /\ CpuOK(c, s, stacks) /\ StacksOK(stacks) /\ s \in CpuRecords
  BY DEF TrapInv, FramesInv
<1>2. cpuState' = [cpuState EXCEPT ![c] = st]
  BY <1>1 DEF StopIn
<1>3. Len(s.traps) > 0 /\ s.traps[Len(s.traps)].stage \in {"generic", "fatal"}
  BY TopIs
<1>4. st.mode = m /\ st.traps = s.traps
  BY <1>1 DEF CpuRecords
<1>5. st = [s EXCEPT !.mode = m]
  OBVIOUS
<1> HIDE DEF s, st
<1>6. CpuOK(c, st, stacks)
  BY <1>1, <1>3, <1>5, StopKeeps
<1>7. Steps(c, st)
  <2>1. OnlyOwn(c, stacks, stacks)
    <3>1. Len(stacks[FaultStack]) \in Nat
      BY <1>1, StackNameFacts DEF StacksOK
    <3> QED BY <1>1, <3>1 DEF OnlyOwn
  <2> QED BY <1>2, <1>6, <2>1 DEF Steps
<1> QED BY <1>4, <1>7 DEF s

\* The first of the double faults takes the lock, and whoever sees the panic halts.
LEMMA StopAllStep ==
    ASSUME TrapInv, NEW c \in TrapCpus, StopAll(c), UNCHANGED <<stacks, pic, trapCounts, acked>>
    PROVE  TrapInv'
<1>1. /\ Level(c) > 0 /\ Trap(c).stage = "generic" /\ Trap(c).vector = DoubleFault /\ Executes(c)
      /\ ~Handles(cpuState[c])
  BY TopIs DEF StopAll, StageIs
<1>2. CASE stopAll = "free" /\ stopAll' = "taken" /\ GoTo(c, "fatal")
  <2>1. PICK st : /\ Steps(c, st) /\ st.mode = "kernel" /\ Len(st.traps) > 0
                  /\ st.traps[Len(st.traps)].stage = "fatal"
    BY <1>1, <1>2, GoToStep
  <2>2. FramesInv' /\ \A d \in TrapCpus : d # c => cpuState'[d] = cpuState[d]
    BY <2>1, FramesStep DEF TrapInv
  <2>3. PicInv'
    <3>1. ~Handles(st)
      BY <2>1 DEF Handles
    <3> QED BY <1>1, <2>1, <3>1, PicStep DEF TrapInv
  <2>4. \A d \in TrapCpus : Reports(cpuState'[d]) => d = c
    BY <1>2, <2>2 DEF TrapInv, ReportInv
  <2>5. ReportInv'
    BY <1>2, <2>4 DEF ReportInv
  <2> QED BY <2>2, <2>3, <2>5 DEF TrapInv
<1>3. CASE stopAll = "panicking" /\ StopIn(c, "halted") /\ UNCHANGED stopAll
  <2>1. PICK st : Steps(c, st) /\ st.mode = "halted" /\ st.traps = cpuState[c].traps
    BY <1>1, <1>3, StopInStep
  <2>2. ~Reports(st) /\ ~Handles(st)
    BY <1>1, <2>1, TopIs DEF Reports, Handles
  <2> QED BY <1>1, <1>3, <2>1, <2>2, FramesStep, ReportStep, PicStep DEF TrapInv
<1> QED BY <1>2, <1>3 DEF StopAll

\* generic_trap() of all others.
LEMMA GenericTrapStep ==
    ASSUME TrapInv, NEW c \in TrapCpus, GenericTrap(c), UNCHANGED <<stacks, pic, trapCounts, acked>>
    PROVE  TrapInv'
<1> DEFINE t == Trap(c)
<1>1. /\ Level(c) > 0 /\ t.stage \in {"generic", "fatal"} /\ Executes(c)
      /\ t.vector = DoubleFault => t.stage = "fatal"
      /\ ~Handles(cpuState[c])
  BY TopIs DEF GenericTrap, StageIs
<1>2. stopAll # "free" => stopAll' # "free"
  BY DEF GenericTrap
<1>3. CASE GoTo(c, "restore") /\ ~Ends(t)
  <2>1. PICK st : /\ Steps(c, st) /\ st.mode = "kernel" /\ Len(st.traps) > 0
                  /\ st.traps[Len(st.traps)].stage = "restore"
    BY <1>1, <1>3, GoToStep
  <2>2. ~Reports(st) /\ ~Handles(st)
    BY <2>1 DEF Reports, Handles
  <2> QED BY <1>1, <1>2, <2>1, <2>2, FramesStep, ReportStep, PicStep DEF TrapInv
<1>4. ASSUME NEW m \in {"yielded", "panicked"}, StopIn(c, m)
      PROVE  TrapInv'
  <2>1. PICK st : Steps(c, st) /\ st.mode = m /\ st.traps = cpuState[c].traps
    BY <1>1, <1>4, StopInStep
  <2>2. Reports(st) => Reports(cpuState[c])
    BY <1>1, <2>1, TopIs DEF Reports
  <2>3. ~Handles(st)
    BY <1>1, <2>1 DEF Handles
  <2> QED BY <1>1, <1>2, <2>1, <2>2, <2>3, FramesStep, ReportStep, PicStep DEF TrapInv
<1> QED BY <1>3, <1>4 DEF GenericTrap, Ends

\* A CPU returns from its last trap.
LEMMA ReturnStep ==
    ASSUME TrapInv, NEW c \in TrapCpus, Level(c) > 0, ~Ends(Trap(c)), NEW mode,
           mode = (IF Trap(c).mode = "current" /\ Trap(c).stage = "restore" THEN "kernel" ELSE Trap(c).mode),
           Resumed(c, mode), ForgetBelow(c, cpuState[c].rsp.depth - FrameSize(Trap(c)))
    PROVE  \E st : Steps(c, st) /\ ~Reports(st) /\ ~Handles(st)
<1> DEFINE s == cpuState[c]
           t == Trap(c)
           st == [mode |-> mode, irq |-> t.irq, traps |-> Front(s.traps),
                  rsp |-> IF mode = t.mode THEN t.from ELSE KernelStack(c)]
<1>1. cpuState \in [TrapCpus -> CpuRecords] /\ CpuOK(c, s, stacks) /\ StacksOK(stacks)
  BY DEF TrapInv, FramesInv
<1>2. cpuState' = [cpuState EXCEPT ![c] = st]
  BY DEF Resumed
<1>3. Len(s.traps) > 0 /\ t = s.traps[Len(s.traps)]
  BY TopIs
<1>4. Returning(c, s, mode, stacks, st, stacks')
  BY <1>3 DEF Returning, ForgetBelow, FaultStack
<1>5. st.traps = Front(s.traps) /\ st.mode = mode
  OBVIOUS
<1>6. t \in TrapRecords /\ s.traps \in Seq(TrapRecords)
  BY <1>1, TopFacts, RspFacts
<1>7. st.mode # "panicked"
  BY <1>5, <1>6 DEF TrapRecords, Running
<1> HIDE DEF s, st, t
<1>8. OnlyOwn(c, stacks, stacks') /\ CpuOK(c, st, stacks')
  BY <1>1, <1>3, <1>4, TopRemoved
<1>9. Len(st.traps) > 0 => st.traps[Len(st.traps)].stage = "generic"
  <2>1. /\ Len(st.traps) = Len(s.traps) - 1 /\ Len(s.traps) \in Nat
        /\ \A i \in 1 .. Len(s.traps) - 1 : st.traps[i] = s.traps[i]
    BY <1>3, <1>5, <1>6, RemoveLast
  <2>2. \A i \in 1 .. Len(s.traps) - 1 : s.traps[i].stage = "generic"
    BY <1>1 DEF CpuOK, Nested
  <2> QED BY <2>1, <2>2
<1>10. ~Reports(st) /\ ~Handles(st)
  BY <1>7, <1>9 DEF Reports, Handles
<1> QED BY <1>2, <1>8, <1>10 DEF Steps

\* The end of trap_trampoline().
LEMMA RestoreStep ==
    ASSUME TrapInv, NEW c \in TrapCpus, Restore(c), UNCHANGED <<pic, stopAll, trapCounts, acked>>
    PROVE  TrapInv'
<1> DEFINE mode == IF Trap(c).mode = "current" THEN "kernel" ELSE Trap(c).mode
<1>1. /\ Level(c) > 0 /\ Trap(c).stage = "restore" /\ ~Handles(cpuState[c])
      /\ Resumed(c, mode) /\ ForgetBelow(c, cpuState[c].rsp.depth - 16)
  BY TopIs DEF Restore, StageIs
<1>2. FrameSize(Trap(c)) = 16
  BY <1>1, SizeFacts
<1>3. ~Ends(Trap(c))
  BY <1>1, TopFacts DEF TrapOK
<1>4. mode = IF Trap(c).mode = "current" /\ Trap(c).stage = "restore" THEN "kernel" ELSE Trap(c).mode
  BY <1>1
<1> HIDE DEF mode
<1>5. PICK st : Steps(c, st) /\ ~Reports(st) /\ ~Handles(st)
  BY <1>1, <1>2, <1>3, <1>4, ReturnStep
<1> QED BY <1>1, <1>5, FramesStep, ReportStep, PicStep DEF TrapInv

\* The PIC delivers an interrupt.
LEMMA PicInterruptStep ==
    ASSUME TrapInv, NEW line \in PicLines, PicInterrupt(line)
    PROVE  TrapInv'
<1> DEFINE v == LineVector(line)
<1>1. /\ Executes(0) /\ cpuState[0].irq /\ Deliver(0, v, "handler")
      /\ pic' = [pic EXCEPT !.irr = @ \ {line}, !.isr = IF pic.aeoi THEN @ ELSE @ \cup Occupies(line)]
      /\ acked' = [acked EXCEPT ![line] = @ + 1]
      /\ UNCHANGED <<stopAll, trapCounts>>
  BY DEF PicInterrupt
<1>2. 0 \in TrapCpus /\ line \in 0 .. 15
  BY TrapConstants
<1>3. v = PicBase + line /\ v \in PicBase .. PicBase + 15
  BY <1>2 DEF LineVector, TrapInv, PicInv, PicBase
<1>4. Level(0) = 0 /\ cpuState[0].mode \in Running
  <2>1. CpuOK(0, cpuState[0], stacks) /\ cpuState[0] \in CpuRecords
    BY <1>2 DEF TrapInv, FramesInv
  <2>2. Len(cpuState[0].traps) \in Nat
    BY <1>2, <2>1, RspFacts
  <2>3. ~(Len(cpuState[0].traps) > 0)
    BY <1>1, <2>1 DEF CpuOK, Executing
  <2> QED BY <1>1, <2>1, <2>2, <2>3 DEF Level, Executes, CpuRecords, Running
<1>5. Deliverable(0, v, "handler") /\ Deliver(0, v, "handler")
  BY <1>1, <1>3 DEF Deliverable
<1> HIDE DEF v
<1>6. PICK st : /\ Steps(0, st) /\ st.mode = "kernel" /\ Len(st.traps) > 0
                /\ st.traps[Len(st.traps)].stage = "handler" /\ st.traps[Len(st.traps)].vector = v
  BY <1>2, <1>4, <1>5, DeliverStep DEF TrapInv
<1>7. FramesInv' /\ cpuState'[0] = st
  BY <1>2, <1>6, FramesStep DEF TrapInv
<1>8. ReportInv'
  <2>1. ~Reports(st)
    BY <1>6 DEF Reports
  <2> QED BY <1>1, <1>2, <1>6, <2>1, ReportStep DEF TrapInv
<1>9. PicInv'
  <2>1. ~StageIs(0, "handler")
    BY <1>4 DEF StageIs
  <2>2. \A l \in PicLines : acked[l] = trapCounts[l]
    BY <2>1 DEF TrapInv, PicInv
  <2>3. \A l \in PicLines : (StageIs(0, "handler") /\ Trap(0).vector = PicBase + l)' <=> l = line
    <3>1. \A l \in PicLines : PicBase + l = PicBase + line <=> l = line
      BY <1>2, TrapConstants DEF PicBase
    <3>2. StageIs(0, "handler")' /\ Trap(0)'.vector = v
      BY <1>6, <1>7 DEF StageIs, Level, Trap, Last
    <3> QED BY <1>3, <3>1, <3>2
  <2>4. acked' \in [PicLines -> Nat] /\ \A l \in PicLines : acked'[l] = trapCounts[l] + (IF l = line THEN 1 ELSE 0)
    BY <1>1, <2>2 DEF TrapInv, PicInv
  <2>5. /\ pic'.aeoi = TRUE /\ pic'.isr = {} /\ pic'.base = <<PicBase, PicBase + 8>>
        /\ pic' = [irr |-> pic'.irr, isr |-> pic'.isr, base |-> pic'.base, aeoi |-> pic'.aeoi, cascade |-> pic'.cascade]
    BY <1>1 DEF TrapInv, PicInv
  <2>6. trapCounts' = trapCounts
    BY <1>1
  <2> QED BY <2>3, <2>4, <2>5, <2>6 DEF TrapInv, PicInv
<1> QED BY <1>7, <1>8, <1>9 DEF TrapInv

\* The handler of a line.
LEMMA PicHandlerStep ==
    ASSUME TrapInv, PicHandler
    PROVE  TrapInv'
<1> DEFINE number == Trap(0).vector - PicBase
<1>1. /\ Level(0) > 0 /\ Trap(0).stage = "handler" /\ StageIs(0, "handler")
      /\ trapCounts' = IF number \in PicLines THEN [trapCounts EXCEPT ![number] = @ + 1] ELSE trapCounts
      /\ pic' = [pic EXCEPT !.isr = EndOfInterrupt(number)]
      /\ Resumed(0, Trap(0).mode) /\ ForgetBelow(0, cpuState[0].rsp.depth - 5)
      /\ UNCHANGED <<stopAll, acked>>
  BY DEF PicHandler, StageIs
<1>2. 0 \in TrapCpus
  BY TrapConstants
<1>3. FrameSize(Trap(0)) = 5 /\ ~Ends(Trap(0))
  BY <1>1, SizeFacts DEF Ends
<1>4. Trap(0).vector \in PicBase .. PicBase + 15
  BY <1>1, <1>2, TopFacts DEF TrapOK
<1>5. PICK st : Steps(0, st) /\ ~Reports(st) /\ ~Handles(st)
  <2>1. Trap(0).mode = IF Trap(0).mode = "current" /\ Trap(0).stage = "restore" THEN "kernel" ELSE Trap(0).mode
    BY <1>1
  <2> QED BY <1>1, <1>2, <1>3, <2>1, ReturnStep
<1>6. FramesInv' /\ cpuState'[0] = st
  BY <1>2, <1>5, FramesStep DEF TrapInv
<1>7. ReportInv'
  BY <1>1, <1>2, <1>5, ReportStep DEF TrapInv
<1>8. PicInv'
  <2>1. ~StageIs(0, "handler")'
    BY <1>5, <1>6 DEF StageIs, Level, Trap, Last, Handles
  <2>2. \A l \in PicLines : acked[l] = trapCounts[l] + (IF Trap(0).vector = PicBase + l THEN 1 ELSE 0)
    BY <1>1 DEF TrapInv, PicInv
  <2>3. \A l \in PicLines : Trap(0).vector = PicBase + l <=> l = number
    BY <1>4, TrapConstants DEF PicBase
  <2>4. trapCounts' \in [PicLines -> Nat] /\ \A l \in PicLines : trapCounts'[l] = acked[l]
    BY <1>1, <2>2, <2>3 DEF TrapInv, PicInv
  <2>5. EndOfInterrupt(number) = {}
    BY DEF EndOfInterrupt, Dismissed, TrapInv, PicInv
  <2>6. /\ pic'.aeoi = TRUE /\ pic'.isr = {} /\ pic'.base = <<PicBase, PicBase + 8>>
        /\ pic' = [irr |-> pic'.irr, isr |-> pic'.isr, base |-> pic'.base, aeoi |-> pic'.aeoi, cascade |-> pic'.cascade]
    BY <1>1, <2>5 DEF TrapInv, PicInv
  <2>7. acked' = acked /\ acked \in [PicLines -> Nat]
    BY <1>1 DEF TrapInv, PicInv
  <2> QED BY <2>1, <2>4, <2>6, <2>7 DEF PicInv
<1> QED BY <1>6, <1>7, <1>8 DEF TrapInv

\* What a complete frame holds.
LEMMA FrameWords ==
    ASSUME NEW c \in TrapCpus, NEW level \in Nat, NEW s \in Seq(Words), NEW b \in Nat, Len(s) >= b + 16
    PROVE  /\ (\A n \in 1 .. 5 : s[b + n] = TrapWord(c, level, "context", n))
                 => SubSeq(s, b + 1, b + 5) = ContextOf(c, level)
           /\ (\A n \in 1 .. 9 : s[b + 7 + n] = TrapWord(c, level, "register", n))
                 => SubSeq(s, b + 8, b + 16) = RegistersOf(c, level)
<1>1. /\ ContextOf(c, level) \in Seq(Words) /\ Len(ContextOf(c, level)) = 5
      /\ \A n \in 1 .. 5 : ContextOf(c, level)[n] = TrapWord(c, level, "context", n)
  <2>1. \A n \in 1 .. 5 : TrapWord(c, level, "context", n) \in Words
    BY DEF TrapWord, Words
  <2> QED BY <2>1 DEF ContextOf
<1>2. /\ RegistersOf(c, level) \in Seq(Words) /\ Len(RegistersOf(c, level)) = 9
      /\ \A n \in 1 .. 9 : RegistersOf(c, level)[n] = TrapWord(c, level, "register", n)
  <2>1. \A n \in 1 .. 9 : TrapWord(c, level, "register", n) \in Words
    BY DEF TrapWord, Words
  <2> QED BY <2>1 DEF RegistersOf
<1>3. (\A n \in 1 .. 5 : s[b + n] = TrapWord(c, level, "context", n))
         => SubSeq(s, b + 1, b + 5) = ContextOf(c, level)
  <2>1. SUFFICES ASSUME \A n \in 1 .. 5 : s[b + n] = TrapWord(c, level, "context", n)
                 PROVE  SubSeq(s, b + 1, b + 5) = ContextOf(c, level)
    OBVIOUS
  <2>2. \A n \in 1 .. 5 : s[b + n] = ContextOf(c, level)[n]
    BY <1>1, <2>1
  <2>3. b + 5 <= Len(s)
    OBVIOUS
  <2> QED BY SMTT(30), <1>1, <2>2, <2>3, SubSeqIs
<1>4. (\A n \in 1 .. 9 : s[b + 7 + n] = TrapWord(c, level, "register", n))
         => SubSeq(s, b + 8, b + 16) = RegistersOf(c, level)
  <2>1. SUFFICES ASSUME \A n \in 1 .. 9 : s[b + 7 + n] = TrapWord(c, level, "register", n)
                 PROVE  SubSeq(s, b + 8, b + 16) = RegistersOf(c, level)
    OBVIOUS
  <2> DEFINE a == b + 7
  <2>2. \A n \in 1 .. 9 : s[a + n] = RegistersOf(c, level)[n]
    BY <1>2, <2>1
  <2>3. a \in Nat /\ a + 9 <= Len(s)
    OBVIOUS
  <2>5. a + 1 = b + 8 /\ a + 9 = b + 16
    OBVIOUS
  <2> HIDE DEF a
  <2>4. SubSeq(s, a + 1, a + 9) = RegistersOf(c, level)
    <3> DEFINE w == RegistersOf(c, level)
    <3>1. w \in Seq(Words) /\ Len(w) = 9 /\ 9 \in Nat /\ \A n \in 1 .. 9 : s[a + n] = w[n]
      BY <1>2, <2>2
    <3> HIDE DEF w
    <3>2. SubSeq(s, a + 1, a + 9) = w
      BY <2>3, <3>1, SubSeqIs
    <3> QED BY <3>2 DEF w
  <2> QED BY <2>4, <2>5
<1> QED BY <1>3, <1>4

\* trap::init() leaves every CPU without traps.
LEMMA TrapsStart == TrapInit => TrapInv
<1>1. SUFFICES ASSUME TrapInit PROVE TrapInv
  OBVIOUS
<1>2. stacks = [s \in StackNames |-> <<>>] /\ StacksOK(stacks)
  BY <1>1 DEF TrapInit, StacksOK
<1>3. PICK mode \in [TrapCpus -> Running] :
         cpuState = [c \in TrapCpus |-> [mode |-> mode[c], irq |-> TRUE, traps |-> <<>>,
                       rsp |-> IF mode[c] = "kernel" THEN KernelStack(c) ELSE StackTop(c, "user")]]
  BY <1>1 DEF TrapInit, Running
<1>4. \A c \in TrapCpus : /\ cpuState[c].mode = mode[c] /\ mode[c] \in Running /\ cpuState[c].traps = <<>>
                          /\ cpuState[c].rsp = IF mode[c] = "kernel" THEN KernelStack(c) ELSE StackTop(c, "user")
                          /\ cpuState[c] \in CpuRecords
  <2>1. SUFFICES ASSUME NEW c \in TrapCpus
                 PROVE  /\ cpuState[c].mode = mode[c] /\ mode[c] \in Running /\ cpuState[c].traps = <<>>
                        /\ cpuState[c].rsp = IF mode[c] = "kernel" THEN KernelStack(c) ELSE StackTop(c, "user")
                        /\ cpuState[c] \in CpuRecords
    OBVIOUS
  <2> DEFINE r == IF mode[c] = "kernel" THEN KernelStack(c) ELSE StackTop(c, "user")
  <2>2. r \in Pointers /\ mode[c] \in Running /\ <<>> \in Seq(TrapRecords)
    BY StackNameFacts
  <2>3. cpuState[c] = [mode |-> mode[c], irq |-> TRUE, traps |-> <<>>, rsp |-> r]
    BY <1>3
  <2> HIDE DEF r
  <2>4. cpuState[c] \in CpuRecords /\ cpuState[c].rsp = r /\ cpuState[c].mode = mode[c] /\ cpuState[c].traps = <<>>
    BY <2>2, <2>3 DEF CpuRecords
  <2> QED BY <2>2, <2>4 DEF r
<1>5. cpuState \in [TrapCpus -> CpuRecords]
  BY <1>3, <1>4
<1>6. \A c \in TrapCpus : CpuOK(c, cpuState[c], stacks)
  <2>1. SUFFICES ASSUME NEW c \in TrapCpus PROVE CpuOK(c, cpuState[c], stacks)
    OBVIOUS
  <2>2. Len(cpuState[c].traps) = 0
    BY <1>4
  <2>3. AtRest(c, cpuState[c].mode, cpuState[c].rsp)
    BY <1>4 DEF AtRest, Running
  <2>4. cpuState[c].rsp.depth = 0 /\ cpuState[c].rsp.stack \in StackNames
    BY <2>3, StackNameFacts DEF AtRest, Pointers
  <2>5. cpuState[c].rsp.depth <= Len(stacks[cpuState[c].rsp.stack])
    BY <1>2, <2>4
  <2>6. Nested(c, cpuState[c].traps) /\ Executing(c, cpuState[c]) /\ FramesOK(c, cpuState[c].traps, stacks)
    BY <2>2, <2>3 DEF Nested, Executing, FramesOK
  <2> QED BY <1>4, <2>2, <2>5, <2>6 DEF CpuOK
<1>7. FramesInv
  BY <1>2, <1>5, <1>6 DEF FramesInv
<1>8. ReportInv
  BY <1>4 DEF ReportInv, Reports
<1>9. PicInv
  <2>1. ~StageIs(0, "handler")
    BY <1>4, TrapConstants DEF StageIs, Level
  <2>2. /\ pic = PicInit(PicBase)
        /\ trapCounts = [l \in PicLines |-> 0] /\ acked = [l \in PicLines |-> 0]
    BY <1>1 DEF TrapInit
  <2>3. /\ pic.aeoi = TRUE /\ pic.isr = {} /\ pic.base = <<PicBase, PicBase + 8>>
        /\ pic = [irr |-> pic.irr, isr |-> pic.isr, base |-> pic.base, aeoi |-> pic.aeoi, cascade |-> pic.cascade]
    BY <2>2 DEF PicInit
  <2> QED BY <2>1, <2>2, <2>3 DEF PicInv
<1> QED BY <1>7, <1>8, <1>9 DEF TrapInv

\* Every step of every CPU, of the devices and of the PIC keeps the invariant.
LEMMA TrapsStep == TrapInv /\ [TrapNext]_trapVars => TrapInv'
<1>1. SUFFICES ASSUME TrapInv, [TrapNext]_trapVars PROVE TrapInv'
  OBVIOUS
<1>2. CASE UNCHANGED trapVars
  BY <1>1, <1>2
  DEF trapVars, TrapInv, FramesInv, ReportInv, PicInv, StageIs, Level, Trap
<1>3. ASSUME NEW c \in TrapCpus,
             \/ \E v \in Exceptions : Raise(c, v)
             \/ Stub(c) \/ Trampoline(c)
             \/ StopAll(c) /\ UNCHANGED <<stacks, pic, trapCounts, acked>>
             \/ GenericTrap(c) /\ UNCHANGED <<stacks, pic, trapCounts, acked>>
             \/ Restore(c) /\ UNCHANGED <<pic, stopAll, trapCounts, acked>>
      PROVE  TrapInv'
  BY <1>1, <1>3, RaiseStep, StubStep, TrampolineStep, StopAllStep, GenericTrapStep, RestoreStep
<1>4. ASSUME NEW line \in PicLines, RaiseLine(line) \/ PicInterrupt(line)
      PROVE  TrapInv'
  BY <1>1, <1>4, RaiseLineStep, PicInterruptStep
<1>5. CASE PicHandler
  BY <1>1, <1>5, PicHandlerStep
<1> QED BY <1>1, <1>2, <1>3, <1>4, <1>5 DEF TrapNext

\* What the invariant says of the handlers.
LEMMA TrapsHold == TrapInv => TrapsAreExact
<1>1. SUFFICES ASSUME TrapInv PROVE TrapsAreExact
  OBVIOUS
<1>2. ASSUME NEW c \in TrapCpus, ~DoubleFaulted PROVE NoFault(cpuState[c].traps)
  BY <1>2 DEF DoubleFaulted, NoFault, Level
<1>3. TrapArgumentsAreRight
  <2>1. SUFFICES ASSUME NEW c \in TrapCpus, StageIs(c, "generic"), ~DoubleFaulted
                 PROVE  LET trap == Trap(c)  s == stacks[cpuState[c].rsp.stack]
                            code == IF trap.vector \in HardwareErrorCodes THEN trap.vector ELSE 0 IN
                        /\ trap.number = TrapWord(c, Level(c), "number", trap.vector)
                        /\ trap.error = TrapWord(c, Level(c), "error", code)
                        /\ SubSeq(s, trap.context - 4, trap.context) = ContextOf(c, Level(c))
    BY DEF TrapArgumentsAreRight
  <2> DEFINE t == Trap(c)
             s == stacks[cpuState[c].rsp.stack]
             b == FrameStart(c, t).depth
  <2>2. Level(c) > 0 /\ t.stage = "generic" /\ NoFault(cpuState[c].traps)
    BY <1>2, <2>1 DEF StageIs
  <2>3. /\ FrameOK(c, Level(c), t, s) /\ b \in Nat /\ s \in Seq(Words) /\ FrameSize(t) = 16 /\ Level(c) \in Nat
    BY <1>1, <2>2, TopFacts, SizeFacts
  <2> HIDE DEF t, s
  <2>4. /\ t.number = TrapWord(c, Level(c), "number", t.vector)
        /\ t.error = TrapWord(c, Level(c), "error", IF t.vector \in HardwareErrorCodes THEN t.vector ELSE 0)
        /\ t.context = b + 5 /\ Len(s) >= b + 16
        /\ \A n \in 1 .. 5 : s[b + n] = TrapWord(c, Level(c), "context", n)
    BY <2>3 DEF FrameOK
  <2>5. SubSeq(s, b + 1, b + 5) = ContextOf(c, Level(c))
    BY <2>3, <2>4, FrameWords
  <2>6. t.context - 4 = b + 1
    BY <2>3, <2>4
  <2> QED BY <2>4, <2>5, <2>6 DEF t, s
<1>4. TrapsReturnToTheirContext
  <2>1. SUFFICES ASSUME NEW c \in TrapCpus, StageIs(c, "restore"), ~DoubleFaulted
                 PROVE  Popped(c) = [registers |-> RegistersOf(c, Level(c)), context |-> ContextOf(c, Level(c))]
    BY DEF TrapsReturnToTheirContext
  <2> DEFINE t == Trap(c)
             depth == cpuState[c].rsp.depth
             s == stacks[cpuState[c].rsp.stack]
             b == FrameStart(c, t).depth
  <2>2. Level(c) > 0 /\ t.stage = "restore" /\ NoFault(cpuState[c].traps)
    BY <1>2, <2>1 DEF StageIs
  <2>3. /\ FrameOK(c, Level(c), t, s) /\ b \in Nat /\ s \in Seq(Words) /\ FrameSize(t) = 16
        /\ depth = b + FrameSize(t) /\ Level(c) \in Nat
    BY <1>1, <2>2, TopFacts, SizeFacts
  <2>4. Popped(c) = [registers |-> SubSeq(s, depth - 8, depth), context |-> SubSeq(s, depth - 15, depth - 11)]
    BY DEF Popped
  <2> HIDE DEF t, s, depth
  <2>5. /\ Len(s) >= b + 16
        /\ \A n \in 1 .. 5 : s[b + n] = TrapWord(c, Level(c), "context", n)
        /\ \A n \in 1 .. 9 : s[b + 7 + n] = TrapWord(c, Level(c), "register", n)
    BY <2>3 DEF FrameOK
  <2>6. SubSeq(s, b + 1, b + 5) = ContextOf(c, Level(c)) /\ SubSeq(s, b + 8, b + 16) = RegistersOf(c, Level(c))
    BY <2>3, <2>5, FrameWords
  <2>7. depth - 8 = b + 8 /\ depth = b + 16 /\ depth - 15 = b + 1 /\ depth - 11 = b + 5
    BY <2>3
  <2> QED BY <2>4, <2>6, <2>7
<1>5. OneDoubleFaultIsReported
  <2> DEFINE R == {c \in TrapCpus : Level(c) > 0 /\ Trap(c).vector = DoubleFault
                                    /\ (Trap(c).stage = "fatal" \/ cpuState[c].mode = "panicked")}
  <2>1. \A c \in R : c \in TrapCpus /\ Reports(cpuState[c])
    BY TopIs DEF Reports
  <2>2. \A c, d \in R : c = d
    BY <1>1, <2>1 DEF TrapInv, ReportInv
  <2> HIDE DEF R
  <2>3. R = {} \/ \E c : R = {c}
    BY <2>2
  <2>4. Cardinality(R) <= 1
    <3>1. CASE R = {}
      BY <3>1, FS_EmptySet
    <3>2. ASSUME NEW c, R = {c} PROVE Cardinality(R) <= 1
      <4>1. Cardinality({c}) = 1
        BY FS_Singleton
      <4> QED BY <3>2, <4>1
    <3> QED BY <2>3, <3>1, <3>2
  <2> QED BY <2>4 DEF OneDoubleFaultIsReported, R
<1>6. LinesReachTheirHandlers
  <2>1. SUFFICES ASSUME \A i \in 1 .. Level(0) : cpuState[0].traps[i].vector < PicBase
                 PROVE  (\A l \in PicLines : trapCounts[l] = acked[l]) /\ pic.isr = {}
    BY DEF LinesReachTheirHandlers
  <2>2. ~StageIs(0, "handler")
    <3>1. SUFFICES ASSUME StageIs(0, "handler") PROVE FALSE
      OBVIOUS
    <3>2. 0 \in TrapCpus /\ Level(0) > 0 /\ Trap(0).stage = "handler"
      BY <3>1, TrapConstants DEF StageIs
    <3>3. TrapOK(0, Trap(0)) /\ Level(0) \in Nat
      BY <1>1, <3>2, TopFacts
    <3>4. Trap(0).vector \in PicBase .. PicBase + 15 /\ Level(0) \in 1 .. Level(0)
      BY <3>2, <3>3 DEF TrapOK
    <3>5. Trap(0) = cpuState[0].traps[Level(0)]
      BY TopIs
    <3> QED BY <2>1, <3>4, <3>5 DEF PicBase
  <2> QED BY <1>1, <2>2 DEF TrapInv, PicInv
<1> QED BY <1>3, <1>4, <1>5, <1>6 DEF TrapsAreExact

\* On any number of CPUs, with any exceptions that have a gate, nested in any way, and any lines
\* of the PIC, generic_trap() gets right arguments, a trap that returns restores what it
\* interrupted, one double fault at most is reported, and every interrupt is counted for its line.
THEOREM TrapsAreAlwaysExact == TrapSpec => []TrapsAreExact
<1>1. TrapSpec => []TrapInv
  BY TrapsStart, TrapsStep, PTL DEF TrapSpec
<1> QED BY <1>1, TrapsHold, PTL
=============================================================================
