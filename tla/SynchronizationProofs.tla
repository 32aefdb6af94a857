------------------------ MODULE SynchronizationProofs ------------------------
(***************************************************************************)
(* Proofs about what processors and interrupt handlers share.              *)
(*                                                                         *)
(* The synchronization primitives, for any set of CPUs, locks and values:  *)
(* Spinlock and IrqSpinlock exclude, an interrupt handler never waits for  *)
(* the code under it, interrupts follow the guards, and a OnceLock is set  *)
(* once.                                                                   *)
(*                                                                         *)
(* The clocks, for any number of ticks, any length of a minute and any     *)
(* number of attempts: Date::read() never accepts a torn date, and a       *)
(* lock-free reader never gets a torn or a useless interval.               *)
(***************************************************************************)
EXTENDS Locks, Clock, FiniteSetTheorems, TLAPS

LockGuard == [lock : SpinLocks, were : BOOLEAN]
LockPcs == {"run", "save", "disable", "check", "take", "knock down", "halted", "restore"}
Context == [pc : LockPcs, lock : SpinLocks, were : BOOLEAN, try : BOOLEAN, guards : Seq(LockGuard)]

SpinTypeOK ==
    /\ locked \in [SpinLocks -> BOOLEAN]
    /\ context \in [Contexts -> Context]
    /\ irqEnabled \in [LockCpus -> BOOLEAN]
    /\ inHandler \in [LockCpus -> BOOLEAN]
    /\ panicking \in BOOLEAN

IrqHeld(c) == \E i \in DOMAIN context[c].guards : context[c].guards[i].lock \in IrqLocks
Calling(c) == context[c].pc \in {"save", "disable", "check", "take", "knock down"}

\* The code holds an IrqSpinlock, or has disabled the interrupts and is about to take one.
Shielded(c) ==
    \/ IrqHeld(c)
    \/ context[c].pc \in {"check", "take", "knock down"} /\ context[c].lock \in IrqLocks

\* Shielded code is not interrupted, and what enables the interrupts again is the outermost
\* IrqGuard of the code, never one of the handler.
IrqInv ==
    /\ \A cpu \in LockCpus : inHandler[cpu] => ~irqEnabled[cpu]
    /\ \A cpu \in LockCpus : Shielded(<<cpu, "code">>) => ~irqEnabled[cpu] /\ ~inHandler[cpu]
    /\ \A c \in Contexts :
        /\ context[c].pc \in {"save", "disable"} => context[c].lock \in IrqLocks
        /\ context[c].were => ~IrqHeld(c)
        /\ \A i, j \in DOMAIN context[c].guards :
              j < i /\ context[c].guards[i].were => context[c].guards[j].lock \notin IrqLocks
        /\ c[2] = "interrupt" =>
              /\ ~context[c].were
              /\ \A i \in DOMAIN context[c].guards : ~context[c].guards[i].were
              /\ Calling(c) => context[c].lock \in IrqLocks

\* While nobody panics a lock is locked as long as one guard of it lives.
ExclusionInv ==
    /\ \A c \in Contexts : context[c].pc = "knock down" => panicking
    /\ ~panicking =>
        /\ \A l \in SpinLocks : locked[l] <=> \E c \in Contexts : HoldsGuard(c, l)
        /\ \A c, d \in Contexts, l \in SpinLocks : HoldsGuard(c, l) /\ HoldsGuard(d, l) => c = d
        /\ \A c \in Contexts : \A i, j \in DOMAIN context[c].guards :
              context[c].guards[i].lock = context[c].guards[j].lock => i = j

SpinInv == SpinTypeOK /\ IrqInv /\ ExclusionInv

\* The thread is inside set(), with the mutex of the OnceLock.
InSet(v) == setter[v].pc \in {"write 1", "write 2", "initialized", "refused"}
OnceValue == OnceValues \cup {0}
Setter == [pc : {"set", "write 1", "write 2", "initialized", "refused", "get", "read 1", "read 2", "done"},
           result : {"none", "Ok", "InvalidArgument"}, got : OnceValue \X OnceValue]

OnceTypeOK ==
    /\ once \in [mutex : BOOLEAN, initialized : BOOLEAN, data : OnceValue \X OnceValue]
    /\ setter \in [OnceValues -> Setter]

\* The data belongs to the thread that writes it, then to the one that got Ok, and is not written
\* any more once the flag is set.
OnceInv ==
    /\ OnceTypeOK
    /\ \A v \in OnceValues : InSet(v) => once.mutex
    /\ \A v, w \in OnceValues : InSet(v) /\ InSet(w) => v = w
    /\ \A v \in OnceValues :
        /\ setter[v].pc \in {"write 1", "write 2", "initialized"} => ~once.initialized
        /\ setter[v].pc = "refused" => once.initialized
        /\ setter[v].pc = "write 2" => once.data[1] = v
        /\ setter[v].pc = "initialized" => once.data = <<v, v>>
        /\ setter[v].result = "Ok" => once.initialized /\ once.data = <<v, v>>
        /\ setter[v].result = "InvalidArgument" => once.initialized
        /\ setter[v].pc \in {"read 1", "read 2", "done"} => once.initialized
        /\ setter[v].pc = "read 2" => setter[v].got[1] = once.data[1]
        /\ setter[v].pc = "done" => setter[v].got = once.data
-----------------------------------------------------------------------------
\* What becomes of the thread that calls set() and get(), and of the others.
OthersStay(v) == \A w \in OnceValues : w # v => setter'[w] = setter[w]

\* A step of set() or get(), as what becomes of the fields.
LEMMA OnceSteps ==
  ASSUME OnceTypeOK, NEW v \in OnceValues, OnceStep(v) \/ OnceGet(v)
  PROVE  /\ OnceTypeOK' /\ OthersStay(v)
         /\ \/ /\ setter[v].pc = "set" /\ ~once.mutex /\ once'.mutex
               /\ once'.initialized = once.initialized /\ once'.data = once.data
               /\ setter'[v].pc = IF once.initialized THEN "refused" ELSE "write 1"
               /\ setter'[v].result = setter[v].result
            \/ /\ setter[v].pc = "write 1" /\ setter'[v].pc = "write 2" /\ once'.mutex = once.mutex
               /\ once'.initialized = once.initialized /\ once'.data[1] = v
               /\ setter'[v].result = setter[v].result
            \/ /\ setter[v].pc = "write 2" /\ setter'[v].pc = "initialized" /\ once'.mutex = once.mutex
               /\ once'.initialized = once.initialized /\ once'.data = <<once.data[1], v>>
               /\ setter'[v].result = setter[v].result
            \/ /\ setter[v].pc = "initialized" /\ setter'[v].pc = "get" /\ once'.initialized
               /\ once'.data = once.data
            \/ /\ setter[v].pc = "refused" /\ setter'[v].pc = "get" /\ setter'[v].result = "InvalidArgument"
               /\ once'.initialized = once.initialized /\ once'.data = once.data
            \/ /\ setter[v].pc = "get" /\ once' = once /\ setter'[v].result = setter[v].result
               /\ setter'[v].pc = "get" \/ (once.initialized /\ setter'[v].pc = "read 1")
            \/ /\ setter[v].pc = "read 1" /\ setter'[v].pc = "read 2" /\ once' = once
               /\ setter'[v].result = setter[v].result /\ setter'[v].got[1] = once.data[1]
            \/ /\ setter[v].pc = "read 2" /\ setter'[v].pc = "done" /\ once' = once
               /\ setter'[v].result = setter[v].result /\ setter'[v].got = <<setter[v].got[1], once.data[2]>>
<1>0. /\ once \in [mutex : BOOLEAN, initialized : BOOLEAN, data : OnceValue \X OnceValue]
      /\ setter \in [OnceValues -> Setter] /\ setter[v] \in Setter
      /\ once.data \in OnceValue \X OnceValue /\ setter[v].got \in OnceValue \X OnceValue
      /\ v \in OnceValue
  BY DEF OnceTypeOK, Setter, OnceValue
<1>a. ASSUME NEW s \in Setter, setter' = [setter EXCEPT ![v] = s]
      PROVE  setter' \in [OnceValues -> Setter] /\ setter'[v] = s /\ OthersStay(v)
  BY <1>0, <1>a DEF OthersStay
<1>b. \A d \in OnceValue \X OnceValue, x \in OnceValue :
         /\ [d EXCEPT ![1] = x] = <<x, d[2]>> /\ [d EXCEPT ![2] = x] = <<d[1], x>>
         /\ d[1] \in OnceValue /\ d[2] \in OnceValue
  OBVIOUS
<1>1. CASE /\ SetterAt(v, "set") /\ ~once.mutex
           /\ once' = [once EXCEPT !.mutex = TRUE]
           /\ setter' = [setter EXCEPT ![v].pc = IF OnceRefuses THEN "refused" ELSE "write 1"]
  <2>1. once' \in [mutex : BOOLEAN, initialized : BOOLEAN, data : OnceValue \X OnceValue]
        /\ once'.mutex /\ once'.initialized = once.initialized /\ once'.data = once.data
    BY <1>0, <1>1
  <2> DEFINE s == [setter[v] EXCEPT !.pc = IF once.initialized THEN "refused" ELSE "write 1"]
  <2>2. s \in Setter /\ s.pc = (IF once.initialized THEN "refused" ELSE "write 1") /\ s.result = setter[v].result
    BY <1>0 DEF Setter
  <2>3. setter' = [setter EXCEPT ![v] = s]
    BY <1>0, <1>1 DEF OnceRefuses
  <2> HIDE DEF s
  <2> QED
    BY <1>1, <1>a, <2>1, <2>2, <2>3 DEF OnceTypeOK, SetterAt
<1>2. CASE /\ SetterAt(v, "write 1")
           /\ once' = [once EXCEPT !.data[1] = v]
           /\ setter' = [setter EXCEPT ![v].pc = "write 2"]
  <2>1. once'.mutex = once.mutex /\ once'.initialized = once.initialized /\ once'.data = [once.data EXCEPT ![1] = v]
    BY <1>0, <1>2
  <2>2. once' = [mutex |-> once.mutex, initialized |-> once.initialized, data |-> [once.data EXCEPT ![1] = v]]
    BY <1>0, <1>2
  <2>3. once' \in [mutex : BOOLEAN, initialized : BOOLEAN, data : OnceValue \X OnceValue]
    BY <1>0, <1>b, <2>2
  <2> DEFINE s == [setter[v] EXCEPT !.pc = "write 2"]
  <2>4. s \in Setter /\ s.pc = "write 2" /\ s.result = setter[v].result
    BY <1>0 DEF Setter
  <2>5. setter' = [setter EXCEPT ![v] = s]
    BY <1>0, <1>2
  <2>6. once'.data[1] = v
    BY <1>0, <1>b, <2>1
  <2> HIDE DEF s
  <2> QED
    BY <1>2, <1>a, <2>1, <2>3, <2>4, <2>5, <2>6 DEF OnceTypeOK, SetterAt
<1>3. CASE /\ SetterAt(v, "write 2")
           /\ once' = [once EXCEPT !.data[2] = v]
           /\ setter' = [setter EXCEPT ![v].pc = "initialized"]
  <2>2. once' = [mutex |-> once.mutex, initialized |-> once.initialized, data |-> [once.data EXCEPT ![2] = v]]
    BY <1>0, <1>3
  <2>3. [once.data EXCEPT ![2] = v] = <<once.data[1], v>> /\ <<once.data[1], v>> \in OnceValue \X OnceValue
    BY <1>0, <1>b
  <2>4. once' \in [mutex : BOOLEAN, initialized : BOOLEAN, data : OnceValue \X OnceValue]
        /\ once'.mutex = once.mutex /\ once'.initialized = once.initialized /\ once'.data = <<once.data[1], v>>
    BY <1>0, <2>2, <2>3
  <2> DEFINE s == [setter[v] EXCEPT !.pc = "initialized"]
  <2>5. s \in Setter /\ s.pc = "initialized" /\ s.result = setter[v].result
    BY <1>0 DEF Setter
  <2>6. setter' = [setter EXCEPT ![v] = s]
    BY <1>0, <1>3
  <2> HIDE DEF s
  <2> QED
    BY <1>3, <1>a, <2>4, <2>5, <2>6 DEF OnceTypeOK, SetterAt
<1>4. CASE /\ SetterAt(v, "initialized")
           /\ once' = [once EXCEPT !.initialized = TRUE, !.mutex = FALSE]
           /\ setter' = [setter EXCEPT ![v].pc = "get", ![v].result = "Ok"]
  <2>1. once' \in [mutex : BOOLEAN, initialized : BOOLEAN, data : OnceValue \X OnceValue]
        /\ once'.initialized /\ once'.data = once.data
    BY <1>0, <1>4
  <2> DEFINE s == [setter[v] EXCEPT !.pc = "get", !.result = "Ok"]
  <2>2. s \in Setter /\ s.pc = "get" /\ s.result = "Ok"
    BY <1>0 DEF Setter
  <2>3. setter' = [setter EXCEPT ![v] = s]
    BY <1>0, <1>4
  <2> HIDE DEF s
  <2> QED
    BY <1>4, <1>a, <2>1, <2>2, <2>3 DEF OnceTypeOK, SetterAt
<1>5. CASE /\ SetterAt(v, "refused")
           /\ once' = [once EXCEPT !.mutex = FALSE]
           /\ setter' = [setter EXCEPT ![v].pc = "get", ![v].result = "InvalidArgument"]
  <2>1. once' \in [mutex : BOOLEAN, initialized : BOOLEAN, data : OnceValue \X OnceValue]
        /\ once'.initialized = once.initialized /\ once'.data = once.data
    BY <1>0, <1>5
  <2> DEFINE s == [setter[v] EXCEPT !.pc = "get", !.result = "InvalidArgument"]
  <2>2. s \in Setter /\ s.pc = "get" /\ s.result = "InvalidArgument"
    BY <1>0 DEF Setter
  <2>3. setter' = [setter EXCEPT ![v] = s]
    BY <1>0, <1>5
  <2> HIDE DEF s
  <2> QED
    BY <1>5, <1>a, <2>1, <2>2, <2>3 DEF OnceTypeOK, SetterAt
<1>6. CASE /\ SetterAt(v, "get") /\ once' = once
           /\ setter' = [setter EXCEPT ![v].pc = IF once.initialized THEN "read 1" ELSE "get"]
  <2> DEFINE s == [setter[v] EXCEPT !.pc = IF once.initialized THEN "read 1" ELSE "get"]
  <2>2. s \in Setter /\ s.pc = (IF once.initialized THEN "read 1" ELSE "get") /\ s.result = setter[v].result
    BY <1>0 DEF Setter
  <2>3. setter' = [setter EXCEPT ![v] = s]
    BY <1>0, <1>6
  <2> HIDE DEF s
  <2> QED
    BY <1>0, <1>6, <1>a, <2>2, <2>3 DEF OnceTypeOK, SetterAt
<1>7. CASE /\ SetterAt(v, "read 1") /\ once' = once
           /\ setter' = [setter EXCEPT ![v].pc = "read 2", ![v].got[1] = once.data[1]]
  <2> DEFINE s == [setter[v] EXCEPT !.pc = "read 2", !.got = <<once.data[1], setter[v].got[2]>>]
  <2>1. <<once.data[1], setter[v].got[2]>> \in OnceValue \X OnceValue
    BY <1>0, <1>b
  <2>2. s \in Setter /\ s.pc = "read 2" /\ s.result = setter[v].result /\ s.got = <<once.data[1], setter[v].got[2]>>
    BY <1>0, <2>1 DEF Setter
  <2>3. setter' = [setter EXCEPT ![v] = s]
    <3>1. [setter[v].got EXCEPT ![1] = once.data[1]] = <<once.data[1], setter[v].got[2]>>
      BY <1>0, <1>b
    <3>2. setter' = [setter EXCEPT ![v] = [setter[v] EXCEPT !.pc = "read 2", !.got = [setter[v].got EXCEPT ![1] = once.data[1]]]]
      BY <1>0, <1>7 DEF Setter
    <3> QED
      BY <3>1, <3>2
  <2>4. s.got[1] = once.data[1]
    BY <2>2
  <2> HIDE DEF s
  <2> QED
    BY <1>0, <1>7, <1>a, <2>2, <2>3, <2>4 DEF OnceTypeOK, SetterAt
<1>8. CASE /\ SetterAt(v, "read 2") /\ once' = once
           /\ setter' = [setter EXCEPT ![v].pc = "done", ![v].got[2] = once.data[2]]
  <2> DEFINE s == [setter[v] EXCEPT !.pc = "done", !.got = <<setter[v].got[1], once.data[2]>>]
  <2>1. <<setter[v].got[1], once.data[2]>> \in OnceValue \X OnceValue
    BY <1>0, <1>b
  <2>2. s \in Setter /\ s.pc = "done" /\ s.result = setter[v].result /\ s.got = <<setter[v].got[1], once.data[2]>>
    BY <1>0, <2>1 DEF Setter
  <2>3. setter' = [setter EXCEPT ![v] = s]
    <3>1. [setter[v].got EXCEPT ![2] = once.data[2]] = <<setter[v].got[1], once.data[2]>>
      BY <1>0, <1>b
    <3>2. setter' = [setter EXCEPT ![v] = [setter[v] EXCEPT !.pc = "done", !.got = [setter[v].got EXCEPT ![2] = once.data[2]]]]
      BY <1>0, <1>8 DEF Setter
    <3> QED
      BY <3>1, <3>2
  <2> HIDE DEF s
  <2> QED
    BY <1>0, <1>8, <1>a, <2>2, <2>3 DEF OnceTypeOK, SetterAt
<1> QED
  BY <1>1, <1>2, <1>3, <1>4, <1>5, <1>6, <1>7, <1>8 DEF OnceStep, OnceGet

\* Every step of set() and get() keeps the invariant of the OnceLock.
LEMMA OncePreserved ==
  ASSUME OnceInv, [LocksNext]_lockVars
  PROVE  OnceInv'
<1>1. CASE UNCHANGED <<once, setter>>
  BY <1>1 DEF OnceInv, OnceTypeOK, InSet
<1>2. ASSUME NEW v \in OnceValues, OnceStep(v) \/ OnceGet(v)
      PROVE  OnceInv'
  <2>0. OnceTypeOK
    BY DEF OnceInv
  <2>1. OnceTypeOK' /\ \A w \in OnceValues : w # v => setter'[w] = setter[w]
    BY <1>2, <2>0, OnceSteps DEF OthersStay
  <2>2. \A d \in OnceValue \X OnceValue : d = <<d[1], d[2]>>
    OBVIOUS
  <2>3. setter[v] \in Setter /\ once.data \in OnceValue \X OnceValue
    BY <2>0 DEF OnceTypeOK
  <2>4. CASE /\ setter[v].pc = "set" /\ ~once.mutex /\ once'.mutex
             /\ once'.initialized = once.initialized /\ once'.data = once.data
             /\ setter'[v].pc = IF once.initialized THEN "refused" ELSE "write 1"
             /\ setter'[v].result = setter[v].result
    BY ZenonT(30), <2>1, <2>4 DEF OnceInv, InSet
  <2>5. CASE /\ setter[v].pc = "write 1" /\ setter'[v].pc = "write 2" /\ once'.mutex = once.mutex
             /\ once'.initialized = once.initialized /\ once'.data[1] = v
             /\ setter'[v].result = setter[v].result
    BY ZenonT(30), <2>1, <2>5 DEF OnceInv, InSet
  <2>6. CASE /\ setter[v].pc = "write 2" /\ setter'[v].pc = "initialized" /\ once'.mutex = once.mutex
             /\ once'.initialized = once.initialized /\ once'.data = <<once.data[1], v>>
             /\ setter'[v].result = setter[v].result
    BY ZenonT(30), <2>1, <2>6 DEF OnceInv, InSet
  <2>7. CASE /\ setter[v].pc = "initialized" /\ setter'[v].pc = "get" /\ once'.initialized
             /\ once'.data = once.data
    BY ZenonT(30), <2>1, <2>7 DEF OnceInv, InSet
  <2>8. CASE /\ setter[v].pc = "refused" /\ setter'[v].pc = "get" /\ setter'[v].result = "InvalidArgument"
             /\ once'.initialized = once.initialized /\ once'.data = once.data
    BY <2>1, <2>8 DEF OnceInv, InSet
  <2>9. CASE /\ setter[v].pc = "get" /\ once' = once /\ setter'[v].result = setter[v].result
             /\ setter'[v].pc = "get" \/ (once.initialized /\ setter'[v].pc = "read 1")
    BY <2>1, <2>9 DEF OnceInv, InSet
  <2>10. CASE /\ setter[v].pc = "read 1" /\ setter'[v].pc = "read 2" /\ once' = once
              /\ setter'[v].result = setter[v].result /\ setter'[v].got[1] = once.data[1]
    BY <2>1, <2>10 DEF OnceInv, InSet
  <2>11. CASE /\ setter[v].pc = "read 2" /\ setter'[v].pc = "done" /\ once' = once
              /\ setter'[v].result = setter[v].result /\ setter'[v].got = <<setter[v].got[1], once.data[2]>>
    <3>1. setter'[v].got = once.data
      BY <2>2, <2>3, <2>11 DEF OnceInv
    <3> QED
      BY <2>1, <2>11, <3>1 DEF OnceInv, InSet
  <2>12. \/ /\ setter[v].pc = "set" /\ ~once.mutex /\ once'.mutex
            /\ once'.initialized = once.initialized /\ once'.data = once.data
            /\ setter'[v].pc = IF once.initialized THEN "refused" ELSE "write 1"
            /\ setter'[v].result = setter[v].result
         \/ /\ setter[v].pc = "write 1" /\ setter'[v].pc = "write 2" /\ once'.mutex = once.mutex
            /\ once'.initialized = once.initialized /\ once'.data[1] = v
            /\ setter'[v].result = setter[v].result
         \/ /\ setter[v].pc = "write 2" /\ setter'[v].pc = "initialized" /\ once'.mutex = once.mutex
            /\ once'.initialized = once.initialized /\ once'.data = <<once.data[1], v>>
            /\ setter'[v].result = setter[v].result
         \/ /\ setter[v].pc = "initialized" /\ setter'[v].pc = "get" /\ once'.initialized
            /\ once'.data = once.data
         \/ /\ setter[v].pc = "refused" /\ setter'[v].pc = "get" /\ setter'[v].result = "InvalidArgument"
            /\ once'.initialized = once.initialized /\ once'.data = once.data
         \/ /\ setter[v].pc = "get" /\ once' = once /\ setter'[v].result = setter[v].result
            /\ setter'[v].pc = "get" \/ (once.initialized /\ setter'[v].pc = "read 1")
         \/ /\ setter[v].pc = "read 1" /\ setter'[v].pc = "read 2" /\ once' = once
            /\ setter'[v].result = setter[v].result /\ setter'[v].got[1] = once.data[1]
         \/ /\ setter[v].pc = "read 2" /\ setter'[v].pc = "done" /\ once' = once
            /\ setter'[v].result = setter[v].result /\ setter'[v].got = <<setter[v].got[1], once.data[2]>>
    BY <1>2, <2>0, OnceSteps
  <2> QED
    BY <2>4, <2>5, <2>6, <2>7, <2>8, <2>9, <2>10, <2>11, <2>12, ZenonT(60)
<1> QED
  BY <1>1, <1>2 DEF LocksNext, SpinNext, lockVars

\* Of the threads that call set() one gets Ok and the others InvalidArgument, and get() returns
\* the value of that one, whole: for any number of threads.
THEOREM OnceIsAlwaysSetOnce == LocksSpec => []OnceIsSetOnce
<1>1. LocksInit => OnceInv
  <2> SUFFICES ASSUME LocksInit PROVE OnceInv
    OBVIOUS
  <2>1. /\ once = [mutex |-> FALSE, initialized |-> FALSE, data |-> <<0, 0>>]
        /\ setter = [v \in OnceValues |-> [pc |-> "set", result |-> "none", got |-> <<0, 0>>]]
    BY DEF LocksInit, Unset
  <2>2. <<0, 0>> \in OnceValue \X OnceValue
    BY DEF OnceValue
  <2>3. [pc |-> "set", result |-> "none", got |-> <<0, 0>>] \in Setter
    BY <2>2 DEF Setter
  <2>4. OnceTypeOK
    BY <2>1, <2>2, <2>3 DEF OnceTypeOK
  <2>5. \A v \in OnceValues : setter[v].pc = "set" /\ setter[v].result = "none"
    BY <2>1
  <2> QED
    BY <2>4, <2>5 DEF OnceInv, InSet
<1>2. OnceInv /\ [LocksNext]_lockVars => OnceInv'
  BY OncePreserved
<1>3. OnceInv => OnceIsSetOnce
  <2> SUFFICES ASSUME OnceInv PROVE OnceIsSetOnce
    OBVIOUS
  <2> DEFINE Oks == {v \in OnceValues : setter[v].result = "Ok"}
  <2>1. ASSUME NEW v \in Oks, NEW w \in Oks PROVE v = w
    <3>1. once.data = <<v, v>> /\ once.data = <<w, w>>
      BY DEF OnceInv
    <3> QED
      BY <3>1
  <2> HIDE DEF Oks
  <2>4. Cardinality(Oks) <= 1
    <3>1. Oks = {} => Cardinality(Oks) = 0
      BY FS_EmptySet
    <3>2. Oks # {} => Cardinality(Oks) = 1
      <4>1. SUFFICES ASSUME Oks # {} PROVE Cardinality(Oks) = 1
        OBVIOUS
      <4>2. PICK v \in Oks : TRUE
        BY <4>1
      <4>3. Oks = {v}
        BY <2>1, <4>2
      <4> QED
        BY <4>3, FS_Singleton
    <3> QED
      BY <3>1, <3>2
  <2>5. \A v, w \in OnceValues : setter[v].pc = "done" /\ setter[w].result = "Ok" => setter[v].got = <<w, w>>
    BY DEF OnceInv
  <2>6. \A v \in OnceValues : setter[v].result = "InvalidArgument" => once.initialized
    BY DEF OnceInv
  <2> QED
    BY <2>4, <2>5, <2>6 DEF OnceIsSetOnce, Oks
<1> QED
  BY <1>1, <1>2, <1>3, PTL DEF LocksSpec
-----------------------------------------------------------------------------
\* The fields of the context c after a step, the others as they were.
Becomes(c, pc, lock, were, guards) ==
    /\ context' \in [Contexts -> Context]
    /\ \A d \in Contexts : d # c => context'[d] = context[d]
    /\ context'[c].pc = pc /\ context'[c].lock = lock
    /\ context'[c].were = were /\ context'[c].guards = guards

\* There is a lock to start with, and an IrqSpinlock is one of the locks.
LEMMA LocksExist == LockOrder[1] \in SpinLocks /\ IrqLocks \subseteq SpinLocks
  BY LockConstants DEF SpinLocks, Range

\* What becomes of the contexts when one of them has a new state.
LEMMA RecordBecomes ==
  ASSUME SpinTypeOK, NEW c \in Contexts, NEW r \in Context, context' = [context EXCEPT ![c] = r]
  PROVE  Becomes(c, r.pc, r.lock, r.were, r.guards)
  BY DEF SpinTypeOK, Becomes

\* The fields of a context.
LEMMA ContextFields ==
  ASSUME SpinTypeOK, NEW c \in Contexts
  PROVE  LET x == context[c] IN
         /\ x \in Context
         /\ x.pc \in LockPcs /\ x.lock \in SpinLocks /\ x.were \in BOOLEAN /\ x.try \in BOOLEAN
         /\ x.guards \in Seq(LockGuard)
<1>1. context[c] \in Context
  BY DEF SpinTypeOK
<1> QED
  BY <1>1 DEF Context

\* Guards are put at the end and taken from there.
LEMMA GuardSequences ==
  ASSUME NEW guards \in Seq(LockGuard)
  PROVE  /\ \A g \in LockGuard :
              /\ Append(guards, g) \in Seq(LockGuard)
              /\ DOMAIN Append(guards, g) = DOMAIN guards \cup {Len(guards) + 1}
              /\ Len(guards) + 1 \notin DOMAIN guards
              /\ Append(guards, g)[Len(guards) + 1] = g
              /\ \A i \in DOMAIN guards : Append(guards, g)[i] = guards[i] /\ i < Len(guards) + 1
         /\ guards # <<>> =>
              /\ Front(guards) \in Seq(LockGuard)
              /\ Last(guards) = guards[Len(guards)] /\ Len(guards) \in DOMAIN guards
              /\ Last(guards) \in LockGuard
              /\ DOMAIN Front(guards) = DOMAIN guards \ {Len(guards)}
              /\ \A i \in DOMAIN Front(guards) : Front(guards)[i] = guards[i] /\ i < Len(guards)
  BY DEF Front, Last

\* Each step of a context as the fields that it leaves.
LEMMA SpinSteps ==
  ASSUME SpinTypeOK, NEW c \in Contexts
  PROVE  LET x == context[c] IN
         /\ \A l \in SpinLocks, try \in BOOLEAN : CallLock(c, l, try) =>
               Becomes(c, IF l \in IrqLocks THEN "save" ELSE "check", l, FALSE, x.guards)
         /\ IrqGuardSaves(c) => Becomes(c, "disable", x.lock, irqEnabled[c[1]], x.guards)
         /\ IrqGuardDisables(c) => Becomes(c, "check", x.lock, x.were, x.guards)
         /\ CheckPanicking(c) => \E pc \in {"take", "knock down", "halted"} :
               (pc = "knock down" => panicking) /\ Becomes(c, pc, x.lock, x.were, x.guards)
         /\ Take(c) => Becomes(c, "run", LockOrder[1], FALSE, Append(x.guards, Guard(x.lock, x.were)))
         /\ TryLockFails(c) \/ DropIrqGuard(c) => Becomes(c, "run", LockOrder[1], FALSE, x.guards)
         /\ DropGuard(c) => Becomes(c, "restore", x.lock, Last(x.guards).were, Front(x.guards))
<1> DEFINE x == context[c]
<1>0. context \in [Contexts -> Context] /\ x \in Context
  BY ContextFields DEF SpinTypeOK
<1>a. ASSUME NEW pc \in LockPcs, context' = [context EXCEPT ![c].pc = pc]
      PROVE  Becomes(c, pc, x.lock, x.were, x.guards)
  <2> DEFINE r == [x EXCEPT !.pc = pc]
  <2>1. r \in Context /\ r.pc = pc /\ r.lock = x.lock /\ r.were = x.were /\ r.guards = x.guards
    BY <1>0 DEF Context
  <2>2. context' = [context EXCEPT ![c] = r]
    BY <1>a
  <2> HIDE DEF r
  <2> QED
    BY <2>1, <2>2, RecordBecomes
<1>b. ASSUME NEW guards \in Seq(LockGuard), context' = [context EXCEPT ![c] = Running(guards)]
      PROVE  Becomes(c, "run", LockOrder[1], FALSE, guards)
  <2>1. Running(guards) \in Context /\ Running(guards).pc = "run" /\ Running(guards).lock = LockOrder[1]
        /\ Running(guards).were = FALSE /\ Running(guards).guards = guards
    BY LocksExist DEF Running, Context, LockPcs
  <2> QED
    BY <1>b, <2>1, RecordBecomes
<1>3. ASSUME NEW l \in SpinLocks, NEW try \in BOOLEAN, CallLock(c, l, try)
      PROVE  Becomes(c, IF l \in IrqLocks THEN "save" ELSE "check", l, FALSE, x.guards)
  <2> DEFINE pc == IF l \in IrqLocks THEN "save" ELSE "check"
             r == [x EXCEPT !.pc = pc, !.lock = l, !.try = try, !.were = FALSE]
  <2>1. context' = [context EXCEPT ![c] = r]
    BY <1>3 DEF CallLock
  <2>2. pc \in LockPcs
    BY DEF LockPcs
  <2> HIDE DEF pc
  <2>3. r \in Context
    BY <1>0, <2>2 DEF Context
  <2>4. r.pc = pc /\ r.lock = l /\ r.were = FALSE /\ r.guards = x.guards
    BY <1>0 DEF Context
  <2> HIDE DEF r
  <2>5. Becomes(c, pc, l, FALSE, x.guards)
    BY <2>1, <2>3, <2>4, RecordBecomes
  <2> QED
    BY <2>5 DEF pc
<1>4. ASSUME IrqGuardSaves(c)
      PROVE  Becomes(c, "disable", x.lock, irqEnabled[c[1]], x.guards)
  <2> DEFINE were == irqEnabled[c[1]]
             r == [x EXCEPT !.pc = "disable", !.were = were]
  <2>1. context' = [context EXCEPT ![c] = r]
    BY <1>4 DEF IrqGuardSaves
  <2>2. were \in BOOLEAN
    BY DEF SpinTypeOK, Contexts
  <2> HIDE DEF were
  <2>3. r \in Context
    BY <1>0, <2>2 DEF Context, LockPcs
  <2>4. r.pc = "disable" /\ r.lock = x.lock /\ r.were = were /\ r.guards = x.guards
    BY <1>0 DEF Context
  <2> HIDE DEF r
  <2>5. Becomes(c, "disable", x.lock, were, x.guards)
    BY <2>1, <2>3, <2>4, RecordBecomes
  <2> QED
    BY <2>5 DEF were
<1>5. ASSUME IrqGuardDisables(c)
      PROVE  Becomes(c, "check", x.lock, x.were, x.guards)
  BY <1>a, <1>5 DEF IrqGuardDisables, ToPc, LockPcs
<1>6. ASSUME CheckPanicking(c)
      PROVE  \E pc \in {"take", "knock down", "halted"} :
               (pc = "knock down" => panicking) /\ Becomes(c, pc, x.lock, x.were, x.guards)
  <2>1. PICK pc \in {"take", "knock down", "halted"} :
           (pc = "knock down" => panicking) /\ context' = [context EXCEPT ![c].pc = pc]
    BY <1>6 DEF CheckPanicking, ToPc
  <2>2. pc \in LockPcs
    BY DEF LockPcs
  <2>3. Becomes(c, pc, x.lock, x.were, x.guards)
    BY <1>a, <2>1, <2>2
  <2> QED
    BY <2>1, <2>3
<1>7. ASSUME Take(c)
      PROVE  Becomes(c, "run", LockOrder[1], FALSE, Append(x.guards, Guard(x.lock, x.were)))
  <2>1. Guard(x.lock, x.were) \in LockGuard /\ x.guards \in Seq(LockGuard)
    BY ContextFields DEF Guard, LockGuard
  <2>2. Append(x.guards, Guard(x.lock, x.were)) \in Seq(LockGuard)
    BY <2>1, GuardSequences
  <2>3. context' = [context EXCEPT ![c] = Running(Append(x.guards, Guard(x.lock, x.were)))]
    BY <1>7 DEF Take
  <2> QED
    BY <1>b, <2>2, <2>3
<1>8. ASSUME TryLockFails(c) \/ DropIrqGuard(c)
      PROVE  Becomes(c, "run", LockOrder[1], FALSE, x.guards)
  <2>1. context' = [context EXCEPT ![c] = Running(x.guards)] /\ x.guards \in Seq(LockGuard)
    BY <1>8, ContextFields DEF TryLockFails, DropIrqGuard, Resume
  <2> QED
    BY <1>b, <2>1
<1>9. ASSUME DropGuard(c)
      PROVE  Becomes(c, "restore", x.lock, Last(x.guards).were, Front(x.guards))
  <2> DEFINE front == Front(x.guards)
             were == Last(x.guards).were
             r == [x EXCEPT !.guards = front, !.were = were, !.pc = "restore"]
  <2>1. context' = [context EXCEPT ![c] = r]
    BY <1>9 DEF DropGuard
  <2>2. x.guards \in Seq(LockGuard) /\ x.guards # <<>>
    BY <1>9, ContextFields DEF DropGuard
  <2>3. front \in Seq(LockGuard) /\ Last(x.guards) \in LockGuard
    BY <2>2, GuardSequences
  <2>4. were \in BOOLEAN
    BY <2>3 DEF LockGuard
  <2> HIDE DEF front, were
  <2>5. r \in Context
    BY <1>0, <2>3, <2>4 DEF Context, LockPcs
  <2>6. r.pc = "restore" /\ r.lock = x.lock /\ r.were = were /\ r.guards = front
    BY <1>0 DEF Context
  <2> HIDE DEF r
  <2>7. Becomes(c, "restore", x.lock, were, front)
    BY <2>1, <2>5, <2>6, RecordBecomes
  <2> QED
    BY <2>7 DEF were, front
<1> QED
  BY <1>3, <1>4, <1>5, <1>6, <1>7, <1>8, <1>9

\* Every step of the locks keeps their types.
LEMMA SpinTypesPreserved ==
  ASSUME SpinTypeOK, [LocksNext]_lockVars
  PROVE  SpinTypeOK'
<1>1. CASE UNCHANGED spinVars
  BY <1>1 DEF SpinTypeOK, spinVars
<1>2. ASSUME NEW c \in Contexts, NEW l \in SpinLocks, NEW try \in BOOLEAN, CallLock(c, l, try)
      PROVE  SpinTypeOK'
  <2>1. context' \in [Contexts -> Context]
    BY <1>2, SpinSteps DEF Becomes
  <2> QED
    BY <1>2, <2>1 DEF CallLock, SpinTypeOK
<1>3. ASSUME NEW c \in Contexts, IrqGuardSaves(c)
      PROVE  SpinTypeOK'
  <2>1. context' \in [Contexts -> Context]
    BY <1>3, SpinSteps DEF Becomes
  <2> QED
    BY <1>3, <2>1 DEF IrqGuardSaves, SpinTypeOK
<1>4. ASSUME NEW c \in Contexts, IrqGuardDisables(c)
      PROVE  SpinTypeOK'
  <2>1. context' \in [Contexts -> Context]
    BY <1>4, SpinSteps DEF Becomes
  <2> QED
    BY <1>4, <2>1 DEF IrqGuardDisables, SpinTypeOK
<1>5. ASSUME NEW c \in Contexts, CheckPanicking(c)
      PROVE  SpinTypeOK'
  <2>1. context' \in [Contexts -> Context]
    BY <1>5, SpinSteps DEF Becomes
  <2> QED
    BY <1>5, <2>1 DEF CheckPanicking, SpinTypeOK
<1>6. ASSUME NEW c \in Contexts, Take(c)
      PROVE  SpinTypeOK'
  <2>1. context' \in [Contexts -> Context]
    BY <1>6, SpinSteps DEF Becomes
  <2> QED
    BY <1>6, <2>1 DEF Take, SpinTypeOK
<1>7. ASSUME NEW c \in Contexts, DropGuard(c)
      PROVE  SpinTypeOK'
  <2>1. context' \in [Contexts -> Context]
    BY <1>7, SpinSteps DEF Becomes
  <2> QED
    BY <1>7, <2>1 DEF DropGuard, SpinTypeOK
<1>8. ASSUME NEW c \in Contexts, TryLockFails(c) \/ DropIrqGuard(c)
      PROVE  SpinTypeOK'
  <2>1. context' \in [Contexts -> Context]
    BY <1>8, SpinSteps DEF Becomes
  <2>2. context[c].were \in BOOLEAN
    BY ContextFields
  <2>3. irqEnabled' \in [LockCpus -> BOOLEAN]
    BY <1>8 DEF TryLockFails, DropIrqGuard, SpinTypeOK
  <2> QED
    BY <1>8, <2>1, <2>3 DEF TryLockFails, DropIrqGuard, SpinTypeOK
<1>9. ASSUME NEW c \in Contexts, KnockDown(c), ~Take(c)
      PROVE  SpinTypeOK'
  BY <1>9 DEF KnockDown, SpinTypeOK
<1>10. ASSUME NEW c \in Contexts, StartPanicking(c)
       PROVE  SpinTypeOK'
  BY <1>10 DEF StartPanicking, SpinTypeOK
<1>11. ASSUME NEW cpu \in LockCpus, Interrupt(cpu) \/ InterruptReturns(cpu)
       PROVE  SpinTypeOK'
  BY <1>11 DEF Interrupt, InterruptReturns, SpinTypeOK
<1>12. CASE SpinNext
  BY <1>2, <1>3, <1>4, <1>5, <1>6, <1>7, <1>8, <1>9, <1>10, <1>11, <1>12 DEF SpinNext, TakeLock
<1> QED
  BY <1>1, <1>12 DEF LocksNext, OnceStep, OnceGet, lockVars, spinVars

\* What IrqInv says of one context, with its fields as parameters.
ContextIsShielded(c, pc, lock, were, guards) ==
    /\ pc \in {"save", "disable"} => lock \in IrqLocks
    /\ were => \A i \in DOMAIN guards : guards[i].lock \notin IrqLocks
    /\ \A i, j \in DOMAIN guards : j < i /\ guards[i].were => guards[j].lock \notin IrqLocks
    /\ c[2] = "interrupt" =>
          /\ ~were
          /\ \A i \in DOMAIN guards : ~guards[i].were
          /\ pc \in {"save", "disable", "check", "take", "knock down"} => lock \in IrqLocks

Shields(pc, lock, guards) ==
    \/ \E i \in DOMAIN guards : guards[i].lock \in IrqLocks
    \/ pc \in {"check", "take", "knock down"} /\ lock \in IrqLocks

\* IrqInv holds after a step of c if it holds for the new fields of c and for the flag of its CPU.
LEMMA IrqInvAfter ==
  ASSUME SpinTypeOK, IrqInv, NEW c \in Contexts, NEW pc, NEW lock, NEW were, NEW guards,
         Becomes(c, pc, lock, were, guards), UNCHANGED inHandler,
         irqEnabled' \in [LockCpus -> BOOLEAN],
         \A cpu \in LockCpus : cpu # c[1] => irqEnabled'[cpu] = irqEnabled[cpu],
         inHandler[c[1]] => ~irqEnabled'[c[1]],
         c[2] = "code" /\ Shields(pc, lock, guards) => ~irqEnabled'[c[1]] /\ ~inHandler[c[1]],
         c[2] = "interrupt" => irqEnabled'[c[1]] = irqEnabled[c[1]],
         ContextIsShielded(c, pc, lock, were, guards)
  PROVE  IrqInv'
<1>1. \A cpu \in LockCpus : inHandler'[cpu] => ~irqEnabled'[cpu]
  BY DEF IrqInv
<1>2. c = <<c[1], c[2]>> /\ c[1] \in LockCpus /\ c[2] \in {"code", "interrupt"}
  BY DEF Contexts
<1>3. /\ \A d \in Contexts : d # c => context'[d] = context[d]
      /\ context'[c].pc = pc /\ context'[c].lock = lock /\ context'[c].were = were /\ context'[c].guards = guards
  BY DEF Becomes
<1>4. ASSUME NEW cpu \in LockCpus, Shielded(<<cpu, "code">>)'
      PROVE  ~irqEnabled'[cpu] /\ ~inHandler'[cpu]
  <2>1. <<cpu, "code">> \in Contexts
    BY DEF Contexts
  <2>2. CASE c = <<cpu, "code">>
    BY <1>3, <1>4, <2>2 DEF Shielded, IrqHeld, Shields
  <2>3. CASE c # <<cpu, "code">>
    <3>1. Shielded(<<cpu, "code">>)
      BY <1>3, <1>4, <2>1, <2>3 DEF Shielded, IrqHeld
    <3>2. ~irqEnabled[cpu] /\ ~inHandler[cpu]
      BY <3>1 DEF IrqInv
    <3>3. irqEnabled'[cpu] = irqEnabled[cpu]
      BY <1>2, <2>3
    <3> QED
      BY <3>2, <3>3
  <2> QED
    BY <2>2, <2>3
<1>5. ASSUME NEW d \in Contexts
      PROVE  /\ context'[d].pc \in {"save", "disable"} => context'[d].lock \in IrqLocks
             /\ context'[d].were => ~IrqHeld(d)'
             /\ \A i, j \in DOMAIN context'[d].guards :
                   j < i /\ context'[d].guards[i].were => context'[d].guards[j].lock \notin IrqLocks
             /\ d[2] = "interrupt" =>
                   /\ ~context'[d].were
                   /\ \A i \in DOMAIN context'[d].guards : ~context'[d].guards[i].were
                   /\ Calling(d)' => context'[d].lock \in IrqLocks
  <2>1. CASE d = c
    BY <1>3, <2>1 DEF ContextIsShielded, IrqHeld, Calling
  <2>2. CASE d # c
    <3>1. context'[d] = context[d]
      BY <1>3, <2>2
    <3> QED
      BY <3>1 DEF IrqInv, IrqHeld, Calling
  <2> QED
    BY <2>1, <2>2
<1> QED
  BY <1>1, <1>4, <1>5 DEF IrqInv

\* Every step keeps the shielded code uninterrupted.
LEMMA IrqPreserved ==
  ASSUME SpinTypeOK, IrqInv, [LocksNext]_lockVars
  PROVE  IrqInv'
<1>1. CASE UNCHANGED <<context, irqEnabled, inHandler>>
  BY <1>1 DEF IrqInv, IrqHeld, Calling, Shielded
<1>a. ASSUME NEW c \in Contexts
      PROVE  /\ c[1] \in LockCpus /\ c[2] \in {"code", "interrupt"} /\ c = <<c[1], c[2]>>
             /\ context[c].guards \in Seq(LockGuard)
             /\ ContextIsShielded(c, context[c].pc, context[c].lock, context[c].were, context[c].guards)
             /\ inHandler[c[1]] => ~irqEnabled[c[1]]
             /\ c[2] = "code" /\ Shields(context[c].pc, context[c].lock, context[c].guards) =>
                   ~irqEnabled[c[1]] /\ ~inHandler[c[1]]
             /\ Runs(c) => (inHandler[c[1]] <=> c[2] = "interrupt")
  <2>1. c[1] \in LockCpus /\ c[2] \in {"code", "interrupt"} /\ c = <<c[1], c[2]>>
    BY DEF Contexts
  <2>2. context[c].guards \in Seq(LockGuard)
    BY ContextFields
  <2>3. ContextIsShielded(c, context[c].pc, context[c].lock, context[c].were, context[c].guards)
    BY DEF IrqInv, ContextIsShielded, IrqHeld, Calling
  <2>4. inHandler[c[1]] => ~irqEnabled[c[1]]
    BY <2>1 DEF IrqInv
  <2>5. c[2] = "code" /\ Shields(context[c].pc, context[c].lock, context[c].guards) =>
           ~irqEnabled[c[1]] /\ ~inHandler[c[1]]
    BY <2>1 DEF IrqInv, Shielded, Shields, IrqHeld
  <2>6. Runs(c) => (inHandler[c[1]] <=> c[2] = "interrupt")
    BY <2>1 DEF Runs, SpinTypeOK
  <2> QED
    BY <2>1, <2>2, <2>3, <2>4, <2>5, <2>6
<1>b. irqEnabled \in [LockCpus -> BOOLEAN] /\ inHandler \in [LockCpus -> BOOLEAN]
  BY DEF SpinTypeOK
<1>2. ASSUME NEW c \in Contexts, NEW l \in SpinLocks, NEW try \in BOOLEAN, CallLock(c, l, try)
      PROVE  IrqInv'
  <2> DEFINE pc == IF l \in IrqLocks THEN "save" ELSE "check"
  <2>1. Becomes(c, pc, l, FALSE, context[c].guards) /\ UNCHANGED <<irqEnabled, inHandler>>
    BY <1>2, SpinSteps DEF CallLock
  <2>2. c[2] = "interrupt" => l \in IrqLocks
    BY <1>2 DEF CallLock, MayTake
  <2>3. ContextIsShielded(c, pc, l, FALSE, context[c].guards)
    BY <1>a, <2>2 DEF ContextIsShielded
  <2>4. Shields(pc, l, context[c].guards) => Shields(context[c].pc, context[c].lock, context[c].guards)
    BY DEF Shields
  <2> HIDE DEF pc
  <2> QED
    BY <1>a, <1>b, <2>1, <2>3, <2>4, IrqInvAfter
<1>3. ASSUME NEW c \in Contexts, IrqGuardSaves(c)
      PROVE  IrqInv'
  <2>1. Becomes(c, "disable", context[c].lock, irqEnabled[c[1]], context[c].guards)
        /\ UNCHANGED <<irqEnabled, inHandler>>
    BY <1>3, SpinSteps DEF IrqGuardSaves
  <2>2. context[c].pc = "save" /\ Runs(c)
    BY <1>3 DEF IrqGuardSaves, AtPc
  <2>3. ContextIsShielded(c, "disable", context[c].lock, irqEnabled[c[1]], context[c].guards)
    <3>1. c[2] = "interrupt" => ~irqEnabled[c[1]]
      BY <1>a, <2>2
    <3>2. irqEnabled[c[1]] => \A i \in DOMAIN context[c].guards : context[c].guards[i].lock \notin IrqLocks
      BY <1>a, <3>1 DEF Shields
    <3> QED
      BY <1>a, <2>2, <3>1, <3>2 DEF ContextIsShielded
  <2>4. Shields("disable", context[c].lock, context[c].guards) => Shields(context[c].pc, context[c].lock, context[c].guards)
    BY DEF Shields
  <2> QED
    BY <1>a, <1>b, <2>1, <2>3, <2>4, IrqInvAfter
<1>4. ASSUME NEW c \in Contexts, IrqGuardDisables(c)
      PROVE  IrqInv'
  <2>1. Becomes(c, "check", context[c].lock, context[c].were, context[c].guards) /\ UNCHANGED inHandler
        /\ irqEnabled' = [irqEnabled EXCEPT ![c[1]] = FALSE]
    BY <1>4, SpinSteps DEF IrqGuardDisables
  <2>2. context[c].pc = "disable" /\ Runs(c)
    BY <1>4 DEF IrqGuardDisables, AtPc
  <2>3. ContextIsShielded(c, "check", context[c].lock, context[c].were, context[c].guards)
    BY <1>a, <2>2 DEF ContextIsShielded
  <2>4. /\ irqEnabled' \in [LockCpus -> BOOLEAN] /\ irqEnabled'[c[1]] = FALSE
        /\ \A cpu \in LockCpus : cpu # c[1] => irqEnabled'[cpu] = irqEnabled[cpu]
    BY <1>a, <1>b, <2>1
  <2>5. c[2] = "code" => ~inHandler[c[1]]
    BY <1>a, <2>2
  <2>6. c[2] = "interrupt" => irqEnabled[c[1]] = FALSE
    BY <1>a, <1>b, <2>2
  <2> QED
    BY <2>1, <2>3, <2>4, <2>5, <2>6, IrqInvAfter
<1>5. ASSUME NEW c \in Contexts, CheckPanicking(c)
      PROVE  IrqInv'
  <2>1. PICK pc \in {"take", "knock down", "halted"} : Becomes(c, pc, context[c].lock, context[c].were, context[c].guards)
    BY <1>5, SpinSteps
  <2>2. UNCHANGED <<irqEnabled, inHandler>> /\ context[c].pc = "check"
    BY <1>5 DEF CheckPanicking, AtPc
  <2>3. ContextIsShielded(c, pc, context[c].lock, context[c].were, context[c].guards)
    BY <1>a, <2>2 DEF ContextIsShielded
  <2>4. Shields(pc, context[c].lock, context[c].guards) => Shields(context[c].pc, context[c].lock, context[c].guards)
    BY <2>2 DEF Shields
  <2> QED
    BY <1>a, <1>b, <2>1, <2>2, <2>3, <2>4, IrqInvAfter
<1>6. ASSUME NEW c \in Contexts, Take(c), context[c].pc \in {"take", "knock down"}
      PROVE  IrqInv'
  <2> DEFINE g == Guard(context[c].lock, context[c].were)
             guards == Append(context[c].guards, g)
             n == Len(context[c].guards) + 1
  <2>1. Becomes(c, "run", LockOrder[1], FALSE, guards) /\ UNCHANGED <<irqEnabled, inHandler>>
    BY <1>6, SpinSteps DEF Take
  <2>2. g \in LockGuard /\ g.lock = context[c].lock /\ g.were = context[c].were
    BY ContextFields DEF Guard, LockGuard
  <2>3. /\ DOMAIN guards = DOMAIN context[c].guards \cup {n}
        /\ guards[n] = g
        /\ \A i \in DOMAIN context[c].guards : guards[i] = context[c].guards[i] /\ i < n
    BY <1>a, <2>2, GuardSequences
  <2>n. n \in Nat /\ DOMAIN context[c].guards \subseteq Nat
    BY <1>a
  <2> HIDE DEF g, guards, n
  <2>4. ContextIsShielded(c, "run", LockOrder[1], FALSE, guards)
    <3>1. ASSUME NEW i \in DOMAIN guards, NEW j \in DOMAIN guards, j < i, guards[i].were
          PROVE  guards[j].lock \notin IrqLocks
      <4>1. j \in DOMAIN context[c].guards
        BY <2>3, <2>n, <3>1
      <4>2. CASE i = n
        BY <1>a, <2>2, <2>3, <3>1, <4>1, <4>2 DEF ContextIsShielded
      <4>3. CASE i \in DOMAIN context[c].guards
        BY <1>a, <2>3, <3>1, <4>1, <4>3 DEF ContextIsShielded
      <4> QED
        BY <2>3, <4>2, <4>3
    <3>2. c[2] = "interrupt" => \A i \in DOMAIN guards : ~guards[i].were
      BY <1>a, <2>2, <2>3 DEF ContextIsShielded
    <3> QED
      BY <3>1, <3>2 DEF ContextIsShielded
  <2>5. Shields("run", LockOrder[1], guards) => Shields(context[c].pc, context[c].lock, context[c].guards)
    BY <1>6, <2>2, <2>3 DEF Shields
  <2> QED
    BY <1>a, <1>b, <2>1, <2>4, <2>5, IrqInvAfter
<1>7. ASSUME NEW c \in Contexts, TryLockFails(c) \/ DropIrqGuard(c)
      PROVE  IrqInv'
  <2>1. Becomes(c, "run", LockOrder[1], FALSE, context[c].guards)
    BY <1>7, SpinSteps
  <2>2. UNCHANGED inHandler /\ irqEnabled' = [irqEnabled EXCEPT ![c[1]] = @ \/ context[c].were] /\ Runs(c)
    BY <1>7 DEF TryLockFails, DropIrqGuard, AtPc
  <2>3. /\ irqEnabled' \in [LockCpus -> BOOLEAN] /\ irqEnabled'[c[1]] = (irqEnabled[c[1]] \/ context[c].were)
        /\ \A cpu \in LockCpus : cpu # c[1] => irqEnabled'[cpu] = irqEnabled[cpu]
    BY <1>a, <1>b, <2>2, ContextFields
  <2>4. c[2] = "interrupt" => ~context[c].were
    BY <1>a DEF ContextIsShielded
  <2>5. c[2] = "interrupt" => irqEnabled'[c[1]] = irqEnabled[c[1]]
    BY <1>a, <1>b, <2>3, <2>4
  <2>6. ContextIsShielded(c, "run", LockOrder[1], FALSE, context[c].guards)
    BY <1>a DEF ContextIsShielded
  <2>7. c[2] = "code" => ~inHandler[c[1]]
    BY <1>a, <2>2
  <2>8. Shields("run", LockOrder[1], context[c].guards) =>
           Shields(context[c].pc, context[c].lock, context[c].guards) /\ ~context[c].were
    BY <1>a DEF Shields, ContextIsShielded
  <2>9. c[2] = "code" /\ Shields("run", LockOrder[1], context[c].guards) => ~irqEnabled'[c[1]] /\ ~inHandler[c[1]]
    BY <1>a, <2>3, <2>7, <2>8
  <2>10. inHandler[c[1]] => ~irqEnabled'[c[1]]
    BY <1>a, <2>5, <2>7
  <2> QED
    BY <2>1, <2>2, <2>3, <2>5, <2>6, <2>9, <2>10, IrqInvAfter
<1>8. ASSUME NEW c \in Contexts, DropGuard(c)
      PROVE  IrqInv'
  <2> DEFINE guards == Front(context[c].guards)
             were == Last(context[c].guards).were
             n == Len(context[c].guards)
  <2>1. Becomes(c, "restore", context[c].lock, were, guards) /\ UNCHANGED <<irqEnabled, inHandler>>
    BY <1>8, SpinSteps DEF DropGuard
  <2>2. context[c].guards # <<>>
    BY <1>8 DEF DropGuard
  <2>3. /\ DOMAIN guards \subseteq DOMAIN context[c].guards /\ n \in DOMAIN context[c].guards
        /\ were = context[c].guards[n].were
        /\ \A i \in DOMAIN guards : guards[i] = context[c].guards[i] /\ i < n
    BY <1>a, <2>2, GuardSequences
  <2> HIDE DEF guards, were, n
  <2>4. ContextIsShielded(c, "restore", context[c].lock, were, guards)
    BY <1>a, <2>3 DEF ContextIsShielded
  <2>5. Shields("restore", context[c].lock, guards) => Shields(context[c].pc, context[c].lock, context[c].guards)
    BY <2>3 DEF Shields
  <2> QED
    BY <1>a, <1>b, <2>1, <2>4, <2>5, IrqInvAfter
<1>9. ASSUME NEW cpu \in LockCpus, Interrupt(cpu) \/ InterruptReturns(cpu)
      PROVE  IrqInv'
  <2>1. context' = context
    BY <1>9 DEF Interrupt, InterruptReturns
  <2>2. ~Shielded(<<cpu, "code">>)
    <3>1. irqEnabled[cpu] \/ inHandler[cpu]
      BY <1>9, <1>b DEF Interrupt, InterruptReturns, AtPc, Runs
    <3> QED
      BY <3>1 DEF IrqInv
  <2>3. \A k \in LockCpus : k # cpu => irqEnabled'[k] = irqEnabled[k] /\ inHandler'[k] = inHandler[k]
    BY <1>9, <1>b DEF Interrupt, InterruptReturns
  <2>4. inHandler'[cpu] => ~irqEnabled'[cpu]
    BY <1>9, <1>b DEF Interrupt, InterruptReturns
  <2>5. \A k \in LockCpus : Shielded(<<k, "code">>)' <=> Shielded(<<k, "code">>)
    BY <2>1 DEF Shielded, IrqHeld
  <2>6. \A k \in LockCpus : inHandler'[k] => ~irqEnabled'[k]
    BY <2>3, <2>4 DEF IrqInv
  <2>7. \A k \in LockCpus : Shielded(<<k, "code">>)' => ~irqEnabled'[k] /\ ~inHandler'[k]
    BY <2>2, <2>3, <2>5 DEF IrqInv
  <2>8. \A c \in Contexts : (IrqHeld(c)' <=> IrqHeld(c)) /\ (Calling(c)' <=> Calling(c))
    BY <2>1 DEF IrqHeld, Calling
  <2> QED
    BY <2>1, <2>6, <2>7, <2>8 DEF IrqInv
<1>10. ASSUME NEW c \in Contexts, KnockDown(c)
       PROVE  IrqInv'
  <2>1. CASE Take(c)
    BY <1>6, <1>10, <2>1 DEF KnockDown, AtPc
  <2> QED
    BY <1>1, <1>10, <2>1 DEF KnockDown
<1>11. ASSUME NEW c \in Contexts, TakeLock(c)
       PROVE  IrqInv'
  BY <1>6, <1>11 DEF TakeLock, AtPc
<1>12. ASSUME NEW c \in Contexts, StartPanicking(c)
       PROVE  IrqInv'
  BY <1>1, <1>12 DEF StartPanicking
<1>13. CASE SpinNext
  BY <1>2, <1>3, <1>4, <1>5, <1>7, <1>8, <1>9, <1>10, <1>11, <1>12, <1>13 DEF SpinNext
<1> QED
  BY <1>1, <1>13 DEF LocksNext, OnceStep, OnceGet, lockVars, spinVars

\* Every step keeps a lock locked exactly while its one guard lives.
LEMMA ExclusionPreserved ==
  ASSUME SpinTypeOK, ExclusionInv, [LocksNext]_lockVars
  PROVE  ExclusionInv'
<1>1. CASE UNCHANGED <<context, locked, panicking>>
  <2>1. \A d \in Contexts, l \in SpinLocks : HoldsGuard(d, l)' <=> HoldsGuard(d, l)
    BY <1>1 DEF HoldsGuard
  <2>2. CASE panicking
    BY <1>1, <2>2 DEF ExclusionInv
  <2>3. CASE ~panicking
    BY <1>1, <2>1, <2>3 DEF ExclusionInv
  <2> QED
    BY <2>2, <2>3
<1>2. ASSUME NEW c \in Contexts, NEW pc, NEW lock, NEW were,
             Becomes(c, pc, lock, were, context[c].guards), pc = "knock down" => panicking,
             UNCHANGED <<locked, panicking>>
      PROVE  ExclusionInv'
  <2>1. \A d \in Contexts : context'[d].guards = context[d].guards
    BY <1>2 DEF Becomes
  <2>2. \A d \in Contexts : context'[d].pc = "knock down" => panicking
    BY <1>2 DEF Becomes, ExclusionInv
  <2>3. \A d \in Contexts, l \in SpinLocks : HoldsGuard(d, l)' <=> HoldsGuard(d, l)
    BY <2>1 DEF HoldsGuard
  <2>4. CASE panicking
    BY <1>2, <2>4 DEF ExclusionInv
  <2>5. CASE ~panicking
    BY <1>2, <2>1, <2>2, <2>3, <2>5 DEF ExclusionInv
  <2> QED
    BY <2>4, <2>5
<1>3. ASSUME NEW c \in Contexts, Take(c), context[c].pc = "take" \/ panicking
      PROVE  ExclusionInv'
  <2> DEFINE l == context[c].lock
             g == Guard(l, context[c].were)
             guards == Append(context[c].guards, g)
             n == Len(context[c].guards) + 1
  <2>0. context[c].guards \in Seq(LockGuard) /\ l \in SpinLocks
    BY ContextFields
  <2>1. Becomes(c, "run", LockOrder[1], FALSE, guards) /\ UNCHANGED panicking /\ ~locked[l]
        /\ locked' = [locked EXCEPT ![l] = TRUE]
    BY <1>3, SpinSteps DEF Take
  <2>2. g \in LockGuard /\ g.lock = l
    BY ContextFields DEF Guard, LockGuard
  <2>3. /\ DOMAIN guards = DOMAIN context[c].guards \cup {n}
        /\ n \notin DOMAIN context[c].guards /\ guards[n] = g
        /\ \A i \in DOMAIN context[c].guards : guards[i] = context[c].guards[i]
    BY <2>0, <2>2, GuardSequences
  <2>4. /\ \A k \in SpinLocks : locked'[k] = IF k = l THEN TRUE ELSE locked[k]
    BY <2>0, <2>1 DEF SpinTypeOK
  <2> HIDE DEF l, g, guards, n
  <2>5. context'[c].guards = guards /\ \A d \in Contexts : d # c => context'[d] = context[d]
    BY <2>1 DEF Becomes
  <2>6. \A d \in Contexts : context'[d].pc = "knock down" => panicking'
    BY <2>1 DEF Becomes, ExclusionInv
  <2>7. CASE ~panicking
    <3>1. \A d \in Contexts : ~HoldsGuard(d, l)
      BY <2>0, <2>1, <2>7 DEF ExclusionInv
    <3>2. \A k \in SpinLocks : HoldsGuard(c, k)' <=> (HoldsGuard(c, k) \/ k = l)
      BY <2>2, <2>3, <2>5 DEF HoldsGuard
    <3>3. \A d \in Contexts, k \in SpinLocks : d # c => (HoldsGuard(d, k)' <=> HoldsGuard(d, k))
      BY <2>5 DEF HoldsGuard
    <3>4. ASSUME NEW k \in SpinLocks PROVE locked'[k] <=> \E d \in Contexts : HoldsGuard(d, k)'
      <4>1. locked[k] <=> \E d \in Contexts : HoldsGuard(d, k)
        BY <2>7 DEF ExclusionInv
      <4>2. CASE k = l
        BY <2>0, <2>4, <3>1, <3>2, <3>3, <4>2
      <4>3. CASE k # l
        BY <2>4, <3>1, <3>2, <3>3, <4>1, <4>3
      <4> QED
        BY <4>2, <4>3
    <3>5. \A d, e \in Contexts, k \in SpinLocks : HoldsGuard(d, k)' /\ HoldsGuard(e, k)' => d = e
      BY ZenonT(30), <2>7, <3>1, <3>2, <3>3 DEF ExclusionInv
    <3>6. ASSUME NEW d \in Contexts, NEW i \in DOMAIN context'[d].guards, NEW j \in DOMAIN context'[d].guards,
                 context'[d].guards[i].lock = context'[d].guards[j].lock
          PROVE  i = j
      <4>1. CASE d # c
        BY <2>5, <2>7, <3>6, <4>1 DEF ExclusionInv
      <4>2. CASE d = c
        <5>1. \A k \in DOMAIN context[c].guards : context[c].guards[k].lock # l
          BY <3>1 DEF HoldsGuard
        <5>2. i \in DOMAIN guards /\ j \in DOMAIN guards /\ guards[i].lock = guards[j].lock
          BY <2>5, <3>6, <4>2
        <5>3. \A a, b \in DOMAIN context[c].guards : context[c].guards[a].lock = context[c].guards[b].lock => a = b
          BY <2>7 DEF ExclusionInv
        <5> QED
          BY <2>2, <2>3, <5>1, <5>2, <5>3
      <4> QED
        BY <4>1, <4>2
    <3> QED
      BY <2>6, <3>4, <3>5, <3>6 DEF ExclusionInv
  <2>8. CASE panicking
    BY <2>1, <2>6, <2>8 DEF ExclusionInv
  <2> QED
    BY <2>7, <2>8
<1>4. ASSUME NEW c \in Contexts, DropGuard(c)
      PROVE  ExclusionInv'
  <2> DEFINE guards == Front(context[c].guards)
             n == Len(context[c].guards)
             l == Last(context[c].guards).lock
  <2>0. context[c].guards \in Seq(LockGuard) /\ context[c].guards # <<>>
    BY <1>4, ContextFields DEF DropGuard
  <2>1. Becomes(c, "restore", context[c].lock, Last(context[c].guards).were, guards) /\ UNCHANGED panicking
        /\ locked' = [locked EXCEPT ![l] = FALSE]
    BY <1>4, SpinSteps DEF DropGuard
  <2>2. /\ DOMAIN guards = DOMAIN context[c].guards \ {n} /\ n \in DOMAIN context[c].guards
        /\ l = context[c].guards[n].lock /\ Last(context[c].guards) \in LockGuard
        /\ \A i \in DOMAIN guards : guards[i] = context[c].guards[i]
    BY <2>0, GuardSequences
  <2>3. l \in SpinLocks
    BY <2>2 DEF LockGuard
  <2>4. \A k \in SpinLocks : locked'[k] = IF k = l THEN FALSE ELSE locked[k]
    BY <2>1, <2>3 DEF SpinTypeOK
  <2> HIDE DEF l, guards, n
  <2>5. context'[c].guards = guards /\ \A d \in Contexts : d # c => context'[d] = context[d]
    BY <2>1 DEF Becomes
  <2>6. \A d \in Contexts : context'[d].pc = "knock down" => panicking'
    BY <2>1 DEF Becomes, ExclusionInv
  <2>7. CASE ~panicking
    <3>1. \A i, j \in DOMAIN context[c].guards : context[c].guards[i].lock = context[c].guards[j].lock => i = j
      BY <2>7 DEF ExclusionInv
    <3>2. \A k \in SpinLocks : HoldsGuard(c, k)' <=> (HoldsGuard(c, k) /\ k # l)
      BY <2>2, <2>5, <3>1 DEF HoldsGuard
    <3>3. \A d \in Contexts, k \in SpinLocks : d # c => (HoldsGuard(d, k)' <=> HoldsGuard(d, k))
      BY <2>5 DEF HoldsGuard
    <3>4. HoldsGuard(c, l)
      BY <2>2 DEF HoldsGuard
    <3>x. \A d \in Contexts : HoldsGuard(d, l) => d = c
      BY <2>3, <2>7, <3>4 DEF ExclusionInv
    <3>5. ASSUME NEW k \in SpinLocks PROVE locked'[k] <=> \E d \in Contexts : HoldsGuard(d, k)'
      <4>1. locked[k] <=> \E d \in Contexts : HoldsGuard(d, k)
        BY <2>7 DEF ExclusionInv
      <4>2. CASE k = l
        BY <2>0, <2>3, <2>4, <3>2, <3>3, <3>4, <3>x, <4>2
      <4>3. CASE k # l
        BY <2>3, <2>4, <3>2, <3>3, <3>4, <3>x, <4>1, <4>3
      <4> QED
        BY <4>2, <4>3
    <3>6. \A d, e \in Contexts, k \in SpinLocks : HoldsGuard(d, k)' /\ HoldsGuard(e, k)' => d = e
      BY <2>7, <3>2, <3>3 DEF ExclusionInv
    <3>7. ASSUME NEW d \in Contexts, NEW i \in DOMAIN context'[d].guards, NEW j \in DOMAIN context'[d].guards,
                 context'[d].guards[i].lock = context'[d].guards[j].lock
          PROVE  i = j
      <4>1. CASE d # c
        BY <2>5, <2>7, <3>7, <4>1 DEF ExclusionInv
      <4>2. CASE d = c
        BY <2>2, <2>5, <3>1, <3>7, <4>2
      <4> QED
        BY <4>1, <4>2
    <3> QED
      BY <2>6, <3>5, <3>6, <3>7 DEF ExclusionInv
  <2>8. CASE panicking
    BY <2>1, <2>6, <2>8 DEF ExclusionInv
  <2> QED
    BY <2>7, <2>8
<1>5. ASSUME NEW c \in Contexts, KnockDown(c)
      PROVE  ExclusionInv'
  <2>1. panicking
    BY <1>5 DEF KnockDown, AtPc, ExclusionInv
  <2>2. CASE Take(c)
    BY <1>3, <2>1, <2>2
  <2>3. CASE UNCHANGED <<context, panicking>>
    BY <2>1, <2>3 DEF ExclusionInv
  <2> QED
    BY <1>5, <2>2, <2>3 DEF KnockDown
<1>6. ASSUME NEW c \in Contexts, StartPanicking(c)
      PROVE  ExclusionInv'
  BY <1>6 DEF StartPanicking, ExclusionInv
<1>7. ASSUME NEW c \in Contexts, NEW l \in SpinLocks, NEW try \in BOOLEAN, CallLock(c, l, try)
      PROVE  ExclusionInv'
  <2>1. PICK pc \in {"save", "check"} : Becomes(c, pc, l, FALSE, context[c].guards)
    BY <1>7, SpinSteps
  <2> QED
    BY <1>2, <1>7, <2>1 DEF CallLock
<1>8. ASSUME NEW c \in Contexts, IrqGuardSaves(c) \/ IrqGuardDisables(c) \/ TryLockFails(c) \/ DropIrqGuard(c)
      PROVE  ExclusionInv'
  <2>1. UNCHANGED <<locked, panicking>>
    BY <1>8 DEF IrqGuardSaves, IrqGuardDisables, TryLockFails, DropIrqGuard
  <2>2. CASE IrqGuardSaves(c)
    BY <1>2, <2>1, <2>2, SpinSteps
  <2>3. CASE IrqGuardDisables(c)
    BY <1>2, <2>1, <2>3, SpinSteps
  <2>4. CASE TryLockFails(c) \/ DropIrqGuard(c)
    BY <1>2, <2>1, <2>4, SpinSteps
  <2> QED
    BY <1>8, <2>2, <2>3, <2>4
<1>9. ASSUME NEW c \in Contexts, CheckPanicking(c)
      PROVE  ExclusionInv'
  <2>1. PICK pc \in {"take", "knock down", "halted"} :
           (pc = "knock down" => panicking) /\ Becomes(c, pc, context[c].lock, context[c].were, context[c].guards)
    BY <1>9, SpinSteps
  <2> QED
    BY <1>2, <1>9, <2>1 DEF CheckPanicking
<1>10. ASSUME NEW c \in Contexts, TakeLock(c)
       PROVE  ExclusionInv'
  BY <1>3, <1>10 DEF TakeLock, AtPc
<1>11. ASSUME NEW cpu \in LockCpus, Interrupt(cpu) \/ InterruptReturns(cpu)
       PROVE  ExclusionInv'
  BY <1>1, <1>11 DEF Interrupt, InterruptReturns
<1>12. CASE SpinNext
  BY <1>4, <1>5, <1>6, <1>7, <1>8, <1>9, <1>10, <1>11, <1>12 DEF SpinNext
<1> QED
  BY <1>1, <1>12 DEF LocksNext, OnceStep, OnceGet, lockVars, spinVars

\* The locks start unlocked, in a state of the inductive invariant.
LEMMA InitEstablishesSpin ==
  ASSUME LocksInit
  PROVE  SpinInv
<1>1. /\ locked = [l \in SpinLocks |-> FALSE] /\ context = [c \in Contexts |-> Running(<<>>)]
      /\ irqEnabled \in [LockCpus -> BOOLEAN] /\ inHandler = [cpu \in LockCpus |-> FALSE] /\ panicking = FALSE
  BY DEF LocksInit
<1>2. Running(<<>>) \in Context
  BY LocksExist DEF Running, Context, LockPcs
<1>3. \A c \in Contexts : context[c].guards = <<>> /\ context[c].pc = "run" /\ ~context[c].were
  BY <1>1 DEF Running
<1>4. \A cpu \in LockCpus : <<cpu, "code">> \in Contexts /\ ~inHandler[cpu]
  BY <1>1 DEF Contexts
<1>5. SpinTypeOK
  BY <1>1, <1>2 DEF SpinTypeOK
<1>6. IrqInv
  <2>1. \A c \in Contexts : DOMAIN context[c].guards = {} /\ context[c].pc = "run" /\ ~context[c].were
    BY <1>3
  <2>2. \A c \in Contexts : ~IrqHeld(c) /\ ~Shielded(c) /\ ~Calling(c)
    BY <2>1 DEF Shielded, IrqHeld, Calling
  <2> QED
    BY <1>4, <2>1, <2>2 DEF IrqInv
<1>7. ExclusionInv
  <2>1. \A c \in Contexts : DOMAIN context[c].guards = {} /\ context[c].pc = "run"
    BY <1>3
  <2>2. \A c \in Contexts, l \in SpinLocks : ~HoldsGuard(c, l)
    BY <2>1 DEF HoldsGuard
  <2>3. \A l \in SpinLocks : ~locked[l]
    BY <1>1
  <2> QED
    BY <2>1, <2>2, <2>3 DEF ExclusionInv
<1> QED
  BY <1>5, <1>6, <1>7 DEF SpinInv

\* The interrupt flag of a CPU over a step: what InterruptsFollowGuards says.
LEMMA FlagFollowsGuards ==
  ASSUME SpinInv, [LocksNext]_lockVars, NEW cpu \in LockCpus
  PROVE  /\ inHandler[cpu] => (irqEnabled'[cpu] => ~inHandler'[cpu])
         /\ ~inHandler[cpu] /\ ~irqEnabled[cpu] /\ irqEnabled'[cpu] =>
                /\ \A l \in IrqLocks : ~HoldsGuard(<<cpu, "code">>, l)
                /\ context[<<cpu, "code">>].were
<1>0. SpinTypeOK /\ IrqInv /\ IrqInv'
  BY IrqPreserved DEF SpinInv
<1>1. inHandler[cpu] => (irqEnabled'[cpu] => ~inHandler'[cpu])
  BY <1>0 DEF IrqInv
<1>2. ASSUME ~inHandler[cpu], ~irqEnabled[cpu], irqEnabled'[cpu]
      PROVE  /\ \A l \in IrqLocks : ~HoldsGuard(<<cpu, "code">>, l)
             /\ context[<<cpu, "code">>].were
  <2>0. irqEnabled \in [LockCpus -> BOOLEAN] /\ inHandler \in [LockCpus -> BOOLEAN]
    BY <1>0 DEF SpinTypeOK
  <2>1. irqEnabled' # irqEnabled
    BY <1>2
  <2>2. \/ \E c \in Contexts : IrqGuardDisables(c) \/ TryLockFails(c) \/ DropIrqGuard(c)
        \/ \E k \in LockCpus : Interrupt(k) \/ InterruptReturns(k)
    <3>1. SpinNext
      BY <2>1 DEF LocksNext, lockVars, OnceStep, OnceGet, spinVars
    <3>2. /\ \A c \in Contexts :
               /\ IrqGuardSaves(c) \/ CheckPanicking(c) \/ TakeLock(c) \/ KnockDown(c) \/ DropGuard(c)
                  \/ StartPanicking(c) => irqEnabled' = irqEnabled
               /\ \A l \in SpinLocks, try \in BOOLEAN : CallLock(c, l, try) => irqEnabled' = irqEnabled
      BY DEF IrqGuardSaves, CheckPanicking, TakeLock, Take, KnockDown, DropGuard, StartPanicking, CallLock
    <3> QED
      BY <2>1, <3>1, <3>2 DEF SpinNext
  <2>3. ASSUME NEW k \in LockCpus, Interrupt(k) \/ InterruptReturns(k)
        PROVE  FALSE
    BY <1>2, <2>0, <2>3 DEF Interrupt, InterruptReturns, AtPc, Runs
  <2>4. ASSUME NEW c \in Contexts, IrqGuardDisables(c)
        PROVE  FALSE
    BY <1>2, <2>0, <2>4 DEF IrqGuardDisables
  <2>5. PICK c \in Contexts : TryLockFails(c) \/ DropIrqGuard(c)
    BY <2>2, <2>3, <2>4
  <2>6. irqEnabled' = [irqEnabled EXCEPT ![c[1]] = @ \/ context[c].were] /\ Runs(c)
    BY <2>5 DEF TryLockFails, DropIrqGuard, AtPc
  <2>7. c[1] = cpu /\ context[c].were
    BY <1>2, <2>0, <2>6
  <2>8. c = <<cpu, "code">>
    BY <1>2, <2>6, <2>7 DEF Runs, Contexts
  <2>9. ~IrqHeld(c)
    BY <1>0, <2>7 DEF IrqInv
  <2> QED
    BY <2>7, <2>8, <2>9 DEF IrqHeld, HoldsGuard
<1> QED
  BY <1>1, <1>2

\* The inductive invariant of the spinlocks holds of every reachable state.
THEOREM SpinInvariance == LocksSpec => []SpinInv
<1>1. SpinInv /\ [LocksNext]_lockVars => SpinInv'
  BY SpinTypesPreserved, IrqPreserved, ExclusionPreserved DEF SpinInv
<1> QED
  BY <1>1, InitEstablishesSpin, PTL DEF LocksSpec

\* Until somebody panics a spinlock has one owner; no interrupt handler waits for a lock of the
\* code that it has interrupted; and the interrupts of a CPU are enabled again only by the
\* outermost guard of the code that had them enabled: for any CPUs, locks and nesting.
THEOREM LocksAreAlwaysSafe == LocksSpec => LocksAreSafe
<1>1. SpinInv => LocksExclude
  <2> SUFFICES ASSUME SpinInv, ~panicking, NEW l \in SpinLocks
               PROVE  Cardinality(Owners(l)) <= 1 /\ (locked[l] <=> Owners(l) # {})
    BY DEF LocksExclude
  <2>1. \A c, d \in Owners(l) : c = d
    BY DEF SpinInv, ExclusionInv, Owners
  <2>2. locked[l] <=> Owners(l) # {}
    BY DEF SpinInv, ExclusionInv, Owners
  <2>3. Owners(l) = {} => Cardinality(Owners(l)) = 0
    BY FS_EmptySet
  <2>4. Owners(l) # {} => Cardinality(Owners(l)) = 1
    <3>1. SUFFICES ASSUME Owners(l) # {} PROVE Cardinality(Owners(l)) = 1
      OBVIOUS
    <3>2. PICK c \in Owners(l) : TRUE
      BY <3>1
    <3>3. Owners(l) = {c}
      BY <2>1, <3>2
    <3> QED
      BY <3>3, FS_Singleton
  <2> QED
    BY <2>2, <2>3, <2>4
<1>2. SpinInv => HandlerNeverWaitsForItsCpu
  <2> SUFFICES ASSUME SpinInv, NEW cpu \in LockCpus, NEW l \in SpinLocks, inHandler[cpu],
                      HoldsGuard(<<cpu, "code">>, l), context[<<cpu, "interrupt">>].pc = "take",
                      context[<<cpu, "interrupt">>].lock = l
               PROVE  FALSE
    BY DEF HandlerNeverWaitsForItsCpu
  <2>1. <<cpu, "interrupt">> \in Contexts /\ <<cpu, "interrupt">>[2] = "interrupt"
    BY DEF Contexts
  <2>2. l \in IrqLocks
    BY <2>1 DEF SpinInv, IrqInv, Calling
  <2>3. Shielded(<<cpu, "code">>)
    BY <2>2 DEF Shielded, IrqHeld, HoldsGuard
  <2> QED
    BY <2>3 DEF SpinInv, IrqInv
<1>3. SpinInv /\ [LocksNext]_lockVars =>
        [\A cpu \in LockCpus :
          LET c == <<cpu, "code">> IN
          /\ inHandler[cpu] => (irqEnabled'[cpu] => ~inHandler'[cpu])
          /\ ~inHandler[cpu] /\ ~irqEnabled[cpu] /\ irqEnabled'[cpu] =>
                /\ \A l \in IrqLocks : ~HoldsGuard(c, l)
                /\ context[c].were]_spinVars
  BY FlagFollowsGuards
<1> QED
  BY <1>1, <1>2, <1>3, SpinInvariance, PTL DEF LocksSpec, LocksAreSafe, InterruptsFollowGuards
-----------------------------------------------------------------------------
Minute(t) == t \div SecondsPerMinute
Second(t) == t % SecondsPerMinute

\* What the registers of the chip hold in each phase of an update.
ChipInv ==
    /\ chip \in [second : Nat, minute : Nat, phase : {"shown", "second", "minute", "ended"},
                 ended : BOOLEAN, time : Nat]
    /\ chip.phase \in {"second", "minute", "ended"} => chip.time > 0
    /\ chip.second = Second(IF chip.phase = "second" THEN chip.time - 1 ELSE chip.time)
    /\ chip.minute = Minute(IF chip.phase \in {"second", "minute"} THEN chip.time - 1 ELSE chip.time)

HandlerPcs == {Idle, <<"now", 0>>} \cup ({"wait", "second", "minute", "check"} \X {1, 2})
              \cup ({"base", "prev"} \X (1 .. 4))
ReaderPcs == {Idle} \cup ({"await", "sequence", "count", "tsc", "check"} \X {"base", "prev"})
Point == [count : Nat, tsc : Nat]
Shared == [sequence : Nat, count : Nat, tsc : Nat]
Handler == [pc : HandlerPcs, first : Nat \X Nat, read : Nat \X Nat, tries : Nat,
            shown : SUBSET (Nat \X Nat), point : Point]
Reader == [pc : ReaderPcs, sequence : Nat, point : Point, loaded : [{"base", "prev"} -> Point]]

\* The types of the variables but for the chip.
ClockTypeOK ==
    /\ handler \in Handler
    /\ interval \in [{"base", "prev"} -> Shared]
    /\ reader \in Reader
    /\ tsc \in Nat \ {0}
    /\ source \in {"rtc", "pit"}
    /\ stored \in SUBSET Point

Reads(n) == handler.pc \in {<<"wait", n>>, <<"second", n>>, <<"minute", n>>, <<"check", n>>}
ReadsDate == Reads(1) \/ Reads(2) \/ At("now", 0)

\* The dates that the chip has shown during this call of Date::read(), and the
\* one that it shows now or will show when the update in progress ends.
Final == <<Second(chip.time), Minute(chip.time)>>
WillBeShown == handler.shown \cup {Final}

\* The seconds have started anew, and the minute has not moved on yet.
Torn == chip.phase = "minute" /\ Second(chip.time) = 0

\* What each read of the registers can have seen.  Only a minute that is about
\* to change can go with a wrong second, which is zero; but then the minute is
\* another one as soon as the update has ended.
DateInv ==
    /\ Reads(1) \/ Reads(2) => (chip.phase = "shown" => Final \in handler.shown)
    /\ (Reads(1) \/ Reads(2)) /\ ~At("wait", 1) /\ chip.phase = "second" => Display \in handler.shown
    /\ At("minute", 1) /\ handler.read[1] = 0 => Torn \/ <<0, chip.minute>> \in WillBeShown
    /\ At("check", 1) /\ handler.read[1] = 0 =>
          \/ handler.read \in WillBeShown
          \/ handler.read[2] < chip.minute
          \/ Torn /\ handler.read[2] = chip.minute
    /\ At("check", 1) => handler.read[2] <= chip.minute
    /\ Reads(2) => handler.first[2] <= chip.minute
    /\ Reads(2) /\ handler.first[1] = 0 =>
          handler.first \in WillBeShown \/ handler.first[2] < chip.minute
    /\ At("minute", 2) =>
          \/ handler.first[2] < chip.minute
          \/ <<handler.read[1], chip.minute>> \in WillBeShown
          \/ Torn /\ handler.read[1] = 0
    /\ At("check", 2) /\ handler.first = handler.read => handler.read \in WillBeShown
    /\ At("now", 0) => handler.read \in handler.shown

PointOf(p) == NewPoint(p.count, p.tsc)
Writes(which) == handler.pc \in {<<which, 2>>, <<which, 3>>, <<which, 4>>}

\* The sequence of a point is odd exactly while the point is written, and a point with an even
\* sequence has been stored as a whole.
WriterInv ==
    \A which \in {"base", "prev"} :
        /\ SequenceIsLocked(interval[which].sequence) <=> Writes(which)
        /\ ~At(which, 3) => PointOf(interval[which]) \in stored
        /\ At(which, 3) => interval[which].count = handler.point.count
        /\ (\E n \in 1 .. 4 : At(which, n)) => handler.point \in stored

\* As long as the sequence is the one that the reader has seen, the point is too.
ReaderInv ==
    /\ \A which \in {"base", "prev"} :
        /\ reader.pc \in {<<"count", which>>, <<"tsc", which>>, <<"check", which>>} =>
              /\ ~SequenceIsLocked(reader.sequence)
              /\ reader.sequence <= interval[which].sequence
        /\ reader.pc = <<"tsc", which>> /\ reader.sequence = interval[which].sequence =>
              reader.point.count = interval[which].count
        /\ reader.pc = <<"check", which>> /\ reader.sequence = interval[which].sequence =>
              reader.point = PointOf(interval[which])
        /\ reader.loaded[which] \in stored
    /\ PointIsValid(reader.loaded.base) => reader.loaded.base = PointOf(interval.base)

\* The base is the first valid point, and time only goes on from it.
TimeInv ==
    /\ \A p \in stored : p.tsc <= tsc
    /\ PointIsValid(interval.base) =>
          \A p \in stored : PointIsValid(p) =>
              p.count >= interval.base.count /\ (p.count > interval.base.count => p.tsc > interval.base.tsc)
    /\ ~PointIsValid(interval.base) =>
          /\ source = "rtc" /\ handler.pc[1] # "prev"
          /\ \A p \in stored : PointIsValid(p) => handler.pc[1] = "base" /\ p = handler.point
    /\ PointIsValid(interval.base) => handler.pc \notin ({"base"} \X (1 .. 3))
    /\ At("base", 4) => PointIsValid(interval.base)
    /\ handler.pc[1] = "base" => PointIsValid(handler.point)
    /\ handler.pc[1] = "base" => source = "rtc"
    /\ source = "pit" => ~ReadsDate /\ interval.base.count = 0
    /\ interval.base.count <= chip.time
    /\ handler.pc \in ({"base"} \X (1 .. 4)) => handler.point.count <= chip.time
    /\ ReadsDate => \A d \in handler.shown :
          interval.base.count <= Timestamp(d) /\ Timestamp(d) <= chip.time

ClockInv == ChipInv /\ ClockTypeOK /\ DateInv /\ WriterInv /\ ReaderInv /\ TimeInv
-----------------------------------------------------------------------------
\* Division with remainder, and how the minute follows the seconds.
LEMMA DivMod ==
  ASSUME NEW t \in Nat
  PROVE  /\ Second(t) \in Nat /\ Second(t) < SecondsPerMinute /\ Minute(t) \in Nat
         /\ Minute(t) * SecondsPerMinute + Second(t) = t
  BY ClockConstants DEF Second, Minute

\* The second that follows is in the same minute, or is the first one of the next.
LEMMA NextMinute ==
  ASSUME NEW t \in Nat
  PROVE  /\ Second(t + 1) # 0 => Minute(t + 1) = Minute(t)
         /\ Second(t + 1) = 0 => Minute(t) < Minute(t + 1)
<1> DEFINE S == SecondsPerMinute
<1>1. /\ Minute(t) \in Nat /\ Minute(t + 1) \in Nat
      /\ Second(t) \in Nat /\ Second(t + 1) \in Nat /\ Second(t) < S /\ Second(t + 1) < S
      /\ Minute(t) * S + Second(t) = t /\ Minute(t + 1) * S + Second(t + 1) = t + 1
  BY DivMod
<1>2. \A a, b \in Nat : a * S \in Nat /\ (a < b => a * S + S <= b * S)
  BY ClockConstants
<1>3. Minute(t) < Minute(t + 1) => Minute(t) * S + S <= Minute(t + 1) * S
  BY <1>1, <1>2
<1>4. Minute(t + 1) < Minute(t) => Minute(t + 1) * S + S <= Minute(t) * S
  BY <1>1, <1>2
<1>5. S \in Nat /\ Minute(t) * S \in Nat /\ Minute(t + 1) * S \in Nat
  BY <1>1, <1>2, ClockConstants
<1>6. Minute(t + 1) = Minute(t) => Minute(t + 1) * S = Minute(t) * S
  OBVIOUS
<1> HIDE DEF S
<1> QED
  BY <1>1, <1>3, <1>4, <1>5, <1>6

\* The timestamp of the date of a second is that second.
LEMMA TimestampOfDate ==
  ASSUME NEW t \in Nat
  PROVE  Timestamp(<<Second(t), Minute(t)>>) = t
  BY DivMod DEF Timestamp

\* The chip updates its registers one after another.
LEMMA ChipPreserved ==
  ASSUME ClockInv, [ClockNext]_clockVars
  PROVE  ChipInv'
<1>0. ChipInv
  BY DEF ClockInv
<1>1. CASE ChipUpdate
  <2>0. \A t \in Nat : Second(t) \in Nat /\ Minute(t) \in Nat
    BY DivMod
  <2>1. CASE chip.phase = "shown"
    <3>1. chip' = [chip EXCEPT !.phase = "second", !.time = @ + 1]
      BY <1>1, <2>1 DEF ChipUpdate
    <3>2. chip'.time - 1 = chip.time /\ chip'.time \in Nat /\ chip'.time > 0
      BY <1>0, <3>1 DEF ChipInv
    <3> QED
      BY <1>0, <2>1, <3>1, <3>2 DEF ChipInv
  <2>2. CASE chip.phase = "second"
    <3>1. chip' = [chip EXCEPT !.phase = "minute", !.second = Second(chip.time)]
      BY <1>1, <2>2 DEF ChipUpdate, Second
    <3> QED
      BY <1>0, <2>0, <2>2, <3>1 DEF ChipInv
  <2>3. CASE chip.phase = "minute"
    <3>1. chip' = [chip EXCEPT !.phase = "ended", !.minute = Minute(chip.time)]
      BY <1>1, <2>3 DEF ChipUpdate, Minute
    <3> QED
      BY <1>0, <2>0, <2>3, <3>1 DEF ChipInv
  <2>4. CASE chip.phase = "ended"
    <3>1. chip' = [chip EXCEPT !.phase = "shown", !.ended = TRUE]
      BY <1>1, <2>4 DEF ChipUpdate
    <3> QED
      BY <1>0, <2>4, <3>1 DEF ChipInv
  <2> QED
    BY <1>0, <2>1, <2>2, <2>3, <2>4 DEF ChipInv
<1>2. CASE RtcInterrupt
  BY <1>0, <1>2 DEF ChipInv, RtcInterrupt
<1>3. CASE UNCHANGED chip
  BY <1>0, <1>3 DEF ChipInv
<1> QED
  BY <1>1, <1>2, <1>3 DEF ClockNext, ReadDate, TakePoint, PitInterrupt, StorePoint,
     StartLoad, LoadStep, clockVars

\* Records stay records when fields of theirs get values of their types.
LEMMA RecordUpdates ==
  /\ \A h \in Handler, pc \in HandlerPcs :
        /\ [h EXCEPT !.pc = pc] \in Handler
        /\ [h EXCEPT !.tries = @ + 1, !.pc = pc] \in Handler
        /\ [h EXCEPT !.pc = pc, !.first = h.read] \in Handler
  /\ \A h \in Handler, pc \in HandlerPcs, x \in Nat :
        [h EXCEPT !.pc = pc, !.read[1] = x] \in Handler /\ [h EXCEPT !.pc = pc, !.read[2] = x] \in Handler
  /\ \A h \in Handler, pc \in HandlerPcs, p \in Point : [h EXCEPT !.pc = pc, !.point = p] \in Handler
  /\ \A h \in Handler, pc \in HandlerPcs, s \in SUBSET (Nat \X Nat) :
        /\ [h EXCEPT !.shown = s] \in Handler
        /\ [h EXCEPT !.pc = pc, !.tries = 0, !.shown = s] \in Handler
  /\ \A r \in Reader, pc \in ReaderPcs :
        /\ [r EXCEPT !.pc = pc] \in Reader
        /\ \A x \in Nat : /\ [r EXCEPT !.pc = pc, !.sequence = x] \in Reader
                          /\ [r EXCEPT !.pc = pc, !.point.count = x] \in Reader
                          /\ [r EXCEPT !.pc = pc, !.point.tsc = x] \in Reader
        /\ \A which \in {"base", "prev"} : [r EXCEPT !.loaded[which] = r.point, !.pc = pc] \in Reader
<1>1. ASSUME NEW h \in Handler, NEW pc \in HandlerPcs
      PROVE  /\ [h EXCEPT !.pc = pc] \in Handler
             /\ [h EXCEPT !.tries = @ + 1, !.pc = pc] \in Handler
             /\ [h EXCEPT !.pc = pc, !.first = h.read] \in Handler
  <2>1. [h EXCEPT !.pc = pc] \in Handler
    BY DEF Handler
  <2>2. [h EXCEPT !.tries = @ + 1, !.pc = pc] \in Handler
    <3>1. h.tries + 1 \in Nat
      BY DEF Handler
    <3>2. \A x \in Nat : [h EXCEPT !.tries = x, !.pc = pc] \in Handler
      BY DEF Handler
    <3> QED
      BY <3>1, <3>2
  <2>3. [h EXCEPT !.pc = pc, !.first = h.read] \in Handler
    BY DEF Handler
  <2> QED
    BY <2>1, <2>2, <2>3
<1>2. ASSUME NEW h \in Handler, NEW pc \in HandlerPcs, NEW x \in Nat
      PROVE  [h EXCEPT !.pc = pc, !.read[1] = x] \in Handler /\ [h EXCEPT !.pc = pc, !.read[2] = x] \in Handler
  <2>1. [h.read EXCEPT ![1] = x] \in Nat \X Nat /\ [h.read EXCEPT ![2] = x] \in Nat \X Nat
    BY DEF Handler
  <2>2. \A d \in Nat \X Nat : [h EXCEPT !.pc = pc, !.read = d] \in Handler
    BY DEF Handler
  <2>3. h.read = [h EXCEPT !.pc = pc].read
    BY DEF Handler
  <2> QED
    BY <2>1, <2>2, <2>3
<1>3. ASSUME NEW h \in Handler, NEW pc \in HandlerPcs, NEW p \in Point
      PROVE  [h EXCEPT !.pc = pc, !.point = p] \in Handler
  BY DEF Handler
<1>4. ASSUME NEW h \in Handler, NEW pc \in HandlerPcs, NEW s \in SUBSET (Nat \X Nat)
      PROVE  [h EXCEPT !.shown = s] \in Handler /\ [h EXCEPT !.pc = pc, !.tries = 0, !.shown = s] \in Handler
  BY DEF Handler
<1>5. ASSUME NEW r \in Reader, NEW pc \in ReaderPcs, NEW x \in Nat, NEW which \in {"base", "prev"}
      PROVE  /\ [r EXCEPT !.pc = pc] \in Reader
             /\ [r EXCEPT !.pc = pc, !.sequence = x] \in Reader
             /\ [r EXCEPT !.loaded[which] = r.point, !.pc = pc] \in Reader
  BY DEF Reader
<1>6. ASSUME NEW r \in Reader, NEW pc \in ReaderPcs, NEW x \in Nat
      PROVE  /\ [r EXCEPT !.pc = pc, !.point.count = x] \in Reader
             /\ [r EXCEPT !.pc = pc, !.point.tsc = x] \in Reader
  BY DEF Reader, Point
<1> QED
  BY <1>1, <1>2, <1>3, <1>4, <1>5, <1>6

\* Every step of the chip, the handler and the reader keeps their types.
LEMMA TypesPreserved ==
  ASSUME ClockInv, [ClockNext]_clockVars
  PROVE  ClockTypeOK'
<1>0. ChipInv /\ ClockTypeOK
  BY DEF ClockInv
<1>a. /\ Idle \in HandlerPcs /\ <<"now", 0>> \in HandlerPcs
      /\ \A r \in {"wait", "second", "minute", "check"}, n \in {1, 2} : <<r, n>> \in HandlerPcs
      /\ \A w \in {"base", "prev"}, n \in 1 .. 4 : <<w, n>> \in HandlerPcs
  BY DEF HandlerPcs
<1>b. /\ Idle \in ReaderPcs
      /\ \A r \in {"await", "sequence", "count", "tsc", "check"}, w \in {"base", "prev"} :
            <<r, w>> \in ReaderPcs
  BY DEF ReaderPcs
<1> USE DEF ClockTypeOK
<1>1. CASE ChipUpdate
  <2>1. Display' \in Nat \X Nat
    BY ChipPreserved DEF ChipInv, Display
  <2>2. PICK s \in SUBSET (Nat \X Nat) : handler' = [handler EXCEPT !.shown = s]
    <3>1. handler.shown \in SUBSET (Nat \X Nat)
      BY <1>0 DEF Handler
    <3> QED
      BY <1>1, <2>1, <3>1 DEF ChipUpdate
  <2>3. handler' \in Handler
    BY <1>0, <1>a, <2>2, RecordUpdates
  <2> QED
    BY <1>0, <1>1, <2>3 DEF ChipUpdate
<1>2. CASE RtcInterrupt
  <2>1. Display \in Nat \X Nat
    BY <1>0 DEF ChipInv, Display
  <2>2. PICK pc \in {Idle, <<"wait", 1>>}, shown \in SUBSET {Display} :
           handler' = [handler EXCEPT !.pc = pc, !.tries = 0, !.shown = shown]
    BY <1>2 DEF RtcInterrupt
  <2>3. pc \in HandlerPcs /\ shown \in SUBSET (Nat \X Nat)
    BY <1>a, <2>1, <2>2
  <2>4. handler' \in Handler
    BY <1>0, <2>2, <2>3, RecordUpdates
  <2> QED
    BY <1>0, <1>2, <2>4 DEF RtcInterrupt
<1>3. CASE ReadDate
  <2>1. chip.second \in Nat /\ chip.minute \in Nat
    BY <1>0 DEF ChipInv
  <2>2. handler' \in Handler
    <3>1. ASSUME NEW n \in {1, 2}, At("wait", n), Goes("second", n) PROVE handler' \in Handler
      BY <1>0, <1>a, <3>1, RecordUpdates DEF Goes
    <3>2. ASSUME NEW n \in {1, 2},
                 handler' = [handler EXCEPT !.pc = <<"minute", n>>, !.read[1] = chip.second]
          PROVE  handler' \in Handler
      BY <1>0, <1>a, <2>1, <3>2, RecordUpdates
    <3>3. ASSUME NEW n \in {1, 2},
                 handler' = [handler EXCEPT !.pc = <<"check", n>>, !.read[2] = chip.minute]
          PROVE  handler' \in Handler
      BY <1>0, <1>a, <2>1, <3>3, RecordUpdates
    <3>4. ASSUME NEW n \in {1, 2}, CheckRead(n) PROVE handler' \in Handler
      <4>1. CASE RetryDate
        BY <1>0, <1>a, <4>1, RecordUpdates DEF RetryDate
      <4>2. CASE Goes("now", 0)
        BY <1>0, <1>a, <4>2, RecordUpdates DEF Goes
      <4>3. CASE handler' = [handler EXCEPT !.pc = <<"wait", 2>>, !.first = handler.read]
        BY <1>0, <1>a, <4>3, RecordUpdates
      <4> QED
        BY <3>4, <4>1, <4>2, <4>3 DEF CheckRead
    <3> QED
      BY <1>3, <3>1, <3>2, <3>3, <3>4 DEF ReadDate
  <2> QED
    BY <1>0, <1>3, <2>2 DEF ReadDate
<1>4. CASE TakePoint
  <2>1. NewPoint(Timestamp(handler.read), tsc') \in Point /\ tsc' \in Nat \ {0}
    BY <1>0, <1>4, ClockConstants DEF TakePoint, Handler, Timestamp, NewPoint, Point
  <2>2. PICK w \in {"base", "prev"} :
           handler' = [handler EXCEPT !.pc = <<w, 1>>, !.point = NewPoint(Timestamp(handler.read), tsc')]
    BY <1>4 DEF TakePoint
  <2>3. <<w, 1>> \in HandlerPcs
    BY <1>a
  <2>4. handler' \in Handler
    BY <1>0, <2>1, <2>2, <2>3, RecordUpdates
  <2>5. handler'.point \in Point
    BY <2>4 DEF Handler
  <2> QED
    BY <1>0, <1>4, <2>1, <2>4, <2>5 DEF TakePoint
<1>5. CASE PitInterrupt
  <2>1. NewPoint(interval.prev.count + 1, tsc') \in Point /\ tsc' \in Nat \ {0}
    BY <1>0, <1>5 DEF PitInterrupt, NewPoint, Point, Shared
  <2>2. handler' \in Handler
    <3>1. <<"prev", 1>> \in HandlerPcs
      BY <1>a
    <3>2. handler' = [handler EXCEPT !.pc = <<"prev", 1>>, !.point = NewPoint(interval.prev.count + 1, tsc')]
      BY <1>5 DEF PitInterrupt
    <3> QED
      BY <1>0, <2>1, <3>1, <3>2, RecordUpdates
  <2>3. handler'.point \in Point
    BY <2>2 DEF Handler
  <2> QED
    BY <1>0, <1>5, <2>1, <2>2, <2>3 DEF PitInterrupt
<1>6. CASE StorePoint
  <2>1. PICK which \in {"base", "prev"}, n \in 1 .. 4 :
         /\ interval' = [interval EXCEPT ![which] = StoreStep(@, n, handler.point)]
         /\ handler' = [handler EXCEPT !.pc = IF n < 4 THEN <<which, n + 1>>
                                              ELSE IF which = "base" THEN <<"prev", 1>> ELSE Idle]
    BY <1>6 DEF StorePoint
  <2>2. handler' \in Handler
    <3>1. PICK pc \in HandlerPcs : handler' = [handler EXCEPT !.pc = pc]
      <4>1. n < 4 => n + 1 \in 1 .. 4
        OBVIOUS
      <4>2. n < 4 => <<which, n + 1>> \in HandlerPcs
        BY <1>a, <4>1
      <4>3. <<"prev", 1>> \in HandlerPcs /\ Idle \in HandlerPcs
        BY <1>a
      <4> QED
        BY <2>1, <4>2, <4>3
    <3> QED
      BY <1>0, <3>1, RecordUpdates
  <2>3. StoreStep(interval[which], n, handler.point) \in Shared
    <3>1. interval[which] \in Shared /\ handler.point \in Point
      BY <1>0 DEF Handler
    <3>2. \A x \in Shared, v \in Nat : /\ [x EXCEPT !.sequence = @ + 1] \in Shared
                                       /\ [x EXCEPT !.count = v] \in Shared
                                       /\ [x EXCEPT !.tsc = v] \in Shared
      BY DEF Shared
    <3>3. handler.point.count \in Nat /\ handler.point.tsc \in Nat
      BY <3>1 DEF Point
    <3>4. CASE n \in {1, 4}
      <4>1. StoreStep(interval[which], n, handler.point) = [interval[which] EXCEPT !.sequence = @ + 1]
        BY <3>4 DEF StoreStep
      <4> QED
        BY <3>1, <3>2, <3>3, <4>1
    <3>5. CASE n = 2
      BY <3>1, <3>2, <3>3, <3>5 DEF StoreStep
    <3>6. CASE n = 3
      BY <3>1, <3>2, <3>3, <3>6 DEF StoreStep
    <3> QED
      BY <3>4, <3>5, <3>6
  <2> QED
    BY <1>0, <1>6, <2>1, <2>2, <2>3 DEF StorePoint
<1>7. CASE StartLoad
  BY <1>0, <1>7, <1>b, RecordUpdates DEF StartLoad
<1>8. CASE LoadStep
  <2>1. PICK which \in {"base", "prev"} :
         LET point == interval[which] IN
         \/ ReaderGoes("sequence", which) \/ ReaderGoes("await", which)
         \/ reader' = [reader EXCEPT !.pc = <<"count", which>>, !.sequence = point.sequence]
         \/ reader' = [reader EXCEPT !.pc = <<"tsc", which>>, !.point.count = point.count]
         \/ reader' = [reader EXCEPT !.pc = <<"check", which>>, !.point.tsc = point.tsc]
         \/ CheckLoaded(which)
    BY <1>8 DEF LoadStep
  <2>2. interval[which] \in Shared
    BY <1>0
  <2>3. interval[which].sequence \in Nat /\ interval[which].count \in Nat /\ interval[which].tsc \in Nat
    BY <2>2 DEF Shared
  <2>4. CASE CheckLoaded(which)
    <3>1. CASE ReaderGoes("await", which)
      BY <1>0, <1>b, <1>8, <3>1, RecordUpdates DEF ReaderGoes, LoadStep
    <3>2. CASE reader' = [reader EXCEPT !.loaded[which] = reader.point,
                              !.pc = IF which = "base" THEN <<"await", "prev">> ELSE Idle]
      <4>1. PICK pc \in ReaderPcs : reader' = [reader EXCEPT !.loaded[which] = reader.point, !.pc = pc]
        BY <1>b, <3>2
      <4>2. reader' \in Reader
        BY <1>0, <4>1, RecordUpdates
      <4> QED
        BY <1>0, <1>8, <4>2 DEF LoadStep
    <3> QED
      BY <2>4, <3>1, <3>2 DEF CheckLoaded
  <2>5. CASE ReaderGoes("sequence", which) \/ ReaderGoes("await", which)
    <3>1. PICK pc \in ReaderPcs : reader' = [reader EXCEPT !.pc = pc]
      BY <1>b, <2>5 DEF ReaderGoes
    <3>2. reader' \in Reader
      BY <1>0, <3>1, RecordUpdates
    <3> QED
      BY <1>0, <1>8, <3>2 DEF LoadStep
  <2>6. CASE reader' = [reader EXCEPT !.pc = <<"count", which>>, !.sequence = interval[which].sequence]
    <3>1. reader' \in Reader
      BY <1>0, <1>b, <2>3, <2>6, RecordUpdates
    <3> QED
      BY <1>0, <1>8, <3>1 DEF LoadStep
  <2>7. CASE reader' = [reader EXCEPT !.pc = <<"tsc", which>>, !.point.count = interval[which].count]
    <3>1. reader' \in Reader
      BY <1>0, <1>b, <2>3, <2>7, RecordUpdates
    <3> QED
      BY <1>0, <1>8, <3>1 DEF LoadStep
  <2>8. CASE reader' = [reader EXCEPT !.pc = <<"check", which>>, !.point.tsc = interval[which].tsc]
    <3>1. reader' \in Reader
      BY <1>0, <1>b, <2>3, <2>8, RecordUpdates
    <3> QED
      BY <1>0, <1>8, <3>1 DEF LoadStep
  <2> QED
    BY <2>1, <2>4, <2>5, <2>6, <2>7, <2>8
<1>9. CASE UNCHANGED clockVars
  BY <1>0, <1>9 DEF clockVars
<1> QED
  BY <1>1, <1>2, <1>3, <1>4, <1>5, <1>6, <1>7, <1>8, <1>9 DEF ClockNext

\* The update of the chip: what each phase of it does to the registers and to
\* the dates that have been shown.
LEMMA ChipPhases ==
  ASSUME ChipInv, ClockTypeOK, ChipUpdate
  PROVE  /\ handler'.pc = handler.pc /\ handler'.first = handler.first /\ handler'.read = handler.read
         /\ handler'.point = handler.point
         /\ \/ /\ chip.phase = "shown" /\ chip'.phase = "second"
               /\ chip'.time = chip.time + 1
               /\ Display' = Final /\ chip'.minute = chip.minute /\ handler'.shown = handler.shown
            \/ /\ chip.phase = "second" /\ chip'.phase = "minute"
               /\ chip'.time = chip.time
               /\ chip'.minute = chip.minute /\ handler'.shown = handler.shown
            \/ /\ chip.phase = "minute" /\ chip'.phase = "ended"
               /\ chip'.time = chip.time
               /\ chip'.minute = Minute(chip.time)
               /\ handler'.shown = handler.shown
            \/ /\ chip.phase = "ended" /\ chip'.phase = "shown"
               /\ chip'.time = chip.time
               /\ chip'.minute = chip.minute
               /\ handler'.shown = handler.shown \cup {Final}
<1>1. /\ handler'.pc = handler.pc /\ handler'.first = handler.first /\ handler'.read = handler.read
      /\ handler'.point = handler.point
      /\ handler'.shown = IF chip'.phase # "shown" THEN handler.shown ELSE handler.shown \cup {Display'}
  BY DEF ClockTypeOK, Handler, ChipUpdate, UpdateInProgress
<1>2. chip.phase \in {"shown", "second", "minute", "ended"}
  BY DEF ChipInv
<1>3. CASE chip.phase = "shown"
  <2>1. chip' = [chip EXCEPT !.phase = "second", !.time = chip.time + 1]
    BY <1>3 DEF ChipUpdate
  <2>2. chip'.phase = "second" /\ chip'.time = chip.time + 1 /\ chip'.second = chip.second
        /\ chip'.minute = chip.minute
    BY <2>1 DEF ChipInv
  <2>3. chip.second = Second(chip.time) /\ chip.minute = Minute(chip.time)
    BY <1>3 DEF ChipInv
  <2> QED
    BY <1>1, <1>3, <2>2, <2>3 DEF Display, Final
<1>4. CASE chip.phase = "second"
  <2>1. chip' = [chip EXCEPT !.phase = "minute", !.second = Second(chip.time)]
    BY <1>4 DEF ChipUpdate, Second
  <2>2. chip'.phase = "minute" /\ chip'.time = chip.time /\ chip'.minute = chip.minute
    BY <2>1 DEF ChipInv
  <2> QED
    BY <1>1, <1>4, <2>2
<1>5. CASE chip.phase = "minute"
  <2>1. chip' = [chip EXCEPT !.phase = "ended", !.minute = Minute(chip.time)]
    BY <1>5 DEF ChipUpdate, Minute
  <2>2. chip'.phase = "ended" /\ chip'.time = chip.time /\ chip'.minute = Minute(chip.time)
    BY <2>1 DEF ChipInv
  <2> QED
    BY <1>1, <1>5, <2>2
<1>6. CASE chip.phase = "ended"
  <2>1. chip' = [chip EXCEPT !.phase = "shown", !.ended = TRUE]
    BY <1>6 DEF ChipUpdate
  <2>2. chip'.phase = "shown" /\ chip'.time = chip.time /\ chip'.minute = chip.minute /\ chip'.second = chip.second
    BY <2>1 DEF ChipInv
  <2>3. chip.second = Second(chip.time) /\ chip.minute = Minute(chip.time)
    BY <1>6 DEF ChipInv
  <2> QED
    BY <1>1, <1>6, <2>2, <2>3 DEF Display, Final
<1> QED
  BY <1>2, <1>3, <1>4, <1>5, <1>6

\* A step of Date::read(), as what becomes of the fields of the handler.
LEMMA ReadSteps ==
  ASSUME ClockTypeOK, ReadDate
  PROVE  /\ handler'.shown = handler.shown /\ handler'.point = handler.point
         /\ \/ /\ chip.phase = "shown"
               /\ handler'.first = handler.first /\ handler'.read = handler.read
               /\ \/ At("wait", 1) /\ handler'.pc = <<"second", 1>>
                  \/ At("wait", 2) /\ handler'.pc = <<"second", 2>>
            \/ /\ \/ At("second", 1) /\ handler'.pc = <<"minute", 1>>
                  \/ At("second", 2) /\ handler'.pc = <<"minute", 2>>
               /\ handler'.first = handler.first /\ handler'.read[1] = chip.second
               /\ handler'.read[2] = handler.read[2]
            \/ /\ \/ At("minute", 1) /\ handler'.pc = <<"check", 1>>
                  \/ At("minute", 2) /\ handler'.pc = <<"check", 2>>
               /\ handler'.first = handler.first /\ handler'.read[1] = handler.read[1]
               /\ handler'.read[2] = chip.minute
            \/ /\ At("check", 1) \/ At("check", 2)
               /\ handler'.pc \in {<<"wait", 1>>, Idle}
            \/ /\ At("check", 1) /\ handler'.pc = <<"wait", 2>> /\ chip.phase = "shown"
               /\ handler'.first = handler.read /\ handler'.read = handler.read
            \/ /\ At("check", 2) /\ handler'.pc = <<"now", 0>> /\ chip.phase = "shown"
               /\ handler'.first = handler.first /\ handler'.read = handler.read
               /\ handler.first = handler.read
<1>0. handler \in Handler /\ handler.read \in Nat \X Nat
  BY DEF ClockTypeOK, Handler
<1>1. PICK n \in {1, 2} :
         \/ At("wait", n) /\ ~UpdateInProgress /\ Goes("second", n)
         \/ At("second", n) /\ handler' = [handler EXCEPT !.pc = <<"minute", n>>, !.read[1] = chip.second]
         \/ At("minute", n) /\ handler' = [handler EXCEPT !.pc = <<"check", n>>, !.read[2] = chip.minute]
         \/ At("check", n) /\ CheckRead(n)
  BY DEF ReadDate
<1>2. CASE At("wait", n) /\ ~UpdateInProgress /\ Goes("second", n)
  <2>1. handler'.pc = <<"second", n>> /\ handler'.first = handler.first /\ handler'.read = handler.read
        /\ handler'.shown = handler.shown /\ handler'.point = handler.point
    BY <1>0, <1>2 DEF Handler, Goes
  <2> QED
    BY <1>2, <2>1 DEF UpdateInProgress
<1>3. CASE At("second", n) /\ handler' = [handler EXCEPT !.pc = <<"minute", n>>, !.read[1] = chip.second]
  <2>1. handler'.pc = <<"minute", n>> /\ handler'.first = handler.first
        /\ handler'.read = [handler.read EXCEPT ![1] = chip.second]
        /\ handler'.shown = handler.shown /\ handler'.point = handler.point
    BY <1>0, <1>3 DEF Handler
  <2>2. handler'.read[1] = chip.second /\ handler'.read[2] = handler.read[2]
    BY <1>0, <2>1
  <2> QED
    BY <1>3, <2>1, <2>2
<1>4. CASE At("minute", n) /\ handler' = [handler EXCEPT !.pc = <<"check", n>>, !.read[2] = chip.minute]
  <2>1. handler'.pc = <<"check", n>> /\ handler'.first = handler.first
        /\ handler'.read = [handler.read EXCEPT ![2] = chip.minute]
        /\ handler'.shown = handler.shown /\ handler'.point = handler.point
    BY <1>0, <1>4 DEF Handler
  <2>2. handler'.read[2] = chip.minute /\ handler'.read[1] = handler.read[1]
    BY <1>0, <2>1
  <2> QED
    BY <1>4, <2>1, <2>2
<1>5. CASE At("check", n) /\ CheckRead(n)
  <2>1. CASE RetryDate
    <3>1. handler'.pc \in {<<"wait", 1>>, Idle} /\ handler'.shown = handler.shown /\ handler'.point = handler.point
      BY <1>0, <2>1 DEF Handler, RetryDate
    <3> QED
      BY <1>5, <3>1
  <2>2. CASE n = 1 /\ ~UpdateInProgress /\ handler' = [handler EXCEPT !.pc = <<"wait", 2>>, !.first = handler.read]
    <3>1. handler'.pc = <<"wait", 2>> /\ handler'.first = handler.read /\ handler'.read = handler.read
          /\ handler'.shown = handler.shown /\ handler'.point = handler.point
      BY <1>0, <2>2 DEF Handler
    <3> QED
      BY <1>5, <2>2, <3>1 DEF UpdateInProgress
  <2>3. CASE n = 2 /\ ~UpdateInProgress /\ handler.first = handler.read /\ Goes("now", 0)
    <3>1. handler'.pc = <<"now", 0>> /\ handler'.first = handler.first /\ handler'.read = handler.read
          /\ handler'.shown = handler.shown /\ handler'.point = handler.point
      BY <1>0, <2>3 DEF Handler, Goes
    <3> QED
      BY <1>5, <2>3, <3>1 DEF UpdateInProgress
  <2> QED
    BY <1>5, <2>1, <2>2, <2>3 DEF CheckRead
<1> QED
  BY <1>1, <1>2, <1>3, <1>4, <1>5

\* What the registers show together.
LEMMA Registers ==
  ASSUME ChipInv
  PROVE  /\ chip.phase \in {"shown", "ended"} => Display = Final
         /\ chip.phase = "minute" =>
               /\ chip.second = Second(chip.time)
               /\ Second(chip.time) # 0 => chip.minute = Minute(chip.time)
               /\ Second(chip.time) = 0 => chip.minute < Minute(chip.time)
<1>1. CASE chip.phase \in {"shown", "ended"}
  BY <1>1 DEF ChipInv, Display, Final
<1>2. CASE chip.phase = "minute"
  <2>1. chip.time - 1 \in Nat /\ (chip.time - 1) + 1 = chip.time
        /\ chip.second = Second(chip.time) /\ chip.minute = Minute(chip.time - 1)
    BY <1>2 DEF ChipInv
  <2>2. /\ Second((chip.time - 1) + 1) # 0 => Minute((chip.time - 1) + 1) = Minute(chip.time - 1)
        /\ Second((chip.time - 1) + 1) = 0 => Minute(chip.time - 1) < Minute((chip.time - 1) + 1)
    BY <2>1, NextMinute
  <2> QED
    BY <1>2, <2>1, <2>2
<1> QED
  BY <1>1, <1>2

\* The steps that leave Date::read() alone.
LEMMA OtherSteps ==
  ASSUME ClockTypeOK, TakePoint \/ PitInterrupt \/ StorePoint
  PROVE  /\ UNCHANGED <<chip, reader, source>>
         /\ handler'.pc = Idle \/ \E w \in {"base", "prev"}, n \in 1 .. 4 : handler'.pc = <<w, n>>
<1>0. handler \in Handler
  BY DEF ClockTypeOK
<1>1. CASE TakePoint
  <2>1. handler'.pc = <<IF InitBaseNeeded THEN "base" ELSE "prev", 1>>
    BY <1>0, <1>1 DEF TakePoint, Handler
  <2> QED
    BY <1>1, <2>1 DEF TakePoint
<1>2. CASE PitInterrupt
  <2>1. handler'.pc = <<"prev", 1>>
    BY <1>0, <1>2 DEF PitInterrupt, Handler
  <2> QED
    BY <1>2, <2>1 DEF PitInterrupt
<1>3. CASE StorePoint
  <2>1. PICK which \in {"base", "prev"}, n \in 1 .. 4 :
           handler' = [handler EXCEPT !.pc = IF n < 4 THEN <<which, n + 1>>
                                              ELSE IF which = "base" THEN <<"prev", 1>> ELSE Idle]
    BY <1>3 DEF StorePoint
  <2>2. handler'.pc = IF n < 4 THEN <<which, n + 1>> ELSE IF which = "base" THEN <<"prev", 1>> ELSE Idle
    BY <1>0, <2>1 DEF Handler
  <2>3. n < 4 => n + 1 \in 1 .. 4
    OBVIOUS
  <2> QED
    BY <1>3, <2>2, <2>3 DEF StorePoint
<1> QED
  BY <1>1, <1>2, <1>3


\* A date whose parts the handler has read twice alike is one that the chip showed as a whole.
LEMMA DatePreserved ==
  ASSUME ClockInv, [ClockNext]_clockVars
  PROVE  DateInv'
<1>0. ChipInv /\ ClockTypeOK /\ DateInv /\ ChipInv' /\ ClockTypeOK'
  BY ChipPreserved, TypesPreserved DEF ClockInv
<1>a. handler.first \in Nat \X Nat /\ handler.read \in Nat \X Nat /\ handler'.first \in Nat \X Nat /\ handler'.read \in Nat \X Nat
  BY <1>0 DEF ClockTypeOK, Handler
<1>b. \A d \in Nat \X Nat : d = <<d[1], d[2]>> /\ d[1] \in Nat /\ d[2] \in Nat
  OBVIOUS
<1>c. chip.minute \in Nat /\ chip'.minute \in Nat /\ Minute(chip.time) \in Nat
  BY <1>0, DivMod DEF ChipInv
<1>1. CASE ChipUpdate
  <2>1. handler'.pc = handler.pc /\ handler'.first = handler.first /\ handler'.read = handler.read
    BY <1>0, <1>1, ChipPhases
  <2>2. CASE chip.phase = "shown"
    <3>1. chip'.phase = "second" /\ Display' = Final /\ chip'.minute = chip.minute /\ handler'.shown = handler.shown
      BY <1>0, <1>1, <2>2, ChipPhases
    <3>2. Reads(1) \/ Reads(2) => Final \in handler.shown
      BY <1>0, <2>2 DEF DateInv
    <3>3. Reads(1) \/ Reads(2) => WillBeShown \subseteq WillBeShown'
      BY <3>1, <3>2 DEF WillBeShown
    <3>4. ~Torn
      BY <2>2 DEF Torn
    <3> HIDE DEF WillBeShown, Display, Final, Torn
    <3> QED
      BY <1>0, <2>1, <2>2, <3>1, <3>2, <3>3, <3>4 DEF DateInv, Reads, At
  <2>3. CASE chip.phase = "second"
    <3>1. chip'.phase = "minute" /\ chip'.minute = chip.minute /\ WillBeShown' = WillBeShown /\ handler'.shown = handler.shown
      BY <1>0, <1>1, <2>3, ChipPhases DEF WillBeShown, Final
    <3>2. ~Torn
      BY <2>3 DEF Torn
    <3> QED
      BY <1>0, <2>1, <2>3, <3>1, <3>2 DEF DateInv, Reads, At
  <2>4. CASE chip.phase = "minute"
    <3>1. chip'.phase = "ended" /\ chip'.minute = Minute(chip.time) /\ WillBeShown' = WillBeShown /\ handler'.shown = handler.shown
      BY <1>0, <1>1, <2>4, ChipPhases DEF WillBeShown, Final
    <3>2. Torn => chip.minute < chip'.minute /\ <<0, chip'.minute>> \in WillBeShown
      BY <1>0, <3>1, Registers DEF Torn, WillBeShown, Final
    <3>3. ~Torn => chip'.minute = chip.minute
      BY <1>0, <2>4, <3>1, Registers DEF Torn
    <3>4. ~Torn'
      BY <3>1 DEF Torn
    <3>5. CASE Torn
      BY <1>0, <1>a, <1>b, <1>c, <2>1, <2>4, <3>1, <3>2, <3>4, <3>5 DEF DateInv, Reads, At
    <3>6. CASE ~Torn
      BY <1>0, <2>1, <2>4, <3>1, <3>3, <3>4, <3>6 DEF DateInv, Reads, At
    <3> QED
      BY <3>5, <3>6
  <2>5. CASE chip.phase = "ended"
    <3>1. chip'.phase = "shown" /\ chip'.minute = chip.minute /\ Final' = Final /\ handler'.shown = handler.shown \cup {Final}
      BY <1>0, <1>1, <2>5, ChipPhases DEF Final
    <3>2. WillBeShown' = WillBeShown /\ Final' \in handler'.shown
      BY <3>1 DEF WillBeShown
    <3>3. ~Torn
      BY <2>5 DEF Torn
    <3> QED
      BY <1>0, <2>1, <2>5, <3>1, <3>2, <3>3 DEF DateInv, Reads, At
  <2> QED
    BY <1>0, <2>2, <2>3, <2>4, <2>5 DEF ChipInv
<1>2. CASE RtcInterrupt
  <2>1. PICK pc \in {Idle, <<"wait", 1>>} :
           handler' = [handler EXCEPT !.pc = pc, !.tries = 0, !.shown = IF UpdateInProgress THEN {} ELSE {Display}]
    BY <1>2 DEF RtcInterrupt
  <2>2. handler'.pc = pc /\ handler'.shown = IF UpdateInProgress THEN {} ELSE {Display}
    BY <1>0, <2>1 DEF ClockTypeOK, Handler
  <2>3. chip'.phase = chip.phase /\ chip'.time = chip.time
    BY <1>0, <1>2 DEF RtcInterrupt, ChipInv
  <2>4. chip.phase = "shown" => Final' = Display
    BY <1>0, <2>3, Registers DEF Final
  <2> QED
    BY <2>2, <2>3, <2>4 DEF DateInv, Reads, At, UpdateInProgress, Idle
<1>3. CASE ReadDate
  <2>0. UNCHANGED chip
    BY <1>3 DEF ReadDate
  <2>1. handler'.shown = handler.shown /\ WillBeShown' = WillBeShown /\ Torn' = Torn /\ Final' = Final /\ Display' = Display
    BY <1>0, <1>3, <2>0, ReadSteps DEF WillBeShown, Torn, Final, Display
  <2>2. CASE chip.phase = "shown" /\ handler'.first = handler.first /\ handler'.read = handler.read
             /\ (\/ At("wait", 1) /\ handler'.pc = <<"second", 1>>
                 \/ At("wait", 2) /\ handler'.pc = <<"second", 2>>)
    BY <1>0, <2>0, <2>1, <2>2 DEF DateInv, Reads, At
  <2>3. CASE /\ \/ At("second", 1) /\ handler'.pc = <<"minute", 1>>
                \/ At("second", 2) /\ handler'.pc = <<"minute", 2>>
             /\ handler'.first = handler.first /\ handler'.read[1] = chip.second
    <3>1. <<chip.second, chip.minute>> \in WillBeShown \/ (Torn /\ chip.second = 0)
      <4>1. CASE chip.phase \in {"shown", "ended"}
        BY <1>0, <4>1, Registers DEF WillBeShown, Display
      <4>2. CASE chip.phase = "second"
        BY <1>0, <2>3, <4>2 DEF DateInv, Reads, At, WillBeShown, Display
      <4>3. CASE chip.phase = "minute"
        BY <1>0, <4>3, Registers DEF Torn, WillBeShown, Final
      <4> QED
        BY <1>0, <4>1, <4>2, <4>3 DEF ChipInv
    <3> QED
      BY <1>0, <2>0, <2>1, <2>3, <3>1 DEF DateInv, Reads, At
  <2>4. CASE At("minute", 1) /\ handler'.pc = <<"check", 1>> /\ handler'.read[1] = handler.read[1]
             /\ handler'.read[2] = chip.minute
    <3>1. handler'.read = <<handler.read[1], chip.minute>>
      BY <1>a, <1>b, <2>4
    <3> QED
      BY <1>0, <1>c, <2>0, <2>1, <2>4, <3>1 DEF DateInv, Reads, At
  <2>5. CASE At("minute", 2) /\ handler'.pc = <<"check", 2>> /\ handler'.first = handler.first
             /\ handler'.read[1] = handler.read[1] /\ handler'.read[2] = chip.minute
    <3>1. handler'.read = <<handler.read[1], chip.minute>>
      BY <1>a, <1>b, <2>5
    <3>2. handler'.first = handler'.read => handler'.read \in WillBeShown
      <4>1. SUFFICES ASSUME handler.first = <<handler.read[1], chip.minute>>
                     PROVE  handler.first \in WillBeShown
        BY <2>5, <3>1
      <4>2. handler.first[1] = handler.read[1] /\ handler.first[2] = chip.minute
        BY <4>1
      <4>3. ~(handler.first[2] < chip.minute)
        BY <1>c, <4>2
      <4>4. <<handler.read[1], chip.minute>> \in WillBeShown \/ handler.first[1] = 0
        BY <1>0, <2>5, <4>2, <4>3 DEF DateInv
      <4>5. handler.first[1] = 0 => handler.first \in WillBeShown
        BY <1>0, <2>5, <4>3 DEF DateInv, Reads, At
      <4> QED
        BY <4>1, <4>4, <4>5
    <3> QED
      BY <1>0, <2>0, <2>1, <2>5, <3>2 DEF DateInv, Reads, At
  <2>6. CASE (At("check", 1) \/ At("check", 2)) /\ handler'.pc \in {<<"wait", 1>>, Idle}
    BY <1>0, <2>0, <2>1, <2>6 DEF DateInv, Reads, At, Idle
  <2>7. CASE At("check", 1) /\ handler'.pc = <<"wait", 2>> /\ chip.phase = "shown" /\ handler'.first = handler.read
    <3>1. ~Torn
      BY <2>7 DEF Torn
    <3> QED
      BY <1>0, <2>0, <2>1, <2>7, <3>1 DEF DateInv, Reads, At
  <2>8. CASE At("check", 2) /\ handler'.pc = <<"now", 0>> /\ chip.phase = "shown" /\ handler'.read = handler.read
             /\ handler.first = handler.read
    <3>1. WillBeShown = handler.shown
      BY <1>0, <2>8 DEF DateInv, Reads, At, WillBeShown
    <3> QED
      BY <1>0, <2>0, <2>1, <2>8, <3>1 DEF DateInv, Reads, At
  <2> QED
    BY <1>0, <1>3, <2>2, <2>3, <2>4, <2>5, <2>6, <2>7, <2>8, ReadSteps
<1>4. CASE TakePoint \/ PitInterrupt \/ StorePoint
  <2>1. handler'.pc = Idle \/ \E w \in {"base", "prev"}, n \in 1 .. 4 : handler'.pc = <<w, n>>
    BY <1>0, <1>4, OtherSteps
  <2>2. /\ handler'.pc # <<"now", 0>>
        /\ \A n \in {1, 2} : /\ handler'.pc # <<"wait", n>> /\ handler'.pc # <<"second", n>>
                             /\ handler'.pc # <<"minute", n>> /\ handler'.pc # <<"check", n>>
    BY <2>1 DEF Idle
  <2> QED
    BY <2>2 DEF DateInv, Reads, At
<1>5. CASE UNCHANGED <<chip, handler>>
  BY <1>0, <1>5 DEF DateInv, Reads, At, WillBeShown, Final, Torn, Display
<1> QED
  BY <1>1, <1>2, <1>3, <1>4, <1>5 DEF ClockNext, StartLoad, LoadStep, clockVars

\* A step of AtomicCorrelationPoint::store(), as what becomes of the fields.
LEMMA StoreSteps ==
  ASSUME ClockTypeOK, StorePoint
  PROVE  \E which \in {"base", "prev"}, n \in 1 .. 4 :
         /\ At(which, n)
         /\ handler'.pc = IF n < 4 THEN <<which, n + 1>> ELSE IF which = "base" THEN <<"prev", 1>> ELSE Idle
         /\ handler'.point = handler.point
         /\ \A w \in {"base", "prev"} : w # which => interval'[w] = interval[w]
         /\ interval'[which].sequence = IF n \in {1, 4} THEN interval[which].sequence + 1 ELSE interval[which].sequence
         /\ interval'[which].count = IF n = 2 THEN handler.point.count ELSE interval[which].count
         /\ interval'[which].tsc = IF n = 3 THEN handler.point.tsc ELSE interval[which].tsc
<1>0. handler \in Handler /\ interval \in [{"base", "prev"} -> Shared]
  BY DEF ClockTypeOK
<1>1. PICK which \in {"base", "prev"}, n \in 1 .. 4 :
         /\ At(which, n)
         /\ interval' = [interval EXCEPT ![which] = StoreStep(@, n, handler.point)]
         /\ handler' = [handler EXCEPT !.pc = IF n < 4 THEN <<which, n + 1>>
                                              ELSE IF which = "base" THEN <<"prev", 1>> ELSE Idle]
  BY DEF StorePoint
<1>2. /\ handler'.pc = IF n < 4 THEN <<which, n + 1>> ELSE IF which = "base" THEN <<"prev", 1>> ELSE Idle
      /\ handler'.point = handler.point
  BY <1>0, <1>1 DEF Handler
<1>3. /\ \A w \in {"base", "prev"} : w # which => interval'[w] = interval[w]
      /\ interval'[which] = StoreStep(interval[which], n, handler.point)
  BY <1>0, <1>1
<1>4. interval[which] \in Shared
  BY <1>0
<1>5. CASE n \in {1, 4}
  <2>1. interval'[which] = [interval[which] EXCEPT !.sequence = @ + 1]
    BY <1>3, <1>5 DEF StoreStep
  <2>2. /\ interval'[which].sequence = interval[which].sequence + 1
        /\ interval'[which].count = interval[which].count /\ interval'[which].tsc = interval[which].tsc
    BY <1>4, <2>1 DEF Shared
  <2> QED
    BY <1>1, <1>2, <1>3, <1>5, <2>2
<1>6. CASE n = 2
  <2>1. interval'[which] = [interval[which] EXCEPT !.count = handler.point.count]
    BY <1>3, <1>6 DEF StoreStep
  <2>2. /\ interval'[which].sequence = interval[which].sequence
        /\ interval'[which].count = handler.point.count /\ interval'[which].tsc = interval[which].tsc
    BY <1>4, <2>1 DEF Shared
  <2> QED
    BY <1>1, <1>2, <1>3, <1>6, <2>2
<1>7. CASE n = 3
  <2>1. interval'[which] = [interval[which] EXCEPT !.tsc = handler.point.tsc]
    BY <1>3, <1>7 DEF StoreStep
  <2>2. /\ interval'[which].sequence = interval[which].sequence
        /\ interval'[which].count = interval[which].count /\ interval'[which].tsc = handler.point.tsc
    BY <1>4, <2>1 DEF Shared
  <2> QED
    BY <1>1, <1>2, <1>3, <1>7, <2>2
<1> QED
  BY <1>5, <1>6, <1>7

\* TakePoint and PitInterrupt: a new point with a new TSC.
LEMMA NewPoints ==
  ASSUME ClockTypeOK, TakePoint \/ PitInterrupt
  PROVE  /\ tsc' = tsc + 1 /\ handler'.point.tsc = tsc + 1 /\ stored' = stored \cup {handler'.point}
         /\ UNCHANGED <<chip, interval, reader, source>>
         /\ \/ /\ At("now", 0)
               /\ handler'.pc = <<IF InitBaseNeeded THEN "base" ELSE "prev", 1>>
               /\ handler'.point.count = Timestamp(handler.read)
            \/ /\ handler.pc = Idle /\ source = "pit"
               /\ handler'.pc = <<"prev", 1>>
               /\ handler'.point.count = interval.prev.count + 1
<1>0. handler \in Handler
  BY DEF ClockTypeOK
<1>1. CASE TakePoint
  <2>1. handler'.pc = <<IF InitBaseNeeded THEN "base" ELSE "prev", 1>>
        /\ handler'.point = NewPoint(Timestamp(handler.read), tsc')
    BY <1>0, <1>1 DEF TakePoint, Handler
  <2>2. handler'.point.count = Timestamp(handler.read) /\ handler'.point.tsc = tsc'
    BY <2>1 DEF NewPoint
  <2> QED
    BY <1>1, <2>1, <2>2 DEF TakePoint
<1>2. CASE PitInterrupt
  <2>1. handler'.pc = <<"prev", 1>> /\ handler'.point = NewPoint(interval.prev.count + 1, tsc')
    BY <1>0, <1>2 DEF PitInterrupt, Handler
  <2>2. handler'.point.count = interval.prev.count + 1 /\ handler'.point.tsc = tsc'
    BY <2>1 DEF NewPoint
  <2> QED
    BY <1>2, <2>1, <2>2 DEF PitInterrupt
<1> QED
  BY <1>1, <1>2

\* The steps of the chip, of Date::read() and of the reader store nothing.
LEMMA QuietSteps ==
  ASSUME ClockTypeOK, ChipInv,
         ChipUpdate \/ RtcInterrupt \/ ReadDate \/ StartLoad \/ LoadStep \/ UNCHANGED clockVars
  PROVE  /\ UNCHANGED <<interval, tsc, source, stored>>
         /\ \/ handler'.pc = handler.pc /\ handler'.point = handler.point
            \/ /\ handler.pc \notin ({"base", "prev"} \X (1 .. 4)) /\ handler'.pc \notin ({"base", "prev"} \X (1 .. 4))
               /\ handler.pc[1] \notin {"base", "prev"} /\ handler'.pc[1] \notin {"base", "prev"}
<1>0. handler \in Handler
  BY DEF ClockTypeOK
<1>1. CASE ChipUpdate
  BY <1>1, ChipPhases DEF ChipUpdate
<1>2. CASE RtcInterrupt
  <2>1. PICK pc \in {Idle, <<"wait", 1>>} :
           handler' = [handler EXCEPT !.pc = pc, !.tries = 0, !.shown = IF UpdateInProgress THEN {} ELSE {Display}]
    BY <1>2 DEF RtcInterrupt
  <2>2. handler'.pc = pc
    BY <1>0, <2>1 DEF Handler
  <2>3. handler.pc = Idle /\ handler'.pc \in {Idle, <<"wait", 1>>} /\ UNCHANGED <<interval, tsc, source, stored>>
    BY <1>2, <2>1, <2>2 DEF RtcInterrupt
  <2>4. \A pos \in {Idle, <<"wait", 1>>} : pos \notin ({"base", "prev"} \X (1 .. 4)) /\ pos[1] \notin {"base", "prev"}
    BY DEF Idle
  <2> QED
    BY <2>3, <2>4
<1>3. CASE ReadDate
  <2>1. \E r \in {"wait", "second", "minute", "check"}, n \in {1, 2} : handler.pc = <<r, n>>
    BY <1>3 DEF ReadDate, At
  <2>2. handler'.pc \in {Idle, <<"now", 0>>} \/ \E r \in {"wait", "second", "minute", "check"}, n \in {1, 2} : handler'.pc = <<r, n>>
    BY <1>3, ReadSteps
  <2> QED
    BY <1>3, <2>1, <2>2 DEF ReadDate, Idle
<1>4. CASE StartLoad \/ LoadStep \/ UNCHANGED clockVars
  BY <1>4 DEF StartLoad, LoadStep, clockVars
<1> QED
  BY <1>1, <1>2, <1>3, <1>4

\* Sequence numbers that are locked are odd.
LEMMA Parity ==
  ASSUME NEW s \in Nat
  PROVE  SequenceIsLocked(s + 1) <=> ~SequenceIsLocked(s)
  BY DEF SequenceIsLocked

\* The sequence of a point is odd exactly while the handler stores it, and even otherwise.
LEMMA WriterPreserved ==
  ASSUME ClockInv, [ClockNext]_clockVars
  PROVE  WriterInv'
<1>0. ChipInv /\ ClockTypeOK /\ WriterInv /\ ClockTypeOK'
  BY TypesPreserved DEF ClockInv
<1>a. \A w \in {"base", "prev"} : interval[w].sequence \in Nat /\ interval'[w].sequence \in Nat
  BY <1>0 DEF ClockTypeOK, Shared
<1>1. CASE ChipUpdate \/ RtcInterrupt \/ ReadDate \/ StartLoad \/ LoadStep \/ UNCHANGED clockVars
  <2>1. UNCHANGED <<interval, tsc, source, stored>>
    BY <1>0, <1>1, QuietSteps
  <2>2. CASE handler'.pc = handler.pc /\ handler'.point = handler.point
    BY <1>0, <2>1, <2>2 DEF WriterInv, Writes, At, PointOf
  <2>3. CASE handler.pc \notin ({"base", "prev"} \X (1 .. 4)) /\ handler'.pc \notin ({"base", "prev"} \X (1 .. 4))
    <3>1. \A w \in {"base", "prev"}, n \in 1 .. 4 : handler.pc # <<w, n>> /\ handler'.pc # <<w, n>>
      BY <2>3
    <3>2. \A w \in {"base", "prev"} : ~Writes(w) /\ ~Writes(w)' /\ ~At(w, 3) /\ ~At(w, 3)'
      BY <3>1 DEF Writes, At
    <3> QED
      BY <1>0, <2>1, <3>1, <3>2 DEF WriterInv, At, PointOf
  <2> QED
    BY <1>0, <1>1, <2>2, <2>3, QuietSteps
<1>2. CASE TakePoint \/ PitInterrupt
  <2>1. UNCHANGED interval /\ stored' = stored \cup {handler'.point}
    BY <1>0, <1>2, NewPoints
  <2>2. handler.pc \in {Idle, <<"now", 0>>} /\ handler'.pc \in {<<"base", 1>>, <<"prev", 1>>}
    BY <1>0, <1>2, NewPoints DEF At
  <2>3. \A w \in {"base", "prev"} : ~Writes(w) /\ ~Writes(w)' /\ ~At(w, 3) /\ ~At(w, 3)'
    BY <2>2 DEF Writes, At, Idle
  <2> QED
    BY <1>0, <2>1, <2>3 DEF WriterInv, PointOf
<1>3. CASE StorePoint
  <2>1. PICK which \in {"base", "prev"}, n \in 1 .. 4 :
         /\ At(which, n)
         /\ handler'.pc = IF n < 4 THEN <<which, n + 1>> ELSE IF which = "base" THEN <<"prev", 1>> ELSE Idle
         /\ handler'.point = handler.point
         /\ \A w \in {"base", "prev"} : w # which => interval'[w] = interval[w]
         /\ interval'[which].sequence = IF n \in {1, 4} THEN interval[which].sequence + 1 ELSE interval[which].sequence
         /\ interval'[which].count = IF n = 2 THEN handler.point.count ELSE interval[which].count
         /\ interval'[which].tsc = IF n = 3 THEN handler.point.tsc ELSE interval[which].tsc
    BY <1>0, <1>3, StoreSteps
  <2>2. UNCHANGED stored
    BY <1>3 DEF StorePoint
  <2>3. handler.point \in stored
    BY <1>0, <2>1 DEF WriterInv
  <2>4. handler.point = NewPoint(handler.point.count, handler.point.tsc)
    BY <1>0 DEF ClockTypeOK, Handler, Point, NewPoint
  <2>5. ASSUME NEW w \in {"base", "prev"}, w # which
        PROVE  /\ SequenceIsLocked(interval'[w].sequence) <=> Writes(w)'
               /\ ~At(w, 3)' /\ PointOf(interval'[w]) \in stored'
    <3>1. ~Writes(w) /\ ~At(w, 3)
      BY <2>1, <2>5 DEF Writes, At
    <3>2. ~Writes(w)' /\ ~At(w, 3)'
      BY <2>1, <2>5 DEF Writes, At, Idle
    <3>3. interval'[w] = interval[w]
      BY <2>1, <2>5
    <3> QED
      BY <1>0, <2>2, <3>1, <3>2, <3>3 DEF WriterInv
  <2>6. /\ SequenceIsLocked(interval'[which].sequence) <=> Writes(which)'
        /\ ~At(which, 3)' => PointOf(interval'[which]) \in stored'
        /\ At(which, 3)' => interval'[which].count = handler'.point.count
    <3>0. /\ SequenceIsLocked(interval[which].sequence) <=> Writes(which)
          /\ ~At(which, 3) => PointOf(interval[which]) \in stored
          /\ At(which, 3) => interval[which].count = handler.point.count
      BY <1>0 DEF WriterInv
    <3>1. CASE n = 1
      <4>1. ~Writes(which) /\ Writes(which)' /\ ~At(which, 3) /\ ~At(which, 3)'
        BY <2>1, <3>1 DEF Writes, At
      <4>2. PointOf(interval'[which]) = PointOf(interval[which])
        BY <2>1, <3>1 DEF PointOf
      <4>3. interval'[which].sequence = interval[which].sequence + 1
        BY <2>1, <3>1
      <4> QED
        BY <1>a, <2>2, <3>0, <4>1, <4>2, <4>3, Parity
    <3>2. CASE n = 2
      <4>1. Writes(which) /\ Writes(which)' /\ At(which, 3)'
        BY <2>1, <3>2 DEF Writes, At
      <4> QED
        BY <2>1, <3>0, <3>2, <4>1
    <3>3. CASE n = 3
      <4>1. Writes(which) /\ Writes(which)' /\ At(which, 3) /\ ~At(which, 3)'
        BY <2>1, <3>3 DEF Writes, At
      <4>2. PointOf(interval'[which]) = handler.point
        BY <2>1, <2>4, <3>0, <3>3, <4>1 DEF PointOf
      <4> QED
        BY <2>1, <2>2, <2>3, <3>0, <3>3, <4>1, <4>2
    <3>4. CASE n = 4
      <4>1. Writes(which) /\ ~Writes(which)' /\ ~At(which, 3) /\ ~At(which, 3)'
        BY <2>1, <3>4 DEF Writes, At, Idle
      <4>2. PointOf(interval'[which]) = PointOf(interval[which])
        BY <2>1, <3>4 DEF PointOf
      <4>3. interval'[which].sequence = interval[which].sequence + 1
        BY <2>1, <3>4
      <4> QED
        BY <1>a, <2>2, <3>0, <4>1, <4>2, <4>3, Parity
    <3> QED
      BY <3>1, <3>2, <3>3, <3>4
  <2> QED
    BY <2>1, <2>2, <2>3, <2>5, <2>6 DEF WriterInv
<1> QED
  BY <1>1, <1>2, <1>3 DEF ClockNext

\* A step of AtomicCorrelationPoint::load(), as what becomes of the fields.
LEMMA LoadSteps ==
  ASSUME ClockTypeOK, StartLoad \/ LoadStep
  PROVE  /\ UNCHANGED <<chip, handler, interval, tsc, source, stored>>
         /\ \E which \in {"base", "prev"} :
            \/ /\ reader'.pc \in {<<"await", which>>, <<"sequence", which>>} /\ reader'.loaded = reader.loaded
            \/ /\ reader'.pc = <<"count", which>> /\ ~SequenceIsLocked(interval[which].sequence)
               /\ reader'.sequence = interval[which].sequence /\ reader'.loaded = reader.loaded
            \/ /\ reader.pc = <<"count", which>> /\ reader'.pc = <<"tsc", which>>
               /\ reader'.sequence = reader.sequence /\ reader'.loaded = reader.loaded
               /\ reader'.point.count = interval[which].count
            \/ /\ reader.pc = <<"tsc", which>> /\ reader'.pc = <<"check", which>>
               /\ reader'.sequence = reader.sequence /\ reader'.loaded = reader.loaded
               /\ reader'.point.count = reader.point.count /\ reader'.point.tsc = interval[which].tsc
            \/ /\ reader.pc = <<"check", which>>
               /\ reader'.pc = IF which = "base" THEN <<"await", "prev">> ELSE Idle
               /\ reader.sequence = interval[which].sequence
               /\ reader'.loaded = [reader.loaded EXCEPT ![which] = reader.point]
<1>0. reader \in Reader
  BY DEF ClockTypeOK
<1>1. CASE StartLoad
  BY <1>0, <1>1 DEF StartLoad, Reader
<1>2. CASE LoadStep
  <2>1. PICK which \in {"base", "prev"} :
         \/ ReaderGoes("sequence", which) \/ ReaderGoes("await", which)
         \/ /\ ~SequenceIsLocked(interval[which].sequence)
            /\ reader' = [reader EXCEPT !.pc = <<"count", which>>, !.sequence = interval[which].sequence]
         \/ /\ reader.pc = <<"count", which>>
            /\ reader' = [reader EXCEPT !.pc = <<"tsc", which>>, !.point.count = interval[which].count]
         \/ /\ reader.pc = <<"tsc", which>>
            /\ reader' = [reader EXCEPT !.pc = <<"check", which>>, !.point.tsc = interval[which].tsc]
         \/ reader.pc = <<"check", which>> /\ CheckLoaded(which)
    BY <1>2 DEF LoadStep
  <2>2. UNCHANGED <<chip, handler, interval, tsc, source, stored>>
    BY <1>2 DEF LoadStep
  <2>3. CASE ReaderGoes("sequence", which) \/ ReaderGoes("await", which)
    BY <1>0, <2>2, <2>3 DEF ReaderGoes, Reader
  <2>4. CASE /\ ~SequenceIsLocked(interval[which].sequence)
             /\ reader' = [reader EXCEPT !.pc = <<"count", which>>, !.sequence = interval[which].sequence]
    BY <1>0, <2>2, <2>4 DEF Reader
  <2>5. CASE /\ reader.pc = <<"count", which>>
             /\ reader' = [reader EXCEPT !.pc = <<"tsc", which>>, !.point.count = interval[which].count]
    <3>1. /\ reader'.pc = <<"tsc", which>> /\ reader'.sequence = reader.sequence /\ reader'.loaded = reader.loaded
          /\ reader'.point = [reader.point EXCEPT !.count = interval[which].count]
      BY <1>0, <2>5 DEF Reader
    <3>2. reader'.point.count = interval[which].count
      BY <1>0, <3>1 DEF Reader, Point
    <3> QED
      BY <2>2, <2>5, <3>1, <3>2
  <2>6. CASE /\ reader.pc = <<"tsc", which>>
             /\ reader' = [reader EXCEPT !.pc = <<"check", which>>, !.point.tsc = interval[which].tsc]
    <3>1. /\ reader'.pc = <<"check", which>> /\ reader'.sequence = reader.sequence /\ reader'.loaded = reader.loaded
          /\ reader'.point = [reader.point EXCEPT !.tsc = interval[which].tsc]
      BY <1>0, <2>6 DEF Reader
    <3>2. reader'.point.tsc = interval[which].tsc /\ reader'.point.count = reader.point.count
      BY <1>0, <3>1 DEF Reader, Point
    <3> QED
      BY <2>2, <2>6, <3>1, <3>2
  <2>7. CASE reader.pc = <<"check", which>> /\ CheckLoaded(which)
    <3>1. CASE ReaderGoes("await", which)
      BY <1>0, <2>2, <3>1 DEF ReaderGoes, Reader
    <3>2. CASE /\ reader.sequence = interval[which].sequence
               /\ reader' = [reader EXCEPT !.loaded[which] = reader.point,
                                  !.pc = IF which = "base" THEN <<"await", "prev">> ELSE Idle]
      <4>1. /\ reader'.pc = IF which = "base" THEN <<"await", "prev">> ELSE Idle
            /\ reader'.loaded = [reader.loaded EXCEPT ![which] = reader.point]
        BY <1>0, <3>2 DEF Reader
      <4> QED
        BY <2>2, <2>7, <3>2, <4>1
    <3> QED
      BY <2>7, <3>1, <3>2 DEF CheckLoaded
  <2> QED
    BY <2>1, <2>3, <2>4, <2>5, <2>6, <2>7
<1> QED
  BY <1>1, <1>2

\* Steps of the others: the points grow older, and a store moves the sequence on.
LEMMA SequenceMovesOn ==
  ASSUME ClockInv, StorePoint, NEW which \in {"base", "prev"},
         NEW s \in Nat, ~SequenceIsLocked(s), s <= interval[which].sequence
  PROVE  /\ s <= interval'[which].sequence
         /\ s = interval'[which].sequence =>
               s = interval[which].sequence /\ interval'[which] = interval[which]
<1>0. ClockTypeOK /\ WriterInv /\ interval[which].sequence \in Nat
  BY DEF ClockInv, ClockTypeOK, Shared
<1>1. PICK w \in {"base", "prev"}, n \in 1 .. 4 :
         /\ At(w, n)
         /\ \A v \in {"base", "prev"} : v # w => interval'[v] = interval[v]
         /\ interval'[w].sequence = IF n \in {1, 4} THEN interval[w].sequence + 1 ELSE interval[w].sequence
  BY <1>0, StoreSteps
<1>2. CASE which # w
  BY <1>1, <1>2
<1>3. CASE which = w
  <2>1. SequenceIsLocked(interval[which].sequence) <=> Writes(which)
    BY <1>0 DEF WriterInv
  <2>2. CASE n = 1
    <3>1. ~Writes(which)
      BY <1>1, <1>3, <2>2 DEF Writes, At
    <3>2. interval'[which].sequence = interval[which].sequence + 1
      BY <1>1, <1>3, <2>2
    <3> QED
      BY <1>0, <2>1, <3>1, <3>2, Parity
  <2>3. CASE n # 1
    <3>1. Writes(which)
      BY <1>1, <1>3, <2>3 DEF Writes, At
    <3>2. s # interval[which].sequence
      BY <2>1, <3>1
    <3>3. interval'[which].sequence = interval[which].sequence \/ interval'[which].sequence = interval[which].sequence + 1
      BY <1>1, <1>3
    <3> QED
      BY <1>0, <3>2, <3>3
  <2> QED
    BY <2>2, <2>3
<1> QED
  BY <1>2, <1>3

\* The valid base is not written again.
LEMMA BaseStays ==
  ASSUME ClockInv, StorePoint, PointIsValid(interval.base)
  PROVE  PointOf(interval'.base) = PointOf(interval.base)
<1>0. ClockTypeOK /\ TimeInv
  BY DEF ClockInv
<1>1. PICK w \in {"base", "prev"}, n \in 1 .. 4 :
         /\ At(w, n)
         /\ \A v \in {"base", "prev"} : v # w => interval'[v] = interval[v]
         /\ interval'[w].count = IF n = 2 THEN handler.point.count ELSE interval[w].count
         /\ interval'[w].tsc = IF n = 3 THEN handler.point.tsc ELSE interval[w].tsc
  BY <1>0, StoreSteps
<1>2. CASE w = "prev"
  BY <1>1, <1>2
<1>3. CASE w = "base"
  <2>1. handler.pc = <<"base", n>> /\ handler.pc \notin ({"base"} \X (1 .. 3))
    BY <1>0, <1>1, <1>3 DEF TimeInv, At
  <2>2. n = 4
    BY <2>1
  <2> QED
    BY <1>1, <1>3, <2>2 DEF PointOf
<1> QED
  BY <1>2, <1>3

\* What the reader has loaded under an unchanged sequence is one stored point.
LEMMA ReaderPreserved ==
  ASSUME ClockInv, [ClockNext]_clockVars
  PROVE  ReaderInv'
<1>0. ChipInv /\ ClockTypeOK /\ WriterInv /\ ReaderInv /\ TimeInv /\ ClockTypeOK'
  BY TypesPreserved DEF ClockInv
<1>a. /\ reader.sequence \in Nat
      /\ reader.loaded \in [{"base", "prev"} -> Point] /\ reader.point \in Point /\ reader'.point \in Point
  BY <1>0 DEF ClockTypeOK, Reader
<1>b. \A w \in {"base", "prev"} : interval[w].sequence \in Nat
  BY <1>0 DEF ClockTypeOK, Shared
<1>c. \A p \in Point : p = NewPoint(p.count, p.tsc)
  BY DEF Point, NewPoint
<1>1. CASE UNCHANGED <<interval, reader>> /\ stored \subseteq stored'
  BY <1>0, <1>1 DEF ReaderInv
<1>2. CASE StorePoint
  <2>1. UNCHANGED <<reader, stored>>
    BY <1>2 DEF StorePoint
  <2>2. ASSUME NEW which \in {"base", "prev"}
        PROVE  /\ reader.pc \in {<<"count", which>>, <<"tsc", which>>, <<"check", which>>} =>
                     reader.sequence <= interval'[which].sequence
               /\ reader.pc \in {<<"count", which>>, <<"tsc", which>>, <<"check", which>>}
                  /\ reader.sequence = interval'[which].sequence =>
                     reader.sequence = interval[which].sequence /\ interval'[which] = interval[which]
    <3>1. reader.pc \in {<<"count", which>>, <<"tsc", which>>, <<"check", which>>} =>
             ~SequenceIsLocked(reader.sequence) /\ reader.sequence <= interval[which].sequence
      BY <1>0 DEF ReaderInv
    <3> QED
      BY <1>2, <1>a, <3>1, SequenceMovesOn
  <2>3. PointIsValid(reader.loaded.base) => reader.loaded.base = PointOf(interval'.base)
    <3>1. SUFFICES ASSUME PointIsValid(reader.loaded.base)
                   PROVE  reader.loaded.base = PointOf(interval'.base)
      OBVIOUS
    <3>2. reader.loaded.base = PointOf(interval.base)
      BY <1>0, <3>1 DEF ReaderInv
    <3>3. PointIsValid(interval.base)
      BY <3>1, <3>2 DEF PointIsValid, PointOf, NewPoint
    <3> QED
      BY <1>2, <3>2, <3>3, BaseStays
  <2>4. ASSUME NEW which \in {"base", "prev"}
        PROVE  /\ reader'.pc \in {<<"count", which>>, <<"tsc", which>>, <<"check", which>>} =>
                  /\ ~SequenceIsLocked(reader'.sequence)
                  /\ reader'.sequence <= interval'[which].sequence
               /\ reader'.pc = <<"tsc", which>> /\ reader'.sequence = interval'[which].sequence =>
                  reader'.point.count = interval'[which].count
               /\ reader'.pc = <<"check", which>> /\ reader'.sequence = interval'[which].sequence =>
                  reader'.point = PointOf(interval'[which])
               /\ reader'.loaded[which] \in stored'
    BY <1>0, <2>1, <2>2 DEF ReaderInv
  <2> QED
    BY <2>1, <2>3, <2>4 DEF ReaderInv
<1>3. CASE StartLoad \/ LoadStep
  <2>0. UNCHANGED <<interval, stored>>
    BY <1>0, <1>3, LoadSteps
  <2>1. PICK which \in {"base", "prev"} :
            \/ /\ reader'.pc \in {<<"await", which>>, <<"sequence", which>>} /\ reader'.loaded = reader.loaded
            \/ /\ reader'.pc = <<"count", which>> /\ ~SequenceIsLocked(interval[which].sequence)
               /\ reader'.sequence = interval[which].sequence /\ reader'.loaded = reader.loaded
            \/ /\ reader.pc = <<"count", which>> /\ reader'.pc = <<"tsc", which>>
               /\ reader'.sequence = reader.sequence /\ reader'.loaded = reader.loaded
               /\ reader'.point.count = interval[which].count
            \/ /\ reader.pc = <<"tsc", which>> /\ reader'.pc = <<"check", which>>
               /\ reader'.sequence = reader.sequence /\ reader'.loaded = reader.loaded
               /\ reader'.point.count = reader.point.count /\ reader'.point.tsc = interval[which].tsc
            \/ /\ reader.pc = <<"check", which>>
               /\ reader'.pc = IF which = "base" THEN <<"await", "prev">> ELSE Idle
               /\ reader.sequence = interval[which].sequence
               /\ reader'.loaded = [reader.loaded EXCEPT ![which] = reader.point]
    BY <1>0, <1>3, LoadSteps
  <2>2. CASE reader'.pc \in {<<"await", which>>, <<"sequence", which>>} /\ reader'.loaded = reader.loaded
    <3>1. \A w \in {"base", "prev"} : reader'.pc # <<"count", w>> /\ reader'.pc # <<"tsc", w>> /\ reader'.pc # <<"check", w>>
      BY <2>2
    <3> QED
      BY <1>0, <2>0, <2>2, <3>1 DEF ReaderInv
  <2>3. CASE /\ reader'.pc = <<"count", which>> /\ ~SequenceIsLocked(interval[which].sequence)
             /\ reader'.sequence = interval[which].sequence /\ reader'.loaded = reader.loaded
    <3>1. \A w \in {"base", "prev"} : /\ reader'.pc # <<"tsc", w>> /\ reader'.pc # <<"check", w>>
                                      /\ reader'.pc = <<"count", w>> => w = which
      BY <2>3
    <3> QED
      BY <1>0, <1>b, <2>0, <2>3, <3>1 DEF ReaderInv
  <2>4. CASE /\ reader.pc = <<"count", which>> /\ reader'.pc = <<"tsc", which>>
             /\ reader'.sequence = reader.sequence /\ reader'.loaded = reader.loaded
             /\ reader'.point.count = interval[which].count
    <3>1. \A w \in {"base", "prev"} : /\ reader'.pc # <<"count", w>> /\ reader'.pc # <<"check", w>>
                                      /\ reader'.pc = <<"tsc", w>> => w = which
      BY <2>4
    <3> QED
      BY <1>0, <2>0, <2>4, <3>1 DEF ReaderInv
  <2>5. CASE /\ reader.pc = <<"tsc", which>> /\ reader'.pc = <<"check", which>>
             /\ reader'.sequence = reader.sequence /\ reader'.loaded = reader.loaded
             /\ reader'.point.count = reader.point.count /\ reader'.point.tsc = interval[which].tsc
    <3>1. \A w \in {"base", "prev"} : /\ reader'.pc # <<"count", w>> /\ reader'.pc # <<"tsc", w>>
                                      /\ reader'.pc = <<"check", w>> => w = which
      BY <2>5
    <3>2. reader.sequence = interval[which].sequence => reader'.point = PointOf(interval[which])
      <4>1. reader.sequence = interval[which].sequence => reader.point.count = interval[which].count
        BY <1>0, <2>5 DEF ReaderInv
      <4>2. reader'.point = NewPoint(reader'.point.count, reader'.point.tsc)
        BY <1>a, <1>c
      <4> QED
        BY <2>5, <4>1, <4>2 DEF PointOf
    <3> QED
      BY <1>0, <2>0, <2>5, <3>1, <3>2 DEF ReaderInv
  <2>6. CASE /\ reader.pc = <<"check", which>>
             /\ reader'.pc = IF which = "base" THEN <<"await", "prev">> ELSE Idle
             /\ reader.sequence = interval[which].sequence
             /\ reader'.loaded = [reader.loaded EXCEPT ![which] = reader.point]
    <3>1. \A w \in {"base", "prev"} : reader'.pc # <<"count", w>> /\ reader'.pc # <<"tsc", w>> /\ reader'.pc # <<"check", w>>
      BY <2>6 DEF Idle
    <3>2. reader.point = PointOf(interval[which]) /\ ~SequenceIsLocked(interval[which].sequence)
      BY <1>0, <2>6 DEF ReaderInv
    <3>3. ~At(which, 3)
      BY <1>0, <3>2 DEF WriterInv, Writes, At
    <3>4. reader.point \in stored
      BY <1>0, <3>2, <3>3 DEF WriterInv
    <3>5. \A w \in {"base", "prev"} : reader'.loaded[w] = IF w = which THEN reader.point ELSE reader.loaded[w]
      BY <1>a, <2>6
    <3>6. \A w \in {"base", "prev"} : reader'.loaded[w] \in stored'
      BY <1>0, <2>0, <3>4, <3>5 DEF ReaderInv
    <3>7. PointIsValid(reader'.loaded.base) => reader'.loaded.base = PointOf(interval'.base)
      <4>1. CASE which = "base"
        BY <2>0, <3>2, <3>5, <4>1
      <4>2. CASE which = "prev"
        <5>1. reader'.loaded.base = reader.loaded.base
          BY <3>5, <4>2
        <5> QED
          BY <1>0, <2>0, <5>1 DEF ReaderInv
      <4> QED
        BY <4>1, <4>2
    <3> QED
      BY <3>1, <3>6, <3>7 DEF ReaderInv
  <2> QED
    BY <2>1, <2>2, <2>3, <2>4, <2>5, <2>6
<1> QED
  BY <1>1, <1>2, <1>3 DEF ClockNext, clockVars, ChipUpdate, RtcInterrupt, ReadDate, TakePoint, PitInterrupt

\* The points of the interval are moments of the chip, the base before the previous one.
LEMMA TimePreserved ==
  ASSUME ClockInv, [ClockNext]_clockVars
  PROVE  TimeInv'
<1>0. ChipInv /\ ClockTypeOK /\ DateInv /\ WriterInv /\ TimeInv /\ ChipInv' /\ ClockTypeOK'
  BY ChipPreserved, TypesPreserved DEF ClockInv
<1>a. chip.time \in Nat /\ chip'.time \in Nat /\ tsc \in Nat \ {0} /\ interval.base.count \in Nat
      /\ interval.base.tsc \in Nat /\ interval'.base.count \in Nat /\ interval'.base.tsc \in Nat
      /\ handler.point.count \in Nat /\ handler'.point.count \in Nat
  BY <1>0 DEF ChipInv, ClockTypeOK, Shared, Handler, Point
<1>b. \A p \in stored : p.count \in Nat /\ p.tsc \in Nat
  BY <1>0 DEF ClockTypeOK, Point
<1>1. CASE ChipUpdate
  <2>1. UNCHANGED <<interval, tsc, source, stored>> /\ handler'.pc = handler.pc /\ handler'.point = handler.point
    BY <1>0, <1>1, ChipPhases DEF ChipUpdate
  <2>2. chip.time <= chip'.time /\ handler'.shown \subseteq handler.shown \cup {Final}
    BY <1>0, <1>1, <1>a, ChipPhases
  <2>3. Timestamp(Final) = chip.time
    BY <1>a, TimestampOfDate DEF Final
  <2>4. \A d \in handler.shown : Timestamp(d) \in Nat
    BY <1>0, ClockConstants DEF ClockTypeOK, Handler, Timestamp
  <2>5. ReadsDate' => \A d \in handler'.shown :
          interval'.base.count <= Timestamp(d) /\ Timestamp(d) <= chip'.time
    <3>1. ReadsDate' => ReadsDate
      BY <2>1 DEF ReadsDate, Reads, At
    <3> QED
      BY <1>0, <1>a, <2>1, <2>2, <2>3, <2>4, <3>1 DEF TimeInv
  <2>6. ReadsDate' <=> ReadsDate
    BY <2>1 DEF ReadsDate, Reads, At
  <2>7. At("base", 4)' <=> At("base", 4)
    BY <2>1 DEF At
  <2> QED
    BY <1>0, <1>a, <2>1, <2>2, <2>5, <2>6, <2>7 DEF TimeInv
<1>2. CASE RtcInterrupt
  <2>1. PICK pc \in {Idle, <<"wait", 1>>} :
           handler' = [handler EXCEPT !.pc = pc, !.tries = 0, !.shown = IF UpdateInProgress THEN {} ELSE {Display}]
    BY <1>2 DEF RtcInterrupt
  <2>2. handler'.pc = pc /\ handler'.shown = IF UpdateInProgress THEN {} ELSE {Display}
    BY <1>0, <2>1 DEF ClockTypeOK, Handler
  <2>3. chip'.time = chip.time
    BY <1>0, <1>2 DEF RtcInterrupt, ChipInv
  <2>4. \A d \in handler'.shown : Timestamp(d) = chip.time
    BY <1>0, <1>a, <2>2, Registers, TimestampOfDate DEF UpdateInProgress, Final
  <2>5. handler.pc = Idle /\ source = "rtc" /\ UNCHANGED <<interval, tsc, source, stored>>
    BY <1>2 DEF RtcInterrupt
  <2>6. /\ handler.pc[1] \notin {"base", "prev"} /\ handler'.pc[1] \notin {"base", "prev"}
        /\ handler'.pc \notin ({"base"} \X (1 .. 4)) /\ handler'.pc \notin ({"base"} \X (1 .. 3))
        /\ ~At("base", 4)'
    <3>1. \A pos \in {Idle, <<"wait", 1>>} :
             /\ pos[1] \notin {"base", "prev"} /\ pos # <<"base", 4>>
             /\ pos \notin ({"base"} \X (1 .. 4)) /\ pos \notin ({"base"} \X (1 .. 3))
      BY DEF Idle
    <3> QED
      BY <2>1, <2>2, <2>5, <3>1 DEF At
  <2> QED
    BY <1>0, <1>a, <2>3, <2>4, <2>5, <2>6 DEF TimeInv
<1>3. CASE ReadDate
  <2>1. \E r \in {"wait", "second", "minute", "check"}, n \in {1, 2} : handler.pc = <<r, n>>
    BY <1>3 DEF ReadDate, At
  <2>2. \/ handler'.pc = Idle \/ handler'.pc = <<"now", 0>>
        \/ \E r \in {"wait", "second", "minute", "check"}, n \in {1, 2} : handler'.pc = <<r, n>>
    BY <1>0, <1>3, ReadSteps
  <2>3. ReadsDate /\ handler.pc[1] \notin {"base", "prev"}
    BY <2>1 DEF ReadsDate, Reads
  <2>4. /\ handler'.pc[1] \notin {"base", "prev"}
        /\ handler'.pc \notin ({"base"} \X (1 .. 4)) /\ handler'.pc \notin ({"base"} \X (1 .. 3))
        /\ ~At("base", 4)'
    BY <2>2 DEF Idle, At
  <2>5. UNCHANGED <<chip, interval, tsc, source, stored>> /\ handler'.shown = handler.shown
    BY <1>0, <1>3, ReadSteps DEF ReadDate
  <2>6. source = "rtc"
    BY <1>0, <2>3 DEF TimeInv, ClockTypeOK
  <2> QED
    BY <1>0, <2>3, <2>4, <2>5, <2>6 DEF TimeInv
<1>4. CASE TakePoint \/ PitInterrupt
  <2>1. /\ tsc' = tsc + 1 /\ handler'.point.tsc = tsc + 1 /\ stored' = stored \cup {handler'.point}
        /\ UNCHANGED <<chip, interval, source>>
    BY <1>0, <1>4, NewPoints
  <2>2. handler.pc \in {Idle, <<"now", 0>>}
    BY <1>0, <1>4, NewPoints DEF At
  <2>3. /\ handler.pc[1] \notin {"base", "prev"} /\ ~At("base", 3)
    <3>1. \A pos \in {Idle, <<"now", 0>>} : pos[1] \notin {"base", "prev"} /\ pos # <<"base", 3>>
      BY DEF Idle
    <3> QED
      BY <2>2, <3>1 DEF At
  <2>4. interval.base.tsc <= tsc
    <3>1. PointOf(interval.base) \in stored
      BY <1>0, <2>3 DEF WriterInv
    <3>2. PointOf(interval.base).tsc <= tsc
      BY <1>0, <3>1 DEF TimeInv
    <3> QED
      BY <3>2 DEF PointOf, NewPoint
  <2>5. PointIsValid(handler'.point)
    BY <1>a, <2>1 DEF PointIsValid
  <2>6. \A p \in stored : p.tsc <= tsc
    BY <1>0 DEF TimeInv
  <2>7. \A p \in stored' : p.tsc <= tsc'
    BY <1>a, <1>b, <2>1, <2>6
  <2>8. CASE PointIsValid(interval.base)
    <3>1. handler'.point.count >= interval.base.count
      <4>1. CASE At("now", 0)
        <5>1. handler.read \in handler.shown /\ ReadsDate
          BY <1>0, <4>1 DEF DateInv, ReadsDate
        <5>2. handler.pc # Idle
          BY <4>1 DEF At, Idle
        <5> QED
          BY <1>0, <1>a, <1>4, <5>1, <5>2, NewPoints DEF TimeInv
      <4>2. CASE handler.pc = Idle /\ source = "pit"
        <5>1. interval.base.count = 0
          BY <1>0, <4>2 DEF TimeInv
        <5> QED
          BY <1>a, <5>1
      <4> QED
        BY <1>0, <1>4, <4>1, <4>2, NewPoints
    <3>2. handler'.pc = <<"prev", 1>>
      BY <1>0, <1>4, <2>8, NewPoints DEF InitBaseNeeded
    <3>3. handler'.pc[1] = "prev" /\ ~ReadsDate' /\ ~At("base", 4)'
          /\ handler'.pc \notin ({"base"} \X (1 .. 4)) /\ handler'.pc \notin ({"base"} \X (1 .. 3))
      BY <3>2 DEF ReadsDate, Reads, At
    <3>4. \A p \in stored' : PointIsValid(p) =>
              p.count >= interval.base.count /\ (p.count > interval.base.count => p.tsc > interval.base.tsc)
      BY <1>0, <1>a, <2>1, <2>4, <2>8, <3>1 DEF TimeInv
    <3>5. source = "pit" => interval.base.count = 0
      BY <1>0 DEF TimeInv
    <3> QED
      BY <1>0, <2>1, <2>7, <2>8, <3>3, <3>4, <3>5 DEF TimeInv
  <2>9. CASE ~PointIsValid(interval.base)
    <3>1. source = "rtc" /\ \A p \in stored : ~PointIsValid(p)
      BY <1>0, <2>3, <2>9 DEF TimeInv
    <3>2. At("now", 0) /\ handler'.pc = <<"base", 1>> /\ handler'.point.count = Timestamp(handler.read)
      BY <1>0, <1>4, <2>9, <3>1, NewPoints DEF InitBaseNeeded
    <3>3. handler'.point.count <= chip.time
      <4>1. handler.read \in handler.shown /\ ReadsDate
        BY <1>0, <3>2 DEF DateInv, ReadsDate
      <4> QED
        BY <1>0, <3>2, <4>1 DEF TimeInv
    <3>4. handler'.pc[1] = "base" /\ ~ReadsDate' /\ ~At("base", 4)'
      BY <3>2 DEF ReadsDate, Reads, At
    <3> QED
      BY <1>0, <2>1, <2>5, <2>7, <2>9, <3>1, <3>3, <3>4 DEF TimeInv
  <2> QED
    BY <2>8, <2>9
<1>5. CASE StorePoint
  <2>1. PICK which \in {"base", "prev"}, n \in 1 .. 4 :
         /\ At(which, n)
         /\ handler'.pc = IF n < 4 THEN <<which, n + 1>> ELSE IF which = "base" THEN <<"prev", 1>> ELSE Idle
         /\ handler'.point = handler.point
         /\ \A w \in {"base", "prev"} : w # which => interval'[w] = interval[w]
         /\ interval'[which].count = IF n = 2 THEN handler.point.count ELSE interval[which].count
         /\ interval'[which].tsc = IF n = 3 THEN handler.point.tsc ELSE interval[which].tsc
    BY <1>0, <1>5, StoreSteps
  <2>2. UNCHANGED <<chip, tsc, source, stored>>
    BY <1>5 DEF StorePoint
  <2>3. handler.pc = <<which, n>> /\ handler.pc[1] = which
    BY <2>1 DEF At
  <2>4. ~ReadsDate'
    <3>1. handler'.pc = Idle \/ \E w \in {"base", "prev"}, m \in 1 .. 4 : handler'.pc = <<w, m>>
      BY <1>0, <1>5, OtherSteps
    <3> QED
      BY <3>1 DEF ReadsDate, Reads, At, Idle
  <2>5. CASE which = "prev"
    <3>1. interval'.base = interval.base
      BY <2>1, <2>5
    <3>2. PointIsValid(interval.base)
      BY <1>0, <2>3, <2>5 DEF TimeInv
    <3>3. handler'.pc[1] # "base" /\ ~At("base", 4)'
          /\ handler'.pc \notin ({"base"} \X (1 .. 4)) /\ handler'.pc \notin ({"base"} \X (1 .. 3))
      BY <2>1, <2>5 DEF Idle, At
    <3> QED
      BY <1>0, <2>2, <2>4, <3>1, <3>2, <3>3 DEF TimeInv
  <2>6. CASE which = "base" /\ n \in {1, 2}
    <3>1. handler.pc \in ({"base"} \X (1 .. 3)) /\ handler.pc \in ({"base"} \X (1 .. 4))
      BY <2>3, <2>6
    <3>2. ~PointIsValid(interval.base)
      BY <1>0, <3>1 DEF TimeInv
    <3>3. ~PointIsValid(interval'.base)
      BY <2>1, <2>6, <3>2 DEF PointIsValid
    <3>4. interval'.base.count <= chip.time /\ handler.point.count <= chip.time
      BY <1>0, <2>1, <2>6, <3>1 DEF TimeInv
    <3>5. handler'.pc = <<"base", n + 1>> /\ handler'.pc[1] = "base" /\ n + 1 \in 1 .. 3
      BY <2>1, <2>6
    <3>6. ~At("base", 4)'
      BY <3>5 DEF At
    <3> QED
      BY <1>0, <2>1, <2>2, <2>3, <2>4, <2>6, <3>2, <3>3, <3>4, <3>5, <3>6 DEF TimeInv
  <2>7. CASE which = "base" /\ n = 3
    <3>1. handler.pc \in ({"base"} \X (1 .. 3)) /\ handler.pc \in ({"base"} \X (1 .. 4))
      BY <2>3, <2>7
    <3>2. ~PointIsValid(interval.base) /\ source = "rtc" /\ PointIsValid(handler.point)
          /\ handler.point.count <= chip.time /\ interval.base.count <= chip.time
          /\ \A p \in stored : PointIsValid(p) => p = handler.point
      BY <1>0, <2>3, <2>7, <3>1 DEF TimeInv
    <3>3. interval'.base.tsc = handler.point.tsc /\ interval'.base.count = interval.base.count
      BY <2>1, <2>7
    <3>4. interval.base.count = handler.point.count
      BY <1>0, <2>1, <2>7 DEF WriterInv
    <3>5. PointIsValid(interval'.base)
      BY <3>2, <3>3 DEF PointIsValid
    <3>6. handler'.pc = <<"base", 4>>
      BY <2>1, <2>7
    <3>7. handler'.pc[1] = "base" /\ handler'.pc \notin ({"base"} \X (1 .. 3))
      BY <3>6
    <3>8. \A p \in stored : PointIsValid(p) => p.count >= interval'.base.count /\ ~(p.count > interval'.base.count)
      BY <1>a, <3>2, <3>3, <3>4
    <3> QED
      BY <1>0, <2>1, <2>2, <2>4, <3>2, <3>3, <3>5, <3>7, <3>8 DEF TimeInv
  <2>8. CASE which = "base" /\ n = 4
    <3>1. PointIsValid(interval.base) /\ source = "rtc"
      BY <1>0, <2>1, <2>3, <2>8 DEF TimeInv
    <3>2. interval'.base.tsc = interval.base.tsc /\ interval'.base.count = interval.base.count
      BY <2>1, <2>8
    <3>3. PointIsValid(interval'.base)
      BY <3>1, <3>2 DEF PointIsValid
    <3>4. handler'.pc = <<"prev", 1>>
      BY <2>1, <2>8
    <3>5. handler'.pc[1] # "base" /\ ~At("base", 4)'
          /\ handler'.pc \notin ({"base"} \X (1 .. 4)) /\ handler'.pc \notin ({"base"} \X (1 .. 3))
      BY <3>4 DEF At
    <3> QED
      BY <1>0, <2>2, <2>4, <3>1, <3>2, <3>3, <3>5 DEF TimeInv
  <2> QED
    BY <2>5, <2>6, <2>7, <2>8
<1>6. CASE UNCHANGED <<chip, handler, interval, tsc, source, stored>>
  BY <1>0, <1>6 DEF TimeInv, ReadsDate, Reads, At
<1> QED
  BY <1>1, <1>2, <1>3, <1>4, <1>5, <1>6 DEF ClockNext, clockVars, StartLoad, LoadStep

\* The clock starts in a state of the inductive invariant.
LEMMA InitEstablishesClock ==
  ASSUME ClockInit
  PROVE  ClockInv
<1> DEFINE start == NewPoint(0, IF source = "pit" THEN 1 ELSE 0)
<1>0. /\ start \in Point /\ start.count = 0 /\ start.tsc = (IF source = "pit" THEN 1 ELSE 0)
      /\ AtomicPoint(start) = [sequence |-> 0, count |-> 0, tsc |-> start.tsc]
  BY DEF NewPoint, Point, AtomicPoint
<1>1. /\ chip = [second |-> 0, minute |-> 0, phase |-> "shown", ended |-> FALSE, time |-> 0]
      /\ source \in {"rtc", "pit"} /\ tsc = 1 /\ stored = {start}
      /\ interval = [which \in {"base", "prev"} |-> AtomicPoint(start)]
      /\ handler = [pc |-> Idle, first |-> <<0, 0>>, read |-> <<0, 0>>, tries |-> 0, shown |-> {},
                    point |-> start]
      /\ reader = [pc |-> Idle, sequence |-> 0, point |-> start,
                   loaded |-> [which \in {"base", "prev"} |-> start]]
  BY DEF ClockInit
<1> HIDE DEF start
<1>2. Idle \in HandlerPcs /\ Idle \in ReaderPcs
  BY DEF HandlerPcs, ReaderPcs
<1>3. /\ interval.base = AtomicPoint(start) /\ interval.prev = AtomicPoint(start)
      /\ handler.pc = Idle /\ handler.point = start /\ reader.pc = Idle
      /\ reader.loaded = [which \in {"base", "prev"} |-> start] /\ chip.time = 0
  BY <1>1
<1>4. /\ \A w \in {"base", "prev"} : interval[w].sequence = 0 /\ interval[w].count = 0 /\ interval[w].tsc = start.tsc
      /\ \A w \in {"base", "prev"} : interval[w] = AtomicPoint(start) /\ reader.loaded[w] = start
  BY <1>0, <1>1, <1>3
<1>5. PointOf(AtomicPoint(start)) = start
  BY <1>0 DEF PointOf, NewPoint, Point
<1>6. /\ handler.pc[1] = "idle" /\ ~ReadsDate /\ ~Reads(1) /\ ~Reads(2)
      /\ \A r \in {"base", "prev", "wait", "second", "minute", "check", "now"}, n \in 0 .. 4 : ~At(r, n)
      /\ \A w \in {"base", "prev"} : ~Writes(w)
      /\ handler.pc \notin ({"base"} \X (1 .. 4)) /\ handler.pc \notin ({"base"} \X (1 .. 3))
  BY <1>3 DEF Idle, ReadsDate, Reads, At, Writes
<1>7. ChipInv
  <2>1. Second(0) = 0 /\ Minute(0) = 0
    BY ClockConstants DEF Second, Minute
  <2> QED
    BY <1>1, <2>1 DEF ChipInv
<1>8. ClockTypeOK
  <2>1. handler \in Handler
    BY <1>0, <1>1, <1>2 DEF Handler
  <2>2. AtomicPoint(start) \in Shared
    BY <1>0 DEF Shared, Point
  <2>3. interval \in [{"base", "prev"} -> Shared]
    BY <1>1, <2>2
  <2>4. reader \in Reader
    BY <1>0, <1>1, <1>2 DEF Reader
  <2> QED
    BY <1>0, <1>1, <2>1, <2>3, <2>4 DEF ClockTypeOK
<1>9. DateInv
  BY <1>6 DEF DateInv
<1>10. WriterInv
  <2>1. ~SequenceIsLocked(0)
    BY DEF SequenceIsLocked
  <2> QED
    BY <1>1, <1>4, <1>5, <1>6, <2>1 DEF WriterInv
<1>11. ReaderInv
  <2>1. \A s \in {"count", "tsc", "check"}, w \in {"base", "prev"} : reader.pc # <<s, w>>
    BY <1>3 DEF Idle
  <2>2. \A w \in {"base", "prev"} : reader.loaded[w] \in stored
    BY <1>1, <1>4
  <2>3. reader.loaded.base = PointOf(interval.base)
    BY <1>4, <1>5
  <2> QED
    BY <2>1, <2>2, <2>3 DEF ReaderInv
<1>12. TimeInv
  <2>1. \A p \in stored : p = start
    BY <1>1
  <2>2. source = "rtc" => start.tsc = 0
    BY <1>0
  <2>3. interval.base.count = 0 /\ interval.base.tsc = start.tsc
    BY <1>4
  <2>4. source = "pit" => PointIsValid(interval.base)
    BY <1>0, <2>3 DEF PointIsValid
  <2>5. source = "rtc" => ~PointIsValid(start)
    BY <2>2 DEF PointIsValid
  <2> QED
    BY <1>0, <1>1, <1>3, <1>6, <2>1, <2>3, <2>4, <2>5 DEF TimeInv
<1> QED
  BY <1>7, <1>8, <1>9, <1>10, <1>11, <1>12 DEF ClockInv

\* The inductive invariant holds of every reachable state.
THEOREM ClockInvariance == ClockSpec => []ClockInv
<1>1. ClockInv /\ [ClockNext]_clockVars => ClockInv'
  BY ChipPreserved, TypesPreserved, DatePreserved, WriterPreserved, ReaderPreserved, TimePreserved
     DEF ClockInv
<1> QED
  BY <1>1, InitEstablishesClock, PTL DEF ClockSpec

\* Date::read() accepts only a date that the chip has shown as a whole, load() returns only
\* points that store() has stored, and the interval of two loads has a time that goes forward:
\* for any number of ticks, seconds in a minute and attempts, at any interleaving.
THEOREM ReadersAlwaysSeeWhatWas == ClockSpec => []ReadersSeeWhatWas
<1>1. ClockInv => ReadersSeeWhatWas
  <2> SUFFICES ASSUME ClockInv PROVE ReadersSeeWhatWas
    OBVIOUS
  <2>0. ClockTypeOK /\ DateInv /\ ReaderInv /\ TimeInv
    BY DEF ClockInv
  <2>1. DateWasShown
    BY <2>0 DEF DateInv, DateWasShown
  <2>2. LoadedPointsWereStored
    BY <2>0 DEF ReaderInv, LoadedPointsWereStored
  <2>3. IntervalIsUsable
    <3> SUFFICES ASSUME PointIsValid(reader.loaded.base), PointIsValid(reader.loaded.prev)
                 PROVE  /\ reader.loaded.prev.count >= reader.loaded.base.count
                        /\ reader.loaded.prev.count > reader.loaded.base.count =>
                              reader.loaded.prev.tsc > reader.loaded.base.tsc
      BY DEF IntervalIsUsable
    <3>1. reader.loaded.base = PointOf(interval.base) /\ reader.loaded.prev \in stored
      BY <2>0 DEF ReaderInv
    <3>2. reader.loaded.base.count = interval.base.count /\ reader.loaded.base.tsc = interval.base.tsc
      BY <3>1 DEF PointOf, NewPoint
    <3>3. PointIsValid(interval.base)
      BY <3>2 DEF PointIsValid
    <3> QED
      BY <2>0, <3>1, <3>2, <3>3 DEF TimeInv
  <2> QED
    BY <2>1, <2>2, <2>3 DEF ReadersSeeWhatWas
<1> QED
  BY <1>1, ClockInvariance, PTL
=============================================================================
