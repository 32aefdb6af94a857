------------------------------- MODULE Locks -------------------------------
(***************************************************************************)
(* The synchronization primitives of ku/src/sync: Spinlock (it wraps       *)
(* FastSpinlock in this repository), IrqSpinlock, which also keeps         *)
(* interrupts disabled, the two panic strategies, and OnceLock.            *)
(*                                                                         *)
(* A context is <<cpu, "code">> or <<cpu, "interrupt">>, the handler that  *)
(* interrupts that code.  A handler takes only IrqSpinlocks, and guards    *)
(* are dropped in the reverse order of their creation, as everywhere in    *)
(* the kernel.  spin::Mutex is external: taking it is one atomic step.     *)
(***************************************************************************)
EXTENDS Integers, FiniteSets, SequencesExt

CONSTANTS LockCpus,
          LockOrder,      \* sequence of locks: nested ones are taken in this order
          IrqLocks,       \* the ones that are IrqSpinlocks
          KnockDownLocks, \* the ones with PanicStrategy::KnockDown, the others Halt
          OnceValues      \* what the threads try to set() in a OnceLock
ASSUME LockConstants ==
    /\ {IrqLocks, KnockDownLocks} \subseteq SUBSET Range(LockOrder)
    /\ LockOrder \in Seq(Range(LockOrder)) \ {<<>>} /\ IsInjective(LockOrder)

VARIABLES locked,     \* spin::Mutex of each lock
          context,    \* per context: [pc, lock, were, try, guards]
          irqEnabled, \* the interrupt flag of each CPU
          inHandler,  \* per CPU: the handler runs
          panicking,  \* PANIC
          once,       \* OnceLock: [mutex, initialized, data]
          setter      \* per value, the thread that sets it and then gets: [pc, result, got]

lockVars == <<locked, context, irqEnabled, inHandler, panicking, once, setter>>
spinVars == <<locked, context, irqEnabled, inHandler, panicking>>

SpinLocks == Range(LockOrder)
Contexts == LockCpus \X {"code", "interrupt"}
Guard(lock, were) == [lock |-> lock, were |-> were]
Unset == <<0, 0>>

\* The end of a call: the context runs its own code, with these guards.
Running(guards) == [pc |-> "run", lock |-> LockOrder[1], were |-> FALSE, try |-> FALSE, guards |-> guards]

LocksInit ==
    /\ locked = [l \in SpinLocks |-> FALSE]
    /\ context = [c \in Contexts |-> Running(<<>>)]
    /\ irqEnabled \in [LockCpus -> BOOLEAN]
    /\ inHandler = [cpu \in LockCpus |-> FALSE]
    /\ panicking = FALSE
    /\ once = [mutex |-> FALSE, initialized |-> FALSE, data |-> Unset]
    /\ setter = [v \in OnceValues |-> [pc |-> "set", result |-> "none", got |-> Unset]]

Runs(c) == inHandler[c[1]] = (c[2] = "interrupt")
HoldsGuard(c, l) == \E i \in DOMAIN context[c].guards : context[c].guards[i].lock = l
MayTake(c, l) ==
    /\ c[2] = "interrupt" => l \in IrqLocks
    /\ \A i, j \in DOMAIN LockOrder : HoldsGuard(c, LockOrder[i]) /\ LockOrder[j] = l => i < j

AtPc(c, pc) == Runs(c) /\ context[c].pc = pc
ToPc(c, pc) == context' = [context EXCEPT ![c].pc = pc]

Resume(c) == context' = [context EXCEPT ![c] = Running(context[c].guards)]

\* lock() and try_lock() are called.
CallLock(c, l, try) ==
    /\ AtPc(c, "run") /\ MayTake(c, l)
    /\ context' = [context EXCEPT ![c] = [@ EXCEPT !.pc = IF l \in IrqLocks THEN "save" ELSE "check",
                                                  !.lock = l, !.try = try, !.were = FALSE]]
    /\ UNCHANGED <<locked, irqEnabled, inHandler, panicking>>

\* IrqGuard::new(): the flag is read, then cleared; an interrupt may come between.
IrqGuardSaves(c) ==
    /\ AtPc(c, "save")
    /\ context' = [context EXCEPT ![c] = [@ EXCEPT !.pc = "disable", !.were = irqEnabled[c[1]]]]
    /\ UNCHANGED <<locked, irqEnabled, inHandler, panicking>>

IrqGuardForgets(c) ==
    /\ AtPc(c, "disable")
    /\ ToPc(c, "check")
    /\ UNCHANGED <<locked, irqEnabled, inHandler, panicking>>
IrqGuardDisables(c) ==
    /\ AtPc(c, "disable")
    /\ irqEnabled' = [irqEnabled EXCEPT ![c[1]] = FALSE]
    /\ ToPc(c, "check")
    /\ UNCHANGED <<locked, inHandler, panicking>>

\* is_panicking(), then panic_lock() or spin::Mutex.
CheckPanicking(c) ==
    /\ AtPc(c, "check")
    /\ ToPc(c, IF ~panicking THEN "take"
               ELSE IF context[c].lock \in KnockDownLocks THEN "knock down" ELSE "halted")
    /\ UNCHANGED <<locked, irqEnabled, inHandler, panicking>>

Take(c) ==
    /\ ~locked[context[c].lock]
    /\ locked' = [locked EXCEPT ![context[c].lock] = TRUE]
    /\ context' = [context EXCEPT ![c] = Running(Append(@.guards, Guard(@.lock, @.were)))]
    /\ UNCHANGED <<irqEnabled, inHandler, panicking>>

TakeLock(c) == AtPc(c, "take") /\ Take(c)

\* try_lock() of a locked one drops its IrqGuard.
TryLockFails(c) ==
    /\ AtPc(c, "take") /\ context[c].try /\ locked[context[c].lock]
    /\ irqEnabled' = [irqEnabled EXCEPT ![c[1]] = @ \/ context[c].were]
    /\ Resume(c)
    /\ UNCHANGED <<locked, inHandler, panicking>>

\* The loop of panic_lock(): force_unlock() until try_lock() succeeds.
KnockDown(c) ==
    /\ AtPc(c, "knock down")
    /\ \/ Take(c)
       \/ /\ locked[context[c].lock]
          /\ locked' = [locked EXCEPT ![context[c].lock] = FALSE]
          /\ UNCHANGED <<context, irqEnabled, inHandler, panicking>>

\* Dropping a guard: the fields of IrqSpinlockGuard in their order, spinlock_guard first.
DropGuard(c) ==
    /\ AtPc(c, "run") /\ context[c].guards # <<>>
    /\ LET guard == Last(context[c].guards) IN
       /\ locked' = [locked EXCEPT ![guard.lock] = FALSE]
       /\ context' = [context EXCEPT ![c] = [@ EXCEPT !.guards = Front(context[c].guards),
                                                     !.were = guard.were, !.pc = "restore"]]
    /\ UNCHANGED <<irqEnabled, inHandler, panicking>>

DropIrqGuard(c) ==
    /\ AtPc(c, "restore")
    /\ irqEnabled' = [irqEnabled EXCEPT ![c[1]] = @ \/ context[c].were]
    /\ Resume(c)
    /\ UNCHANGED <<locked, inHandler, panicking>>

\* The interrupt gate clears the interrupt flag, iretq restores it.
Interrupt(cpu) ==
    /\ irqEnabled[cpu] /\ ~inHandler[cpu] /\ context[<<cpu, "code">>].pc # "halted"
    /\ irqEnabled' = [irqEnabled EXCEPT ![cpu] = FALSE]
    /\ inHandler' = [inHandler EXCEPT ![cpu] = TRUE]
    /\ UNCHANGED <<locked, context, panicking>>

InterruptReturns(cpu) ==
    /\ AtPc(<<cpu, "interrupt">>, "run") /\ context[<<cpu, "interrupt">>].guards = <<>>
    /\ irqEnabled' = [irqEnabled EXCEPT ![cpu] = TRUE]
    /\ inHandler' = [inHandler EXCEPT ![cpu] = FALSE]
    /\ UNCHANGED <<locked, context, panicking>>

\* start_panicking(), from the panic handler.
StartPanicking(c) ==
    /\ AtPc(c, "run") /\ ~panicking
    /\ panicking' = TRUE
    /\ UNCHANGED <<locked, context, irqEnabled, inHandler>>

\* The steps of OnceLock::set(v), which holds the mutex, and of get() after it.
SetterAt(v, pc) == setter[v].pc = pc
OnceTakesAny == FALSE
OnceRefuses == once.initialized
OnceStep(v) ==
    /\ \/ /\ SetterAt(v, "set") /\ ~once.mutex
          /\ once' = [once EXCEPT !.mutex = TRUE]
          /\ setter' = [setter EXCEPT ![v].pc = IF OnceRefuses THEN "refused" ELSE "write 1"]
       \/ /\ SetterAt(v, "write 1")
          /\ once' = [once EXCEPT !.data[1] = v]
          /\ setter' = [setter EXCEPT ![v].pc = "write 2"]
       \/ /\ SetterAt(v, "write 2")
          /\ once' = [once EXCEPT !.data[2] = v]
          /\ setter' = [setter EXCEPT ![v].pc = "initialized"]
       \/ /\ SetterAt(v, "initialized")
          /\ once' = [once EXCEPT !.initialized = TRUE, !.mutex = FALSE]
          /\ setter' = [setter EXCEPT ![v].pc = "get", ![v].result = "Ok"]
       \/ /\ SetterAt(v, "refused")
          /\ once' = [once EXCEPT !.mutex = FALSE]
          /\ setter' = [setter EXCEPT ![v].pc = "get", ![v].result = "InvalidArgument"]
    /\ UNCHANGED spinVars

\* OnceLock::get(): the mutex covers the flag, not the data that is read after it.
OnceGet(v) ==
    /\ UNCHANGED <<spinVars, once>>
    /\ \/ /\ SetterAt(v, "get") /\ ~once.mutex
          /\ setter' = [setter EXCEPT ![v].pc = IF once.initialized THEN "read 1" ELSE "get"]
       \/ SetterAt(v, "read 1") /\ setter' = [setter EXCEPT ![v].pc = "read 2", ![v].got[1] = once.data[1]]
       \/ SetterAt(v, "read 2") /\ setter' = [setter EXCEPT ![v].pc = "done", ![v].got[2] = once.data[2]]

SpinNext ==
    /\ \/ \E c \in Contexts :
            \/ \E l \in SpinLocks, try \in BOOLEAN : CallLock(c, l, try)
            \/ IrqGuardSaves(c) \/ IrqGuardDisables(c) \/ CheckPanicking(c) \/ TakeLock(c)
            \/ TryLockFails(c) \/ KnockDown(c) \/ DropGuard(c) \/ DropIrqGuard(c) \/ StartPanicking(c)
       \/ \E cpu \in LockCpus : Interrupt(cpu) \/ InterruptReturns(cpu)
    /\ UNCHANGED <<once, setter>>

LocksNext == SpinNext \/ \E v \in OnceValues : OnceStep(v) \/ OnceGet(v)

LocksSpec == LocksInit /\ [][LocksNext]_lockVars
-----------------------------------------------------------------------------
(* Properties *)

Owners(l) == {c \in Contexts : HoldsGuard(c, l)}

\* Until somebody panics a lock has one guard at most, and it is locked exactly while it has one.
LocksExclude ==
    ~panicking => \A l \in SpinLocks :
        Cardinality(Owners(l)) <= 1 /\ (locked[l] <=> Owners(l) # {})

\* An interrupt handler never waits for a lock that the code under it holds: IrqGuard is in force
\* from before the lock is taken until after it is free, whatever the nesting.
HandlerNeverWaitsForItsCpu ==
    \A cpu \in LockCpus, l \in SpinLocks :
        ~panicking /\ inHandler[cpu] /\ HoldsGuard(<<cpu, "code">>, l)
            => ~(context[<<cpu, "interrupt">>].pc = "take" /\ context[<<cpu, "interrupt">>].lock = l)

\* Interrupts are disabled while an IrqSpinlockGuard lives, after any nesting, failed try_lock()
\* and handler, and no call enables them under a caller that had them disabled.
InterruptsFollowGuards ==
    [][ \A cpu \in LockCpus :
          LET c == <<cpu, "code">> IN
          /\ inHandler[cpu] => (irqEnabled'[cpu] => ~inHandler'[cpu])
          /\ ~inHandler[cpu] /\ ~irqEnabled[cpu] /\ irqEnabled'[cpu] =>
                /\ \A l \in IrqLocks : ~HoldsGuard(c, l)
                /\ context[c].were ]_spinVars

\* Of the values given to set() exactly the one that got Ok is stored, and get() never returns a
\* value of which a part is not written yet, or one that was refused.
OnceIsSetOnce ==
    /\ Cardinality({v \in OnceValues : setter[v].result = "Ok"}) <= 1
    /\ \A v, w \in OnceValues : setter[v].pc = "done" /\ setter[w].result = "Ok" => setter[v].got = <<w, w>>
    /\ \A v \in OnceValues : setter[v].result = "InvalidArgument" => once.initialized

\* Spinlock and IrqSpinlock: one owner, no handler that waits for the code under it, and
\* interrupts off exactly as long as the guards and the callers want.
LocksAreSafe == [](LocksExclude /\ HandlerNeverWaitsForItsCpu) /\ InterruptsFollowGuards
=============================================================================
