----------------------------- MODULE Scheduling -----------------------------
(***************************************************************************)
(* How processes get on and off the CPUs: kernel/src/process/scheduler.rs, *)
(* process.rs (enter_user_mode, preempt, sched_yield), registers.rs (the   *)
(* switch of stacks), syscall.rs, the user mode part of trap/mod.rs, and   *)
(* struct Cpu of smp/cpu.rs, over the process table.                       *)
(*                                                                         *)
(* Each CPU executes Scheduler::run().  A step of a CPU is what it does    *)
(* between two points where another CPU can interfere: the acquisition of  *)
(* a spinlock, and the boundary of user mode.  The order of the locks is   *)
(*     TABLE -> process -> BASE_ADDRESS_SPACE, SCHEDULER,                  *)
(* and Table::get() keeps TABLE while it spins on a process.               *)
(* The SCHEDULER lock protects single queue operations and is not modelled *)
(* separately.                                                             *)
(***************************************************************************)
EXTENDS ProcessTable, Sequences

CONSTANTS Cpus,
          BootCpu,      \* the CPU on which the kernel creates processes
          UserOps,      \* what user programs do, a subset of AllUserOps
          KernelOps,    \* what the boot CPU does, a subset of {"create", "free"}
          MaxCreated,   \* bound: how many processes are ever created
          BaseRoot,     \* page table root of BASE_ADDRESS_SPACE
          NewRoot       \* page table root of a process that has no pid yet

\* log_value_at_end is log_value() of a block that ends where the lower half of
\* the virtual addresses ends.
AllUserOps == {"exit", "log_value", "log_value_at_end", "sched_yield", "unknown",
               "breakpoint", "fault"}

ASSUME CpuAssumption == BootCpu \in Cpus /\ None \notin Cpus
ASSUME OpsAssumption == UserOps \subseteq AllUserOps /\ KernelOps \subseteq {"create", "free"}
ASSUME BoundAssumption == MaxCreated \in 0 .. MaxEpoch
ASSUME RootAssumption == BaseRoot # NewRoot /\ {BaseRoot, NewRoot, None} \cap Pid = {}

VARIABLES queue,             \* Scheduler::queue
          table_lock,        \* owner of the TABLE spinlock
          process_lock,      \* owner of the spinlock of the process in a slot
          base_lock,         \* owner of the BASE_ADDRESS_SPACE spinlock
          state,             \* Process::state of the process in a slot
          pc,                \* where the CPU is
          pid,               \* the process it deals with
          op,                \* on whose behalf it calls Table::get(), Table::free()
          current_process,   \* Cpu::current_process
          user_context,      \* Cpu::user_context: whose context it is
          page_table_root,   \* the CR3 register
          rsp                \* where the stack pointer of the kernel is

localVars == <<current_process, user_context, page_table_root, rsp>>
lockVars == <<table_lock, process_lock, base_lock>>
vars == <<free, process_count, table, panicked, queue, table_lock, process_lock,
          base_lock, state, pc, pid, op, current_process, user_context,
          page_table_root, rsp>>

Init ==
    /\ TableInit
    /\ queue = <<>>
    /\ table_lock = None
    /\ process_lock = [s \in Slots |-> None]
    /\ base_lock = None
    /\ state = [s \in Slots |-> "Runnable"]
    /\ pc = [c \in Cpus |-> "run_one"]
    /\ pid = [c \in Cpus |-> None]
    /\ op = [c \in Cpus |-> "run_one"]
    /\ current_process = [c \in Cpus |-> None]
    /\ user_context = [c \in Cpus |-> None]
    /\ page_table_root = [c \in Cpus |-> BaseRoot]
    /\ rsp = [c \in Cpus |-> "saved"]
-----------------------------------------------------------------------------
At(c, from) == pc[c] = from
Goto(c, to) == pc' = [pc EXCEPT ![c] = to]
SlotOf(c) == pid[c].slot
UnlockProcess(c) == process_lock' = [process_lock EXCEPT ![SlotOf(c)] = None]
EnqueueFront(p) == queue' = <<p>> \o queue
Enqueue(p) == queue' = Append(queue, p)

(***************************************************************************)
(* Scheduler::run_one(), Scheduler::run()                                  *)
(***************************************************************************)
Dequeue(c) ==
    /\ At(c, "run_one")
    /\ queue # <<>>
    /\ pid' = [pid EXCEPT ![c] = Head(queue)]
    /\ queue' = Tail(queue)
    /\ op' = [op EXCEPT ![c] = "run_one"]
    /\ Goto(c, "get")
    /\ UNCHANGED <<tableVars, lockVars, state, localVars>>

NothingToDo(c) ==
    /\ At(c, "run_one")
    /\ queue = <<>>
    /\ Goto(c, "hlt")
    /\ UNCHANGED <<tableVars, lockVars, queue, state, pid, op, localVars>>

\* Any interrupt ends hlt; the timer is periodic.
WakeUp(c) ==
    /\ At(c, "hlt")
    /\ Goto(c, "run_one")
    /\ UNCHANGED <<tableVars, lockVars, queue, state, pid, op, localVars>>

(***************************************************************************)
(* Table::get(): TABLE stays locked until the process is locked.           *)
(***************************************************************************)
GetLocksTable(c) ==
    /\ At(c, "get")
    /\ table_lock = None
    /\ table_lock' = c
    /\ Goto(c, "get_process")
    /\ UNCHANGED <<tableVars, process_lock, base_lock, queue, state, pid, op, localVars>>

\* A used slot is locked before the pid of its process is compared.
SlotIsUnlocked(c) == IsUsed(SlotOf(c)) => process_lock[SlotOf(c)] = None

GetFindsProcess(c) ==
    /\ At(c, "get_process")
    /\ SlotIsUnlocked(c)
    /\ Found(pid[c])
    /\ process_lock' = [process_lock EXCEPT ![SlotOf(c)] = c]
    /\ table_lock' = None
    /\ Goto(c, CASE op[c] = "run_one" -> "enter_user_mode"
                 [] op[c] = "preempted" -> "save_context"
                 [] OTHER -> "handler")
    /\ UNCHANGED <<tableVars, base_lock, queue, state, pid, op, localVars>>

\* NoProcess: run_one() skips the pid, dispatch of an unknown syscall does not
\* look at the error, every other caller unwraps it.
GetFindsNothing(c) ==
    /\ At(c, "get_process")
    /\ SlotIsUnlocked(c)
    /\ ~Found(pid[c])
    /\ table_lock' = None
    /\ Goto(c, CASE op[c] = "run_one" -> "run_one"
                 [] op[c] = "unknown" -> "user"
                 [] OTHER -> "panic")
    /\ UNCHANGED <<tableVars, process_lock, base_lock, queue, state, pid, op, localVars>>

(***************************************************************************)
(* Process::enter_user_mode() and Registers::switch_to()                   *)
(***************************************************************************)
EnterUserMode(c) ==
    /\ At(c, "enter_user_mode")
    /\ page_table_root' = [page_table_root EXCEPT ![c] = pid[c]]
    /\ current_process' = [current_process EXCEPT ![c] = pid[c]]
    /\ state' = [state EXCEPT ![SlotOf(c)] = "Running"]
    /\ UnlockProcess(c)
    /\ Goto(c, "user")
    /\ UNCHANGED <<tableVars, table_lock, base_lock, queue, pid, op, user_context, rsp>>

\* The timer interrupts user mode: Process::preempt() keeps the user context in
\* Cpu and resumes at store_user_mode_context, which reloads the kernel stack.
Preempt(c) ==
    /\ At(c, "user")
    /\ user_context' = [user_context EXCEPT ![c] = current_process[c]]
    /\ rsp' = [rsp EXCEPT ![c] = "saved"]
    /\ Goto(c, "left_user_mode")
    /\ UNCHANGED <<tableVars, lockVars, queue, state, pid, op, current_process,
                   page_table_root>>

LeaveUserModeAlwaysPreempted(c) ==
    /\ At(c, "left_user_mode")
    /\ rsp[c] = "saved"
    /\ current_process' = [current_process EXCEPT ![c] = None]
    /\ user_context' = [user_context EXCEPT ![c] = None]
    /\ op' = [op EXCEPT ![c] = "preempted"]
    /\ Goto(c, "get")
    /\ UNCHANGED <<tableVars, lockVars, queue, state, pid, page_table_root, rsp>>

\* The rest of enter_user_mode() after Registers::switch_to() returns through
\* the label switch_to_kernel_mode; it asserts that the kernel stack pointer
\* is the one that was saved.
LeaveUserMode(c) ==
    /\ At(c, "left_user_mode")
    /\ rsp[c] = "saved"
    /\ current_process' = [current_process EXCEPT ![c] = None]
    /\ user_context' = [user_context EXCEPT ![c] = None]
    /\ IF user_context[c] # None
         THEN op' = [op EXCEPT ![c] = "preempted"] /\ Goto(c, "get")
         ELSE op' = op /\ Goto(c, "run_one")
    /\ UNCHANGED <<tableVars, lockVars, queue, state, pid, page_table_root, rsp>>

StackAssertionFails(c) ==
    /\ At(c, "left_user_mode")
    /\ rsp[c] # "saved"
    /\ Goto(c, "panic")
    /\ UNCHANGED <<tableVars, lockVars, queue, state, pid, op, localVars>>

\* The preempted process gets its context back and becomes Runnable.
SaveContext(c) ==
    /\ At(c, "save_context")
    /\ state' = [state EXCEPT ![SlotOf(c)] = "Runnable"]
    /\ UnlockProcess(c)
    /\ Goto(c, "enqueue")
    /\ UNCHANGED <<tableVars, table_lock, base_lock, queue, pid, op, localVars>>

\* Scheduler::enqueue() by run_one() for a preempted process, and by the boot
\* CPU for a new one.
EnqueueProcess(c) ==
    /\ At(c, "enqueue")
    /\ Enqueue(pid[c])
    /\ Goto(c, "run_one")
    /\ UNCHANGED <<tableVars, lockVars, state, pid, op, localVars>>

(***************************************************************************)
(* From user mode into the kernel: syscall_trampoline, trap_trampoline.    *)
(* The kernel works below the saved stack pointer, or on the stack of page *)
(* faults.                                                                 *)
(***************************************************************************)
EnterKernel(c, o) ==
    /\ At(c, "user")
    /\ pid' = [pid EXCEPT ![c] = current_process[c]]
    /\ op' = [op EXCEPT ![c] = o]
    /\ rsp' = [rsp EXCEPT ![c] = "frame"]
    /\ Goto(c, "get")
    /\ UNCHANGED <<tableVars, lockVars, queue, state, current_process, user_context,
                   page_table_root>>

Handles(c, o) == At(c, "handler") /\ op[c] = o

ReturnKeepsLock(c) ==
    /\ Handles(c, "log_value") \/ Handles(c, "breakpoint")
    /\ Goto(c, "user")
    /\ UNCHANGED <<tableVars, lockVars, queue, state, pid, op, localVars>>

\* log_value(), and a trap that is not fatal: the guard is dropped, and the
\* CPU returns to user mode.
Return(c) ==
    /\ Handles(c, "log_value") \/ Handles(c, "breakpoint")
    /\ UnlockProcess(c)
    /\ Goto(c, "user")
    /\ UNCHANGED <<tableVars, table_lock, base_lock, queue, state, pid, op, localVars>>

\* check_permission() of a block without an end address: Block::enclosing()
\* unwraps the error of end_address() and panics, with the guard still alive.
LogValuePanics(c) ==
    /\ Handles(c, "log_value_at_end")
    /\ Goto(c, "panic_in_enclosing")
    /\ UNCHANGED <<tableVars, lockVars, queue, state, pid, op, localVars>>

\* The unknown and the unimplemented syscalls: sysret() does not return, so
\* the guard is never dropped.
ReturnUnknown(c) ==
    /\ Handles(c, "unknown")
    /\ Goto(c, "user")
    /\ UNCHANGED <<tableVars, lockVars, queue, state, pid, op, localVars>>

ExitKeepsLock(c) ==
    /\ Handles(c, "exit")
    /\ base_lock = None
    /\ page_table_root' = [page_table_root EXCEPT ![c] = BaseRoot]
    /\ Goto(c, "free")
    /\ UNCHANGED <<tableVars, lockVars, queue, state, pid, op, current_process,
                   user_context, rsp>>

\* exit(): switches to the base address space, unlocks the process and calls
\* Table::free().
Exit(c) ==
    /\ Handles(c, "exit")
    /\ base_lock = None
    /\ page_table_root' = [page_table_root EXCEPT ![c] = BaseRoot]
    /\ UnlockProcess(c)
    /\ Goto(c, "free")
    /\ UNCHANGED <<tableVars, table_lock, base_lock, queue, state, pid, op,
                   current_process, user_context, rsp>>

YieldUnlocksFirst(c) ==
    /\ Handles(c, "sched_yield")
    /\ Enqueue(pid[c])
    /\ UnlockProcess(c)
    /\ Goto(c, "yield")
    /\ UNCHANGED <<tableVars, table_lock, base_lock, state, pid, op, localVars>>

\* sched_yield(): enqueues the process while it is still locked ...
YieldEnqueues(c) ==
    /\ Handles(c, "sched_yield")
    /\ Enqueue(pid[c])
    /\ Goto(c, "yield")
    /\ UNCHANGED <<tableVars, lockVars, state, pid, op, localVars>>

\* ... and unlocks it only when the CPU has let go of it.
YieldLeaves(c) ==
    /\ At(c, "yield")
    /\ base_lock = None
    /\ page_table_root' = [page_table_root EXCEPT ![c] = BaseRoot]
    /\ current_process' = [current_process EXCEPT ![c] = None]
    /\ UnlockProcess(c)
    /\ rsp' = [rsp EXCEPT ![c] = "saved"]
    /\ Goto(c, "left_user_mode")
    /\ UNCHANGED <<tableVars, table_lock, base_lock, queue, state, pid, op, user_context>>

\* generic_trap() for a fatal trap in user mode: unlocks the process and calls
\* Table::free().  A process has the pid Pid::Current, for which generic_trap() returns
\* at once, only before it is in the table; that branch is in Interrupts!GenericTrap.
FatalTrap(c) ==
    /\ Handles(c, "fault")
    /\ UnlockProcess(c)
    /\ Goto(c, "free")
    /\ UNCHANGED <<tableVars, table_lock, base_lock, queue, state, pid, op, localVars>>

(***************************************************************************)
(* Table::free(): the process is locked and unlocked under TABLE, then     *)
(* destroyed.  Dropping its address space while it is loaded on this CPU   *)
(* switches to the base address space, under its lock.                     *)
(***************************************************************************)
FreeLocksTable(c) ==
    /\ At(c, "free")
    /\ table_lock = None
    /\ table_lock' = c
    /\ Goto(c, "free_process")
    /\ UNCHANGED <<tableVars, process_lock, base_lock, queue, state, pid, op, localVars>>

AfterFreeOnItsStack(c, freed) ==
    /\ Goto(c, CASE op[c] = "exit" -> IF freed THEN "left_user_mode" ELSE "panic"
                 [] op[c] = "fault" -> "left_user_mode"
                 [] OTHER -> "run_one")
    /\ current_process' = [current_process EXCEPT ![c] = IF op[c] = "exit" THEN None ELSE @]
    /\ UNCHANGED rsp

\* What the caller of Table::free() does next.  exit() reloads the kernel
\* stack pointer; generic_trap() calls Process::sched_yield(), which does not.
AfterFree(c, freed) ==
    CASE op[c] = "exit" ->
           /\ Goto(c, IF freed THEN "left_user_mode" ELSE "panic")
           /\ current_process' = [current_process EXCEPT ![c] = None]
           /\ rsp' = [rsp EXCEPT ![c] = "saved"]
      [] op[c] = "fault" ->
           /\ Goto(c, "left_user_mode")
           /\ UNCHANGED <<current_process, rsp>>
      [] OTHER ->
           /\ Goto(c, "run_one")
           /\ UNCHANGED <<current_process, rsp>>

DropKeepsRoot(c) ==
    /\ page_table_root[c] = pid[c] => base_lock = None
    /\ UNCHANGED page_table_root

DropAddressSpace(c) ==
    /\ page_table_root[c] = pid[c] => base_lock = None
    /\ page_table_root' = [page_table_root EXCEPT ![c] = IF @ = pid[c] THEN BaseRoot ELSE @]

FreeProcess(c) ==
    /\ At(c, "free_process")
    /\ SlotIsUnlocked(c)
    /\ Free(pid[c])
    /\ DropAddressSpace(c)
    /\ table_lock' = None
    /\ AfterFree(c, TRUE)
    /\ UNCHANGED <<process_lock, base_lock, queue, state, pid, op, user_context>>

FreeFindsNothing(c) ==
    /\ At(c, "free_process")
    /\ SlotIsUnlocked(c)
    /\ ~Found(pid[c])
    /\ table_lock' = None
    /\ AfterFree(c, FALSE)
    /\ UNCHANGED <<tableVars, process_lock, base_lock, queue, state, pid, op,
                   user_context, page_table_root>>

(***************************************************************************)
(* The boot CPU between two calls of run_one(): process::create() followed *)
(* by Scheduler::enqueue(), and Table::free() of any pid, as the kernel's  *)
(* tests do.                                                               *)
(***************************************************************************)
CreateDuplicatesBase(c) ==
    /\ c = BootCpu /\ "create" \in KernelOps
    /\ At(c, "run_one")
    /\ Cardinality(LiveIds \cup RetiredIds) < MaxCreated
    /\ base_lock = None
    /\ base_lock' = c
    /\ Goto(c, "create")
    /\ UNCHANGED <<tableVars, table_lock, process_lock, queue, state, pid, op, localVars>>

\* elf::load() fails, or Process::new() switches to the new address space.
CreateInitializes(c) ==
    /\ At(c, "create")
    /\ base_lock' = None
    /\ \/ Goto(c, "run_one") /\ UNCHANGED page_table_root
       \/ /\ Goto(c, "init_address_space")
          /\ page_table_root' = [page_table_root EXCEPT ![c] = NewRoot]
    /\ UNCHANGED <<tableVars, table_lock, process_lock, queue, state, pid, op,
                   current_process, user_context, rsp>>

\* Back to the base address space: explicitly, or on an error when the new
\* address space is dropped.
CreateReturnsToBase(c) ==
    /\ At(c, "init_address_space")
    /\ base_lock = None
    /\ page_table_root' = [page_table_root EXCEPT ![c] = BaseRoot]
    /\ Goto(c, "allocate") \/ Goto(c, "run_one")
    /\ UNCHANGED <<tableVars, lockVars, queue, state, pid, op, current_process,
                   user_context, rsp>>

CreateAllocates(c) ==
    /\ At(c, "allocate")
    /\ table_lock = None
    /\ Allocate
    /\ pid' = [pid EXCEPT ![c] = free]
    /\ state' = [state EXCEPT ![free.slot] = "Runnable"]
    /\ Goto(c, "enqueue")
    /\ UNCHANGED <<lockVars, queue, op, localVars>>

CreateRefused(c) ==
    /\ At(c, "allocate")
    /\ table_lock = None
    /\ ~CanAllocate
    /\ Goto(c, "run_one")
    /\ UNCHANGED <<tableVars, lockVars, queue, state, pid, op, localVars>>

KernelFree(c) ==
    /\ c = BootCpu /\ "free" \in KernelOps
    /\ At(c, "run_one")
    /\ \E p \in LiveIds \cup RetiredIds : pid' = [pid EXCEPT ![c] = p]
    /\ op' = [op EXCEPT ![c] = "kernel_free"]
    /\ Goto(c, "free")
    /\ UNCHANGED <<tableVars, lockVars, queue, state, localVars>>
-----------------------------------------------------------------------------
\* What the scheduler loop and the handlers do without being asked.
KernelStep(c) ==
    \/ Dequeue(c) \/ NothingToDo(c)
    \/ GetLocksTable(c) \/ GetFindsProcess(c) \/ GetFindsNothing(c)
    \/ EnterUserMode(c) \/ LeaveUserMode(c) \/ StackAssertionFails(c)
    \/ SaveContext(c) \/ EnqueueProcess(c)
    \/ Return(c) \/ LogValuePanics(c) \/ ReturnUnknown(c) \/ Exit(c)
    \/ YieldEnqueues(c) \/ YieldLeaves(c) \/ FatalTrap(c)
    \/ FreeLocksTable(c) \/ FreeProcess(c) \/ FreeFindsNothing(c)
    \/ CreateInitializes(c) \/ CreateReturnsToBase(c)
    \/ CreateAllocates(c) \/ CreateRefused(c)

TimerTick(c) == WakeUp(c) \/ Preempt(c)

Next == \E c \in Cpus :
    \/ KernelStep(c)
    \/ TimerTick(c)
    \/ \E o \in UserOps : EnterKernel(c, o)
    \/ CreateDuplicatesBase(c) \/ KernelFree(c)

Spec == Init /\ [][Next]_vars

\* The kernel keeps executing.  The loop of Scheduler::run() comes back to
\* run_one(): the boot CPU does not create and destroy processes forever.
\* The local APIC timer is periodic and asynchronous to the user programs, so
\* that its ticks do not all fall into their system calls.
Fairness == \A c \in Cpus :
    /\ WF_vars(KernelStep(c)) /\ SF_vars(Dequeue(c))
    /\ WF_vars(WakeUp(c)) /\ SF_vars(Preempt(c))

FairSpec == Spec /\ Fairness
-----------------------------------------------------------------------------
Locations == {"run_one", "hlt", "get", "get_process", "enter_user_mode", "user",
              "left_user_mode", "save_context", "enqueue", "handler", "yield",
              "free", "free_process", "create", "init_address_space", "allocate",
              "panic", "panic_in_enclosing"}
Calls == {"run_one", "preempted", "kernel_free"} \cup AllUserOps
OptionPid == Pid \cup {None}
Owner == Cpus \cup {None}

\* Type invariant of the scheduler, the locks and struct Cpu.
SchedulingTypeOK ==
    /\ TableTypeOK
    /\ queue \in Seq(Pid)
    /\ table_lock \in Owner /\ base_lock \in Owner
    /\ process_lock \in [Slots -> Owner]
    /\ state \in [Slots -> {"Runnable", "Running"}]
    /\ pc \in [Cpus -> Locations] /\ op \in [Cpus -> Calls]
    /\ pid \in [Cpus -> OptionPid]
    /\ current_process \in [Cpus -> OptionPid] /\ user_context \in [Cpus -> OptionPid]
    /\ page_table_root \in [Cpus -> Pid \cup {BaseRoot, NewRoot}]
    /\ rsp \in [Cpus -> {"saved", "frame"}]

InQueue(p) == \E i \in 1 .. Len(queue) : queue[i] = p

\* The CPU has taken the process over from the queue (or is creating or
\* destroying it) and has not given it back.
Holds(c, p) ==
    /\ pid[c] = p
    /\ \/ pc[c] \in {"get", "get_process", "enter_user_mode", "user", "save_context",
                     "enqueue", "handler", "panic_in_enclosing"}
       \/ pc[c] = "left_user_mode" /\ user_context[c] # None
       \/ pc[c] \in {"free", "free_process"} /\ op[c] # "kernel_free"

\* A process is executed by at most one CPU and is never queued twice, nor
\* queued while some CPU holds it: run_one(), sched_yield(), exit() and the
\* timer hand a process over without duplicating it.
AtMostOnce ==
    \A p \in LiveIds :
        /\ \A c, d \in Cpus : Holds(c, p) /\ Holds(d, p) => c = d
        /\ \A c \in Cpus : Holds(c, p) => ~InQueue(p)
        /\ \A i, j \in 1 .. Len(queue) : queue[i] = p /\ queue[j] = p => i = j

\* No process is forgotten: a process in the table is queued or in the hands
\* of a CPU (run_one() puts a preempted process back, sched_yield() itself).
NoProcessIsLost ==
    \A p \in LiveIds : InQueue(p) \/ \E c \in Cpus : Holds(c, p)

\* User code runs only with its own live process as current_process, with its
\* own page tables loaded, in state Running, and with no kernel lock held by
\* the CPU (Process::enter_user_mode(), sysret(), the return from a trap).  The
\* one exception is what an unknown system call leaks: the lock of that process.
UserModeIsClean ==
    \A c \in Cpus : pc[c] = "user" =>
        /\ Found(current_process[c]) /\ current_process[c] = pid[c]
        /\ page_table_root[c] = pid[c]
        /\ state[SlotOf(c)] = "Running"
        /\ c \notin {table_lock, base_lock}
        /\ \A s \in Slots : process_lock[s] = c => s = SlotOf(c) /\ op[c] = "unknown"

\* Whoever is inside a section that a spinlock protects owns the spinlock, so
\* that no two CPUs are inside: the table, the process in a slot, and the base
\* address space while create_process() duplicates it.
LocksProtect ==
    \A c \in Cpus :
        /\ pc[c] \in {"get_process", "free_process"} => table_lock = c
        /\ pc[c] \in {"enter_user_mode", "save_context", "handler", "yield",
                      "panic_in_enclosing"} =>
              Found(pid[c]) /\ process_lock[SlotOf(c)] = c
        /\ pc[c] = "create" => base_lock = c

\* The saved user context in Cpu::user_context is consumed by the very process
\* it belongs to: it never outlives the return from user mode.
ContextIsFresh ==
    \A c \in Cpus : user_context[c] # None =>
        pc[c] = "left_user_mode" /\ user_context[c] = pid[c]

\* No CPU works on the page tables of a destroyed process: exit() and the drop
\* of an address space switch to the base address space first.
LoadedRootIsLive ==
    \A c \in Cpus : page_table_root[c] \in Pid => Found(page_table_root[c])

\* Of the assertions, expect() and unwrap() on these paths only two ever fail,
\* each for what the user program did: a CPU always finds the process it was
\* executing, and returns on its own stack, but for a process that a fatal trap
\* destroys (see KernelStackRestored) and for a log_value() of a block at the end
\* of the lower half (see CheckPermissionReturns).
NoPanic ==
    \A c \in Cpus :
        /\ pc[c] = "panic" => op[c] = "fault"
        /\ pc[c] = "panic_in_enclosing" => op[c] = "log_value_at_end"

\* check_permission() answers log_value(), for any block of the user: it knows
\* of NoPage and PermissionDenied, and of no panic.
CheckPermissionReturns == \A c \in Cpus : pc[c] # "panic_in_enclosing"

\* The CPU that owns the spinlock on which this one spins.
Awaited(c) ==
    CASE pc[c] \in {"get", "free", "allocate"} -> table_lock
      [] pc[c] \in {"get_process", "free_process"} /\ ~SlotIsUnlocked(c) ->
            process_lock[SlotOf(c)]
      [] pc[c] \in {"yield", "init_address_space"} \/ Handles(c, "exit") -> base_lock
      [] pc[c] = "free_process" /\ SlotIsUnlocked(c) /\ page_table_root[c] = pid[c] -> base_lock
      [] OTHER -> None

\* TABLE, the processes and BASE_ADDRESS_SPACE are locked in one order by
\* Table::get(), Table::free(), the system calls, the drop of an address space
\* and create_process(), so that CPUs never wait for each other in a circle.
\* A CPU waits for itself only on the lock that an unknown call has leaked.
NobodyWaitsInACircle ==
    \A S \in SUBSET Cpus :
        S # {} /\ (\A c \in S : Awaited(c) \in S) =>
            \E c \in S : Awaited(c) = c /\ pc[c] = "get_process" /\ "unknown" \in UserOps

\* The assertion of Registers::switch_to(): whoever returns through it has the
\* kernel stack pointer with which user mode was entered.
KernelStackRestored == \A c \in Cpus : pc[c] = "left_user_mode" => rsp[c] = "saved"

\* Every process in the queue gets to user mode, unless it is destroyed:
\* the round robin of run_one() together with the timer starves nobody.
QueuedProcessRuns ==
    \A p \in Pid : InQueue(p) ~> (~Found(p) \/ \E c \in Cpus : pc[c] = "user" /\ pid[c] = p)

\* Every system call and every trap ends: the CPU comes back to user mode or to
\* its scheduler loop.
KernelEntryCompletes ==
    \A c \in Cpus : (pc[c] = "handler" \/ pc[c] = "get") ~> pc[c] \in {"user", "run_one"}

\* A process in the table is in exactly one place: queued once, or in the hands of one CPU,
\* through run_one(), sched_yield(), exit(), the timer and fatal traps.
EachProcessIsInOnePlace == AtMostOnce /\ NoProcessIsLost

\* The sections of Table::get(), Table::free(), the system calls and create_process() are entered
\* with their locks, and a saved user context is used by the process it belongs to.
ProcessesAreProtected == SchedulingTypeOK /\ LocksProtect /\ ContextIsFresh
=============================================================================
