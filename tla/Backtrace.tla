----------------------------- MODULE Backtrace -----------------------------
(***************************************************************************)
(* ku/src/backtrace/mod.rs: the walk along the frame pointers of a stack   *)
(* that may be damaged.  A stack frame is the pair of the outer frame      *)
(* pointer and the return address; `words' is the memory, a function from  *)
(* aligned addresses to what they hold.                                    *)
(***************************************************************************)
EXTENDS Addresses, SequencesExt

CONSTANTS StackSize   \* 32 * Page::SIZE, how much of the stack new_impl() trusts

WordSize == 2               \* size_of::<usize>()
FrameSize == 2 * WordSize   \* size_of::<StackFrame>()

StackFrame(at, outer, return) == [at |-> at, outer |-> outer, return_address |-> return]
DefaultFrame == StackFrame(0, 0, 0)

\* StackFrame::validate()
Validate(words, at) ==
    AndThen(NewAddress("Virt", at), LAMBDA v :
    AndThen(TryIntoRef(v, WordSize), LAMBDA p :
    AndThen(NewAddress("Virt", words[p]), LAMBDA outer :
    AndThen(NewAddress("Virt", words[p + WordSize]), LAMBDA return :
        Ok(StackFrame(p, outer, return))))))

\* Backtrace::new_impl()
NewBacktrace(rbp, rsp, frame) ==
    AndThen(NewAddress("Virt", rsp), LAMBDA lower :
        IF rbp + StackSize >= Word THEN Panic
        ELSE AndThen(FromIndex(Bytes("Virt"), rbp, rbp + StackSize), LAMBDA b :
             AndThen(Enclosing("Virt", b), LAMBDA pages :
             AndThen(BytesOf(Pages, pages), LAMBDA stack :
                 Ok([lower_limit |-> lower, stack |-> stack, stack_frame |-> frame])))))

\* Backtrace::new() and Backtrace::with_stack() of it.
BacktraceOf(words, rbp, rsp) ==
    AndThen(Validate(words, rbp), LAMBDA frame : NewBacktrace(rbp, rsp, frame))

\* Backtrace::with_context(): the innermost frame is the interrupted instruction itself.
BacktraceWithContext(rbp, rsp, rip) == NewBacktrace(rbp, rsp, StackFrame(0, rbp, rip))

OuterAnywhere(words, b) ==
    LET outer == b.stack_frame.outer
        end == AddAddress("Virt", outer, FrameSize) IN
    IF outer = 0 \/ ~IsSameHalf("Virt", outer, b.lower_limit) \/ ~end.ok
    THEN [b EXCEPT !.stack_frame = DefaultFrame]
    ELSE LET read == IF ContainsBlock(b.stack, Block(outer, end.value)) THEN Validate(words, outer) ELSE Err("") IN
         [b EXCEPT !.lower_limit = end.value,
                   !.stack_frame = IF read.ok THEN read.value ELSE DefaultFrame]

\* StackFrame::outer(), with the default for None: the frame must lie above all the former ones,
\* in the same half, and inside the stack.
Outer(words, b) ==
    LET outer == b.stack_frame.outer
        end == AddAddress("Virt", outer, FrameSize) IN
    IF outer = 0 \/ ~IsSameHalf("Virt", outer, b.lower_limit) \/ outer < b.lower_limit \/ ~end.ok
    THEN [b EXCEPT !.stack_frame = DefaultFrame]
    ELSE LET read == IF ContainsBlock(b.stack, Block(outer, end.value)) THEN Validate(words, outer) ELSE Err("") IN
         [b EXCEPT !.lower_limit = end.value,
                   !.stack_frame = IF read.ok THEN read.value ELSE DefaultFrame]

\* The frames that the Iterator of Backtrace gives in its first n steps.
IterateBacktrace(words, backtrace, n) ==
    LET next(s, i) == IF s.b.stack_frame.outer = 0 THEN s
                      ELSE [b |-> Outer(words, s.b), frames |-> Append(s.frames, s.b.stack_frame)]
    IN FoldLeft(next, [b |-> backtrace, frames |-> <<>>], [i \in 1 .. n |-> i])
=============================================================================
