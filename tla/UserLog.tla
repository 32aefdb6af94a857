------------------------------ MODULE UserLog ------------------------------
(***************************************************************************)
(* The log of a user process: LogCollector of ku/src/log/mod.rs writes     *)
(* events into a pipe of limited capacity, and the kernel prints them each *)
(* time an exception of the process comes to Process::trap(), which calls  *)
(* flush_log() and so user_events() of kernel/src/log/mod.rs.  The process *)
(* is single threaded, so event() with the messages that it logs about     *)
(* itself is one action; 'reads' are the messages between whose two tries  *)
(* the function of set_flush() gets the log read.  The pipe is external:   *)
(* committed messages are read in order, and a reading that is not         *)
(* committed leaves them where they are.                                   *)
(***************************************************************************)
EXTENDS Integers, SequencesExt

CONSTANTS PipeCapacity, EventSizes,
          PlanBSize, PlanCSize, StatisticsSize,   \* messages of the collector about lost ones
          MalformedSize,                          \* a message the kernel cannot parse
          MaxEvents                               \* bound on events of the program

ASSUME LogAssumption ==
    /\ {PipeCapacity, PlanBSize, PlanCSize, StatisticsSize, MalformedSize, MaxEvents} \subseteq Nat
    /\ EventSizes \subseteq Nat

VARIABLES log    \* the collector, the pipe and what the kernel has printed

logVars == <<log>>

Message(kind, id, size, total) == [kind |-> kind, id |-> id, size |-> size, total |-> total]

LogInit ==
    log = [pipe |-> <<>>, closed |-> FALSE,
           lostRecently |-> 0, lostTotally |-> 0, planBFailures |-> 0, planCFailures |-> 0,
           recursiveFailure |-> 0,
           events |-> 0,                               \* events of the program so far
           printed |-> [id \in 1 .. MaxEvents |-> 0],  \* times each was printed, up to 2
           lost |-> {},                                \* history: events that were not recorded,
           noPrefix |-> {},                            \* of which no prefix was recorded either,
           silent |-> {},                              \* of which nothing was recorded
           toldTotal |-> 0]                            \* the last total that was recorded

\* user_events(): a malformed message ends the reading and nothing is committed.
UserEventsUncommitted(s) ==
    [s EXCEPT !.printed = [id \in DOMAIN @ |->
        Min({2, @[id] + Cardinality({i \in DOMAIN s.pipe : s.pipe[i].kind = "event" /\ s.pipe[i].id = id})})]]
UserEvents(s) ==
    LET bad == {i \in DOMAIN s.pipe : s.pipe[i].kind = "malformed"}
        read == SubSeq(s.pipe, 1, IF bad = {} THEN Len(s.pipe) ELSE Min(bad) - 1)
        times(id) == Cardinality({i \in DOMAIN read : read[i].kind = "event" /\ read[i].id = id})
    IN [s EXCEPT !.printed = [id \in DOMAIN @ |-> Min({2, @[id] + times(id)})],
                 !.pipe = IF bad = {} THEN <<>> ELSE @]

\* LogCollector::flush() calls the function of set_flush(), whatever it is: it may get the log read
\* or not.  The one of user/lib is sched_yield(), during which the kernel does not read the log;
\* that is the case in which reads is empty.
FlushLog(s, reads, message) == IF message.kind \in reads THEN UserEvents(s) ELSE s

\* LogEvent::record_event(); a pipe that gives no transaction is not an error.
PipeUsed(s) == FoldLeft(LAMBDA n, m : n + m.size, 0, s.pipe)
RecordFits(s, message) == s.closed \/ PipeUsed(s) + message.size <= PipeCapacity
Record(s, message) == IF s.closed THEN s ELSE [s EXCEPT !.pipe = Append(@, message)]

\* The two tries of LogCollector::event(), with a flush after each that fails.
TryRecord(s, reads, message) ==
    IF RecordFits(s, message) THEN [ok |-> TRUE, log |-> Record(s, message)]
    ELSE LET flushed == FlushLog(s, reads, message) IN
         IF RecordFits(flushed, message) THEN [ok |-> TRUE, log |-> Record(flushed, message)]
         ELSE [ok |-> FALSE, log |-> flushed]

\* event() called from within event().
RecursiveEvent(s, reads, message) ==
    LET r == TryRecord(s, reads, message)
    IN IF r.ok THEN r.log ELSE [r.log EXCEPT !.recursiveFailure = @ + 1]

ReportLostStatistics(s, reads) ==
    LET recent == s.lostRecently
        counted == [s EXCEPT !.lostTotally = @ + recent, !.lostRecently = @ - recent]
        told == RecursiveEvent(counted, reads, Message("statistics", 0, StatisticsSize, counted.lostTotally))
    IN IF recent = 0 THEN s
       ELSE IF told.recursiveFailure > s.recursiveFailure
       THEN [told EXCEPT !.lostRecently = @ + recent, !.lostTotally = @ - recent]
       ELSE [told EXCEPT !.toldTotal = counted.lostTotally]

\* Plan B records a prefix of the message, plan C its metadata.
ReportLostMessage(s, reads, id) ==
    LET before == s.recursiveFailure
        b == RecursiveEvent([s EXCEPT !.lostRecently = @ + 1], reads, Message("plan b", id, PlanBSize, 0))
        planBFailed == b.recursiveFailure > before
        c == IF planBFailed
             THEN RecursiveEvent([b EXCEPT !.planBFailures = @ + 1], reads,
                                 Message("plan c", id, PlanCSize, 0))
             ELSE b
        planCFailed == c.recursiveFailure > before + 1
    IN [c EXCEPT !.planCFailures = @ + (IF planCFailed THEN 1 ELSE 0)]

\* The histories of a lost event: what the collector has got into the pipe about it.
NoteLost(after, id) ==
    LET told(kinds) == \E i \in DOMAIN after.pipe : after.pipe[i].kind \in kinds /\ after.pipe[i].id = id IN
    [after EXCEPT !.lost = @ \cup {id},
                  !.noPrefix = IF told({"plan b"}) THEN @ ELSE @ \cup {id},
                  !.silent = IF told({"plan b", "plan c"}) THEN @ ELSE @ \cup {id}]

\* LogCollector::event() of an event of the program.
CollectEvent(size, reads) ==
    /\ log.events < MaxEvents
    /\ LET id == log.events + 1
           r == TryRecord([log EXCEPT !.events = id], reads, Message("event", id, size, 0))
       IN log' = IF r.ok THEN ReportLostStatistics([r.log EXCEPT !.recursiveFailure = 0], reads)
                 ELSE NoteLost(ReportLostMessage(r.log, reads, id), id)

\* An exception in user mode: Process::trap() calls flush_log(), before generic_trap() ends the
\* process unless it was a breakpoint or an overflow.  The timer only preempts the process.
FlushOnTrap == log' = UserEvents(log)

\* The memory of the pipe belongs to the program, which may put there anything.
WriteMalformed ==
    /\ ~log.closed /\ PipeUsed(log) + MalformedSize <= PipeCapacity
    /\ \A i \in DOMAIN log.pipe : log.pipe[i].kind # "malformed"
    /\ log' = [log EXCEPT !.pipe = Append(@, Message("malformed", 0, MalformedSize, 0))]

ClosePipe == log' = [log EXCEPT !.closed = TRUE]

LogNext ==
    \/ \E size \in EventSizes, reads \in SUBSET {"event", "plan b", "plan c", "statistics"} :
          CollectEvent(size, reads)
    \/ FlushOnTrap \/ WriteMalformed \/ ClosePipe

LogSpec == LogInit /\ [][LogNext]_logVars
-----------------------------------------------------------------------------
(* Properties *)

HasMalformed == \E i \in DOMAIN log.pipe : log.pipe[i].kind = "malformed"
InPipe(id) == {i \in DOMAIN log.pipe : log.pipe[i].kind = "event" /\ log.pipe[i].id = id}

\* The two counters of lost messages, with the rollback of report_lost_messages_statistics(),
\* add up to the events that were really lost, and what is counted as reported is the total of
\* the last report that got through.
LostEventsAreCounted ==
    /\ log.lostRecently + log.lostTotally = Cardinality(log.lost)
    /\ log.lostTotally = log.toldTotal

\* plan_b_failures counts the lost events of which no prefix was recorded, plan_c_failures those
\* of which nothing was: the nested failures are told apart by counting them.
BackupPlansAreCounted ==
    /\ log.planBFailures = Cardinality(log.noPrefix)
    /\ log.planCFailures = Cardinality(log.silent)

\* Until the program spoils its own pipe, an event is printed once, or waits in the pipe, or is
\* counted as lost: a flush between the tries neither repeats nor drops it.
EventsArePrintedOnce ==
    ~log.closed /\ ~HasMalformed => \A id \in 1 .. log.events :
        IF id \in log.lost THEN log.printed[id] = 0 /\ InPipe(id) = {}
        ELSE log.printed[id] + Cardinality(InPipe(id)) = 1

\* The books of LogCollector balance: an event is printed once, waits or is counted as lost, and
\* the counters, reported through the same pipe, are those of the events that were lost.
LogAddsUp == LostEventsAreCounted /\ BackupPlansAreCounted /\ EventsArePrintedOnce
=============================================================================
