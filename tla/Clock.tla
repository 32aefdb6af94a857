------------------------------- MODULE Clock -------------------------------
(***************************************************************************)
(* The clocks: the RTC chip, the interrupt handlers of                     *)
(* kernel/src/time/{rtc,pit8254}.rs that publish a CorrelationPoint (a     *)
(* number of ticks and the TSC at that tick), and a reader on another      *)
(* processor, or in user mode, that loads the CorrelationInterval of       *)
(* ku/src/time without any lock.  A step of an actor is one access to a    *)
(* chip register or to an atomic variable, in program order (x86 keeps     *)
(* these accesses in it).  A pc is the routine and the access in it.       *)
(***************************************************************************)
EXTENDS Integers, FiniteSets

CONSTANTS SecondsPerMinute,   \* two registers stand for the six of the chip
          MaxUpdates,         \* bound on the ticks that happen
          MaxTries            \* attempts of Date::read(), 10 in the code

ASSUME ClockConstants == SecondsPerMinute \in Nat \ {0} /\ MaxUpdates \in Nat /\ MaxTries \in Nat

VARIABLES chip,     \* the RTC: [second, minute, phase, ended, time]
          handler,  \* the interrupt handler: [pc, first, read, tries, shown, point]
          interval, \* AtomicCorrelationInterval: base and prev, each [sequence, count, tsc]
          reader,   \* load() of it: [pc, sequence, point, loaded]
          tsc,      \* the last value of the TSC
          source,   \* which interval this is, "rtc" or "pit"
          stored    \* history: every point that was stored

clockVars == <<chip, handler, interval, reader, tsc, source, stored>>

Idle == <<"idle", 0>>
NewPoint(count, t) == [count |-> count, tsc |-> t]
AtomicPoint(p) == [sequence |-> 0, count |-> p.count, tsc |-> p.tsc]
PointIsValid(p) == p.tsc # 0
SequenceIsLocked(sequence) == (sequence % 2) # 0
Timestamp(date) == date[2] * SecondsPerMinute + date[1]

\* pit8254::init() sets both points; rtc::init() leaves an invalid prev with the time of day.
ClockInit ==
    /\ chip = [second |-> 0, minute |-> 0, phase |-> "shown", ended |-> FALSE, time |-> 0]
    /\ source \in {"rtc", "pit"}
    /\ tsc = 1
    /\ LET start == NewPoint(0, IF source = "pit" THEN 1 ELSE 0) IN
       /\ interval = [which \in {"base", "prev"} |-> AtomicPoint(start)]
       /\ stored = {start}
       /\ handler = [pc |-> Idle, first |-> <<0, 0>>, read |-> <<0, 0>>, tries |-> 0, shown |-> {},
                     point |-> start]
       /\ reader = [pc |-> Idle, sequence |-> 0, point |-> start,
                    loaded |-> [which \in {"base", "prev"} |-> start]]

Display == <<chip.second, chip.minute>>
UpdateInProgress == chip.phase # "shown"

\* The chip (external): UPDATE_IN_PROGRESS, the registers one after another, then the interrupt.
ChipUpdate ==
    /\ chip' =
        CASE chip.phase = "shown"  -> [chip EXCEPT !.phase = "second", !.time = @ + 1]
          [] chip.phase = "second" -> [chip EXCEPT !.phase = "minute", !.second = chip.time % SecondsPerMinute]
          [] chip.phase = "minute" -> [chip EXCEPT !.phase = "ended", !.minute = chip.time \div SecondsPerMinute]
          [] chip.phase = "ended"  -> [chip EXCEPT !.phase = "shown", !.ended = TRUE]
    /\ source = "rtc" /\ chip'.time <= MaxUpdates
    /\ handler' = [handler EXCEPT !.shown = IF UpdateInProgress' THEN @ ELSE @ \cup {Display'}]
    /\ UNCHANGED <<interval, reader, tsc, source, stored>>

At(routine, n) == handler.pc = <<routine, n>>
Goes(routine, n) == handler' = [handler EXCEPT !.pc = <<routine, n>>]

\* rtc::interrupt(): register C is read and cleared; is_time_valid() of Date::read().
RtcInterrupt ==
    /\ handler.pc = Idle /\ source = "rtc" /\ chip.ended
    /\ chip' = [chip EXCEPT !.ended = FALSE]
    /\ \E batteryIsGood \in BOOLEAN :
         handler' = [handler EXCEPT !.pc = IF batteryIsGood THEN <<"wait", 1>> ELSE Idle, !.tries = 0,
                                    !.shown = IF UpdateInProgress THEN {} ELSE {Display}]
    /\ UNCHANGED <<interval, reader, tsc, source, stored>>

\* Another attempt of Date::read(), or None after the last one.
RetryDate ==
    handler' = [handler EXCEPT !.tries = @ + 1,
                               !.pc = IF handler.tries + 1 < MaxTries THEN <<"wait", 1>> ELSE Idle]

\* Date::read(): both reads are taken between two looks at UPDATE_IN_PROGRESS.
CheckRead(n) ==
    IF UpdateInProgress THEN RetryDate
    ELSE IF n = 1 THEN handler' = [handler EXCEPT !.pc = <<"wait", 2>>, !.first = handler.read]
    ELSE IF handler.first # handler.read THEN RetryDate
    ELSE Goes("now", 0)

\* The body of Date::read() and read_inconsistent(), a register at a time.
ReadDate ==
    /\ \E n \in {1, 2} :
         \/ At("wait", n) /\ ~UpdateInProgress /\ Goes("second", n)
         \/ At("second", n) /\ handler' = [handler EXCEPT !.pc = <<"minute", n>>, !.read[1] = chip.second]
         \/ At("minute", n) /\ handler' = [handler EXCEPT !.pc = <<"check", n>>, !.read[2] = chip.minute]
         \/ At("check", n) /\ CheckRead(n)
    /\ UNCHANGED <<chip, interval, reader, tsc, source, stored>>

\* CorrelationPoint::now(), then init_base(), which stores only into an invalid base.
InitBaseNeeded == ~PointIsValid(interval.base)
TakePoint ==
    /\ At("now", 0)
    /\ tsc' = tsc + 1
    /\ handler' = [handler EXCEPT !.pc = <<IF InitBaseNeeded THEN "base" ELSE "prev", 1>>,
                                  !.point = NewPoint(Timestamp(handler.read), tsc')]
    /\ stored' = stored \cup {handler'.point}
    /\ UNCHANGED <<chip, interval, reader, source>>

\* pit8254::interrupt(), which adds one to the count and stores the TSC.
PitInterrupt ==
    /\ handler.pc = Idle /\ source = "pit" /\ interval.prev.count < MaxUpdates
    /\ tsc' = tsc + 1
    /\ handler' = [handler EXCEPT !.pc = <<"prev", 1>>, !.point = NewPoint(interval.prev.count + 1, tsc')]
    /\ stored' = stored \cup {handler'.point}
    /\ UNCHANGED <<chip, interval, reader, source>>

\* AtomicCorrelationPoint::store() and inc(): the sequence is odd while the point is written.
StoreStep(point, n, value) ==
    CASE n \in {1, 4} -> [point EXCEPT !.sequence = @ + 1]
      [] n = 2 -> [point EXCEPT !.count = value.count]
      [] n = 3 -> [point EXCEPT !.tsc = value.tsc]

StorePoint ==
    /\ \E which \in {"base", "prev"}, n \in 1 .. 4 :
         /\ At(which, n)
         /\ interval' = [interval EXCEPT ![which] = StoreStep(@, n, handler.point)]
         /\ handler' = [handler EXCEPT !.pc = IF n < 4 THEN <<which, n + 1>>
                                              ELSE IF which = "base" THEN <<"prev", 1>> ELSE Idle]
    /\ UNCHANGED <<chip, reader, tsc, source, stored>>

\* AtomicCorrelationPoint::load() of base, then of prev.
ReaderGoes(step, which) == reader' = [reader EXCEPT !.pc = <<step, which>>]

StartLoad ==
    /\ reader.pc = Idle
    /\ reader' = [reader EXCEPT !.pc = <<"await", "base">>]
    /\ UNCHANGED <<chip, handler, interval, tsc, source, stored>>

CheckLoadedOnce(which) ==
    reader' = [reader EXCEPT !.loaded[which] = reader.point,
                             !.pc = IF which = "base" THEN <<"await", "prev">> ELSE Idle]
CheckLoaded(which) ==
    IF reader.sequence # interval[which].sequence THEN ReaderGoes("await", which)
    ELSE reader' = [reader EXCEPT !.loaded[which] = reader.point,
                                  !.pc = IF which = "base" THEN <<"await", "prev">> ELSE Idle]

LoadStep ==
    /\ \E which \in {"base", "prev"} :
         LET point == interval[which]
             at(step) == reader.pc = <<step, which>> IN
         \/ at("await") /\ ~SequenceIsLocked(point.sequence) /\ ReaderGoes("sequence", which)
         \/ at("sequence") /\ IF SequenceIsLocked(point.sequence) THEN ReaderGoes("await", which)
                              ELSE reader' = [reader EXCEPT !.pc = <<"count", which>>, !.sequence = point.sequence]
         \/ at("count") /\ reader' = [reader EXCEPT !.pc = <<"tsc", which>>, !.point.count = point.count]
         \/ at("tsc") /\ reader' = [reader EXCEPT !.pc = <<"check", which>>, !.point.tsc = point.tsc]
         \/ at("check") /\ CheckLoaded(which)
    /\ UNCHANGED <<chip, handler, interval, tsc, source, stored>>

ClockNext ==
    \/ ChipUpdate \/ RtcInterrupt \/ ReadDate \/ TakePoint \/ PitInterrupt \/ StorePoint
    \/ StartLoad \/ LoadStep

ClockSpec == ClockInit /\ [][ClockNext]_clockVars
-----------------------------------------------------------------------------
(* Properties *)

\* Date::read() never accepts a date put together from registers of different seconds: what it
\* returns was on the chip, as a whole, at some moment of the call, however slow the reads are.
DateWasShown == At("now", 0) => handler.read \in handler.shown

\* AtomicCorrelationPoint::load() returns a point that was stored, never the count of one tick
\* with the TSC of another.
LoadedPointsWereStored == {reader.loaded.base, reader.loaded.prev} \subseteq stored

\* The interval that a reader gets from its two loads is one that datetime() and
\* tsc_per_second() can use: time has not gone back in it, and ticks mean that TSC has passed.
IntervalIsUsable ==
    LET b == reader.loaded.base  p == reader.loaded.prev IN
    reader.pc = Idle /\ PointIsValid(b) /\ PointIsValid(p) =>
        p.count >= b.count /\ (p.count > b.count => p.tsc > b.tsc)

\* What Date::read() and the lock-free readers of AtomicCorrelationInterval get is what once was:
\* a date of the chip, points that were stored, an interval that time can be computed from.
ReadersSeeWhatWas == DateWasShown /\ LoadedPointsWereStored /\ IntervalIsUsable
=============================================================================
