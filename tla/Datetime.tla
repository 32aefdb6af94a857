------------------------------ MODULE Datetime ------------------------------
(***************************************************************************)
(* ku/src/time/correlation_interval.rs: the time of a value of the TSC, by *)
(* the line through two ticks of a clock.  A point is [count, tsc]: the    *)
(* number of the tick and the TSC at it; tsc = 0 is an invalid point.      *)
(***************************************************************************)
EXTENDS Integers

CONSTANTS MaxI64,       \* i64::MAX
          NsecsPerSec   \* NSECS_PER_SEC

FitsI64(v) == -MaxI64 - 1 <= v /\ v <= MaxI64
Time(seconds, nanoseconds) == [seconds |-> seconds, nanoseconds |-> nanoseconds]
TimeOverflow == Time(-MaxI64, 0)   \* a panic of i64 arithmetic

\* CorrelationInterval::elapsed_count() and elapsed_tsc()
ElapsedCount(base, prev) == IF base.tsc # 0 /\ prev.tsc # 0 THEN prev.count - base.count ELSE 0
ElapsedTsc(base, prev) == prev.tsc - base.tsc

\* div_euclid() by a positive number; `/' rounds towards zero instead.
DivTowardsZero(v, d) == IF v < 0 THEN -((-v) \div d) ELSE v \div d
DivEuclid(v, d) == v \div d

\* CorrelationInterval::datetime_with_resolution(); the branch in i128 computes the same
\* fraction.  The fraction is of a tick, and is added as one of a second.
DatetimeWithResolution(base, prev, tsc, ticks, parts) ==
    LET elapsed == ElapsedTsc(base, prev)
        product == (prev.count - base.count) * (tsc - base.tsc)
        offset == IF elapsed = 0 THEN 0 ELSE DivEuclid(product, elapsed)
        fraction == IF elapsed = 0 THEN 0 ELSE ((product % elapsed) * NsecsPerSec) \div elapsed
        total == base.count + offset
        nanoseconds == ((total % ticks) * NsecsPerSec) \div ticks + fraction
        part == NsecsPerSec \div parts IN
    IF FitsI64(product)
    THEN Time(DivEuclid(total, ticks) + nanoseconds \div NsecsPerSec,
              ((nanoseconds % NsecsPerSec) \div part) * part)
    ELSE TimeOverflow

\* CorrelationInterval::datetime()
DatetimeOf(base, prev, tsc, ticks, parts) ==
    IF ElapsedCount(base, prev) > 0 THEN DatetimeWithResolution(base, prev, tsc, ticks, parts)
    ELSE Time(prev.count \div ticks, 0)

\* CorrelationInterval::tsc_per_second(); AtomicCorrelationInterval gives None for 0.
TscPerSecond(base, prev, ticks) ==
    IF ElapsedCount(base, prev) > 0
    THEN (ticks * ElapsedTsc(base, prev)) \div ElapsedCount(base, prev) ELSE 0
=============================================================================
