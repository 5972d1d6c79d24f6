---- MODULE Timer ----
(***************************************************************************)
(* Passive timers (src/etcpal/timer.c, cpp/timer.h) on a millisecond clock *)
(* that wraps.  Wrap is 2^32 in the code.  A clock value is read once in   *)
(* each call; between two calls the clock may move by less than Wrap.      *)
(*                                                                         *)
(* passed is the true time since the timer was started or reset, which the *)
(* program does not have; it stops counting at the bound MaxPassed.        *)
(***************************************************************************)
EXTENDS Integers

CONSTANTS Wrap, MaxPassed

ASSUME WrapAssumption == Wrap \in Nat /\ Wrap > 1 /\ MaxPassed \in Nat

VARIABLES ms,                     \* what etcpal_getms would return now
          reset_time, interval,   \* the EtcPalTimer
          passed

timer_vars == <<ms, reset_time, interval, passed>>

Word == 0 .. Wrap - 1

\* Unsigned sums and differences of two words.
Plus(a, b) == IF a + b < Wrap THEN a + b ELSE a + b - Wrap
Minus(a, b) == IF a >= b THEN a - b ELSE a - b + Wrap

Signed(a) == IF 2 * a < Wrap THEN a ELSE a - Wrap

\* TimePoint's operator-, on which its comparisons rest.
Difference(a, b) == Signed(Minus(a, b))

TimerInit ==
  /\ ms \in Word /\ reset_time = ms
  /\ interval \in Word
  /\ passed = 0

\* etcpal_timer_start
Start(i) ==
  /\ reset_time' = ms /\ interval' = i /\ passed' = 0
  /\ UNCHANGED ms

\* Timer::Start clamps a std::chrono::duration above, not below zero.
StartFor(duration) == Start(IF duration < Wrap THEN duration ELSE Wrap - 1)

Reset ==
  /\ reset_time' = ms /\ passed' = 0
  /\ UNCHANGED <<ms, interval>>

ClockMoves(d) ==
  /\ passed + d <= MaxPassed
  /\ ms' = Plus(ms, d) /\ passed' = passed + d
  /\ UNCHANGED <<reset_time, interval>>

TimerNext ==
  \/ \E i \in Word : Start(i)
  \/ \E duration \in 0 .. Wrap + 1 : StartFor(duration)
  \/ Reset
  \/ \E d \in Word : ClockMoves(d)

TimerSpec == TimerInit /\ [][TimerNext]_timer_vars

----
\* ETCPAL_TIME_ELAPSED_SINCE(reset_time)
Elapsed == Minus(ms, reset_time)

PastDeadline == interval = 0 \/ ms > Plus(reset_time, interval)

IsExpired == interval = 0 \/ Elapsed > interval

Remaining ==
  IF interval # 0 /\ Elapsed < interval
  THEN Minus(Plus(reset_time, interval), ms) ELSE 0

----
TimerTypeOK == ms \in Word /\ reset_time \in Word /\ interval \in Word /\ passed \in Nat

\* Until the clock has gone all the way round, a timer knows the true time whatever
\* the clock's value was when it started: the elapsed time is exact, the timer is
\* expired from one millisecond after its interval (at once if that is zero), and the
\* remaining time is what is left of the interval.
TimerTellsTime ==
  passed < Wrap =>
    /\ Elapsed = passed
    /\ IsExpired <=> (interval = 0 \/ passed > interval)
    /\ Remaining = (IF passed < interval THEN interval - passed ELSE 0)

\* Two time points less than half the range apart compare as they came about, and
\* their difference is the time between them; the other way round it is negative.
TimePointsInOrder ==
  2 * passed < Wrap =>
    Difference(ms, reset_time) = passed /\ Difference(reset_time, ms) = -passed
====
