------------------------------- MODULE Clock -------------------------------
(***************************************************************************)
(* The monotonic clock of a process: the conversions between the hardware  *)
(* counter and seconds with nanoseconds, and the clock system calls made   *)
(* of them.  One process reads the clock, sleeps, and reads it again while *)
(* the counter advances.                                                   *)
(***************************************************************************)
EXTENDS Integers, FiniteSetsExt

CONSTANTS
  NANOSECONDS_PER_SECOND,   \* small in the instances
  MaxCounter,               \* u64::MAX, small
  MaxNow,                   \* how far the counter runs
  Frequencies,              \* counter_freq_hz, 0 included
  Seconds, Nanoseconds,     \* fields of a timespec, negative and too large ones included
  None

VARIABLES
  counter, frequency,
  before,      \* the process's last reading before it slept, and the request
  request,
  deadline,    \* sleep_user_until_counter: the process is blocked until then
  slept,       \* what clock_nanosleep answers: "ok" or an error
  after        \* the first reading after a successful sleep

vars == <<counter, frequency, before, request, deadline, slept, after>>

div_ceil(a, b) == (a + b - 1) \div b
time(s, ns) == [seconds |-> s, nanoseconds |-> ns]
overflow == -1

----------------------------------------------------------------------------
(* Conversions.                                                            *)

\* scale_to_counts; a product beyond the wider type saturates far above MaxCounter.
scale_to_counts(units, per_second) ==
  IF units = 0 THEN 0
  ELSE Min({Max({div_ceil(units * Max({frequency, 1}), per_second), 1}), MaxCounter})

\* counter_to_monotonic_time_at_frequency.
counter_to_monotonic_time_at_frequency(c, f) ==
  time(c \div f, ((c % f) * NANOSECONDS_PER_SECOND) \div f)

round_down(a, b) == a \div b
\* How the fraction of a second is rounded.
round_up(a, b) == div_ceil(a, b)
\* monotonic_time_to_counter_at_frequency: both the narrow product and its wider
\* fallback compute the same quotient.
monotonic_time_to_counter_at_frequency(s, ns, f) ==
  LET whole == s * f
      fractional == round_up(ns * f, NANOSECONDS_PER_SECOND)
  IN IF ns >= NANOSECONDS_PER_SECOND \/ whole > MaxCounter \/ whole + fractional > MaxCounter
     THEN overflow ELSE whole + fractional

\* monotonic_resolution, in nanoseconds.
monotonic_resolution(f) == Max({div_ceil(NANOSECONDS_PER_SECOND, f), 1})

----------------------------------------------------------------------------
(* System calls.                                                           *)

Init ==
  /\ counter = 0 /\ frequency \in Frequencies
  /\ before = None /\ request = None /\ deadline = None /\ slept = None /\ after = None

Tick == counter < MaxNow /\ counter' = counter + 1
        /\ UNCHANGED <<frequency, before, request, deadline, slept, after>>

\* sys_clock_gettime; a counter without a frequency gives EINVAL and changes nothing.
ClockGettime ==
  /\ deadline = None /\ after = None
  /\ frequency # 0
  /\ LET now == counter_to_monotonic_time_at_frequency(counter, frequency) IN
     IF request = None THEN before = None /\ before' = now /\ UNCHANGED after ELSE after' = now /\ UNCHANGED before
  /\ UNCHANGED <<counter, frequency, request, deadline, slept>>

\* Until when a request asks to sleep: an error, or a count.
sleep_until(abstime, s, ns) ==
  LET counts == monotonic_time_to_counter_at_frequency(s, ns, frequency) IN
  IF counts = overflow THEN overflow
  ELSE IF abstime \/ counts = 0 THEN counts
  ELSE IF counter + counts > MaxCounter THEN overflow ELSE counter + counts

\* sys_clock_nanosleep: validation, conversion, and the handoff to the scheduler
\* unless the moment has come.
ClockNanosleep(abstime, s, ns) ==
  LET invalid == s < 0 \/ ns < 0 \/ ns >= NANOSECONDS_PER_SECOND \/ frequency = 0
      until == sleep_until(abstime, s, ns)
  IN /\ request = None
     /\ request' = [abstime |-> abstime, seconds |-> s, nanoseconds |-> ns, at |-> counter]
     /\ slept' = IF invalid THEN "EINVAL" ELSE IF until = overflow THEN "EOVERFLOW" ELSE "ok"
     /\ deadline' = IF ~invalid /\ until > counter THEN until ELSE None
     /\ UNCHANGED <<counter, frequency, before, after>>

\* The deadline event completes the wait once the counter has reached it.
Wake == deadline # None /\ counter >= deadline /\ deadline' = None
        /\ UNCHANGED <<counter, frequency, before, request, slept, after>>

Next == Tick \/ ClockGettime \/ Wake
        \/ \E abstime \in BOOLEAN, s \in Seconds, ns \in Nanoseconds : ClockNanosleep(abstime, s, ns)
Spec == Init /\ [][Next]_vars

----------------------------------------------------------------------------
(* Properties.                                                             *)

nanos(t) == t.seconds * NANOSECONDS_PER_SECOND + t.nanoseconds
reading(c) == counter_to_monotonic_time_at_frequency(c, frequency)

\* A process that reads the clock, sleeps and reads it again sees at least the time
\* it asked for pass, or the moment it asked for reached, and never sees the clock go
\* back, at every counter frequency.
SleepIsLongEnough ==
  before # None /\ after # None =>
    /\ nanos(after) >= nanos(before)
    /\ slept = "ok" =>
         nanos(after) >= nanos(request) + (IF request.abstime THEN 0 ELSE nanos(before))

\* A valid request sleeps until the first count at which the requested time has
\* passed, not one count earlier or later, and EOVERFLOW answers exactly the requests
\* that no count can satisfy.
DeadlineIsExact ==
  request # None /\ slept # "EINVAL" =>
    LET origin == IF request.abstime THEN 0 ELSE request.at
        reached(c) == (c - origin) * NANOSECONDS_PER_SECOND >= nanos(request) * frequency
    IN /\ slept = "EOVERFLOW" <=> ~\E c \in 0..MaxCounter : reached(c)
       /\ deadline # None => reached(deadline) /\ ~reached(deadline - 1)

\* The resolution that clock_getres reports is no finer than the clock: one count
\* never advances a reading by more.
ResolutionIsHonest ==
  frequency # 0 /\ counter # 0 =>
    nanos(reading(counter)) - nanos(reading(counter - 1)) <= monotonic_resolution(frequency)

\* A quantum given in units of a second lasts at least that long and at least one
\* count, unless the counter itself cannot express it.
QuantumIsLongEnough ==
  counter = 0 => \A units \in 1..MaxNow :
    LET counts == scale_to_counts(units, NANOSECONDS_PER_SECOND) IN
    counts >= 1 /\ (counts = MaxCounter \/ counts * NANOSECONDS_PER_SECOND >= units * frequency)
=============================================================================
