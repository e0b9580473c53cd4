-------------------------------- MODULE Times --------------------------------
(***************************************************************************)
(* When: what dynrec/schedule.py makes of an at= argument.                 *)
(*                                                                         *)
(* A time is a number of ticks since the epoch.  A second has Second       *)
(* nanoseconds and a nanosecond Nano ticks, fine enough for the times that *)
(* a Python float can hold as well: they are Grain ticks apart, whole      *)
(* seconds among them (2^-22 s from 2004 to 2038, with 2^13 ticks to a     *)
(* nanosecond 2^-22 s are 10^9 / 2^9 of them).  The floats of an amount, an*)
(* age or a fraction of a second are far finer and taken as they are.      *)
(* An at= argument is a record: what its text or type says.  A zone is     *)
(* local time with one change of its offset, zone.change.                  *)
(***************************************************************************)
EXTENDS Integers

CONSTANTS None,     \* Python's None
          Second,   \* NANOSECONDS_PER_SECOND
          Nano,     \* ticks in a nanosecond
          Grain     \* and from one float to the next

ASSUME TimesAssumption ==
  /\ Second \in Nat \ {0} /\ Nano \in Nat \ {0}
  /\ Grain \in Nat \ {0} /\ (Second * Nano) % Grain = 0

\* In seconds, and how many a day has; no clock was ever put forward by more.
Zones ==
  {zone \in [change : Int, before : Int, after : Int, day : Nat \ {0}] : zone.after - zone.before <= zone.day}

Unit == Second * Nano

-----------------------------------------------------------------------------
(* Local time *)

Offset(zone, instant) == Unit * (IF instant < Unit * zone.change THEN zone.before ELSE zone.after)
Reading(zone, instant) == instant + Offset(zone, instant)

\* datetime.fold: the second of two instants with one reading.
Fold(zone, instant) ==
  IF Unit * zone.change <= instant /\ instant < Unit * (zone.change + zone.before - zone.after) THEN 1 ELSE 0

\* datetime.timestamp(): a reading twice taken is told apart by fold, and one
\* never taken is read with the offset on one side or the other of the change.
Timestamp(zone, reading, fold) ==
  LET early == reading - Unit * zone.before
      late == reading - Unit * zone.after
      before == early < Unit * zone.change
      after == late >= Unit * zone.change
  IN IF before # after THEN (IF before THEN early ELSE late)
     ELSE IF fold = 0 THEN early ELSE late

Day(zone) == Unit * zone.day
Midnight(zone, reading) == reading - (reading % Day(zone))

\* Mutant of NextWallClock: a day is so many seconds.
NextWallClockInSeconds(zone, clock, now) ==
  LET today == Timestamp(zone, Midnight(zone, Reading(zone, now)) + Unit * clock, Fold(zone, now)) IN
  IF today > now THEN today ELSE today + Day(zone)
\* Today at that time of day, or tomorrow in calendar terms.
NextWallClock(zone, clock, now) ==
  LET reading == Midnight(zone, Reading(zone, now)) + Unit * clock
      today == Timestamp(zone, reading, Fold(zone, now))
  IN IF today > now THEN today ELSE Timestamp(zone, reading + Day(zone), 0)

-----------------------------------------------------------------------------
(* A stamp *)

\* int(): towards zero.
Truncated(x, unit) == IF x >= 0 THEN x \div unit ELSE -((-x) \div unit)
\* round(): how many units x is; a half goes to the even side.
Rounded(x, unit) ==
  LET below == x \div unit
      rest == x % unit
  IN IF 2 * rest < unit \/ (2 * rest = unit /\ below % 2 = 0) THEN below ELSE below + 1
\* The float a time becomes.
Float(x) == Grain * Rounded(x, Grain)

\* Mutant of Split: what rounds up to a whole second stays a fraction.
SplitUncarried(x) ==
  LET whole == Truncated(x, Unit) IN [sec |-> whole, nanosec |-> Rounded(x - whole * Unit, Nano)]
\* _split(): a fraction that rounds up to a second is carried over.
Split(x) ==
  LET whole == Truncated(x, Unit)
      nanoseconds == Rounded(x - whole * Unit, Nano)
  IN IF nanoseconds >= Second THEN [sec |-> whole + 1, nanosec |-> nanoseconds - Second]
     ELSE [sec |-> whole, nanosec |-> nanoseconds]

-----------------------------------------------------------------------------
(* An at= argument *)

\* parse_time(): how each form is read, against now where it is not absolute.
Instant(zone, value, now) ==
  CASE value.form = "epoch" -> value.time
    [] value.form = "relative" -> now + value.time
    [] value.form = "wall" -> NextWallClock(zone, value.clock, now)
    [] value.form = "local" -> Timestamp(zone, value.reading, 0)
\* What cannot be read raises InvalidRequest.
Readable(zone, value) ==
  \/ value.form \in {"epoch", "relative", "local"}
  \/ value.form = "wall" /\ value.clock \in 0..zone.day - 1
ParseTime(zone, value, now) == Split(Float(Instant(zone, value, now)))

TIME_MODES == [node |-> 0, publish |-> 1, receive |-> 2]

\* set_stamp(): no time leaves the zero the services read as now.
Now == [sec |-> 0, nanosec |-> 0]
SetStamp(zone, at, now) == IF at = None THEN Now ELSE ParseTime(zone, at, now)
\* apply_schedule(): an unknown mode or time is refused before anything is sent.
ScheduleError(zone, at, mode) == mode \notin DOMAIN TIME_MODES \/ (at # None /\ ~Readable(zone, at))
ApplySchedule(zone, at, mode, topic, now) ==
  [time |-> SetStamp(zone, at, now), mode |-> TIME_MODES[mode], topic |-> topic]

\* A stamp on the recorder's side, to_nanoseconds(), and as dynrec has it, a float.
Nanoseconds(stamp) == stamp.sec * Unit + stamp.nanosec * Nano
Seconds(stamp) == Float(Nanoseconds(stamp))
=============================================================================
