---------------------------- MODULE SessionProofs ----------------------------
(***************************************************************************)
(* Theorems about Session for every value of its constants: any times,     *)
(* zones and delays, any length of a second, any topics.                   *)
(***************************************************************************)
EXTENDS Session, ReportProofs

-----------------------------------------------------------------------------
(* Floats and stamps *)

LEMMA UnitFacts ==
  /\ Unit \in Nat \ {0} /\ Second \in Nat \ {0} /\ Nano \in Nat \ {0} /\ Grain \in Nat \ {0}
  /\ Unit = Second * Nano
<1>1. \A s, n \in Nat \ {0} : s * n \in Nat \ {0}
  OBVIOUS
<1>2. QED
  BY <1>1, TimesAssumption DEF Unit

\* What division leaves, and by how much it is short.
LEMMA Division ==
  ASSUME NEW x \in Int, NEW u \in Nat \ {0}
  PROVE  /\ x \div u \in Int /\ x % u \in 0..u - 1
         /\ u * (x \div u) \in Int /\ x = u * (x \div u) + (x % u)
<1>1. x % u = x - u * (x \div u)
  OBVIOUS
<1>2. QED
  BY <1>1

\* round() is at most half a unit off.
LEMMA Nearest ==
  ASSUME NEW x \in Int, NEW u \in Nat \ {0}
  PROVE  /\ Rounded(x, u) \in Int /\ u * Rounded(x, u) \in Int
         /\ 2 * (u * Rounded(x, u) - x) \in -u..u
<1> DEFINE q == x \div u
           r == x % u
<1>1. q \in Int /\ r \in 0..u - 1 /\ u * q \in Int /\ x = u * q + r
  BY Division
<1>2. Rounded(x, u) = IF 2 * r < u \/ (2 * r = u /\ q % 2 = 0) THEN q ELSE q + 1
  BY DEF Rounded
<1> HIDE DEF q, r
<1>3. u * (q + 1) = u * q + u
  BY <1>1
<1>4. CASE 2 * r < u \/ (2 * r = u /\ q % 2 = 0)
  <2>1. Rounded(x, u) = q
    BY <1>2, <1>4
  <2>2. 2 * r <= u
    BY <1>1, <1>4
  <2>3. QED
    BY <1>1, <2>1, <2>2
<1>5. CASE ~(2 * r < u \/ (2 * r = u /\ q % 2 = 0))
  <2>1. Rounded(x, u) = q + 1
    BY <1>2, <1>5
  <2>2. 2 * r >= u
    BY <1>1, <1>5
  <2> DEFINE y == u * q
  <2>3. u * Rounded(x, u) = y + u /\ y \in Int /\ x = y + r
    BY <1>1, <1>3, <2>1
  <2> HIDE DEF y
  <2>4. QED
    BY <1>1, <2>1, <2>2, <2>3
<1>6. QED
  BY <1>4, <1>5

LEMMA FloatWithin ==
  ASSUME NEW x \in Int
  PROVE  Float(x) \in Int /\ 2 * (Float(x) - x) \in -Grain..Grain
BY Nearest, UnitFacts DEF Float

\* A float is one already.
LEMMA FloatTwice ==
  ASSUME NEW x \in Int
  PROVE  Float(Float(x)) = Float(x)
<1> DEFINE k == Rounded(x, Grain)
           f == Grain * k
<1>1. k \in Int /\ f \in Int
  BY Nearest, UnitFacts
<1> HIDE DEF k
<1> DEFINE j == Rounded(f, Grain)
<1>2. j \in Int /\ Grain * j \in Int /\ 2 * (Grain * j - f) \in -Grain..Grain
  BY <1>1, Nearest, UnitFacts
<1> HIDE DEF j
<1>3. Grain * j - f = Grain * (j - k)
  BY <1>1, <1>2, UnitFacts
<1>4. j = k
  <2>1. \A g \in Nat \ {0}, d \in Int : 2 * (g * d) \in -g..g => d = 0
    <3> SUFFICES ASSUME NEW g \in Nat \ {0}, NEW d \in Int, d # 0
                 PROVE  2 * (g * d) \notin -g..g
      OBVIOUS
    <3>1. CASE d >= 1
      <4>1. g * d >= g /\ g * d \in Int
        BY <3>1
      <4>2. QED
        BY <4>1
    <3>2. CASE d <= -1
      <4>1. g * d <= -g /\ g * d \in Int
        BY <3>2
      <4>2. QED
        BY <4>1
    <3>3. QED
      BY <3>1, <3>2
  <2>2. j - k \in Int /\ 2 * (Grain * (j - k)) \in -Grain..Grain
    BY <1>1, <1>2, <1>3
  <2>3. j - k = 0
    BY <2>1, <2>2, UnitFacts
  <2>4. QED
    BY <1>1, <1>2, <2>3
<1>5. Float(x) = f /\ Float(f) = Grain * j
  BY DEF Float, k, j
<1>6. QED
  BY <1>4, <1>5

\* Whatever is taken for the whole of a time, the carry moves a second from one field
\* of the stamp to the other: the stamp is as close as the rounding.
LEMMA SplitWithin ==
  ASSUME NEW x \in Int
  PROVE  /\ Split(x) \in [sec : Int, nanosec : Int]
         /\ Nanoseconds(Split(x)) \in Int
         /\ 2 * (Nanoseconds(Split(x)) - x) \in -Nano..Nano
<1> DEFINE whole == Truncated(x, Unit)
           rest == x - whole * Unit
           nanoseconds == Rounded(rest, Nano)
<1>1. Split(x) = IF nanoseconds >= Second THEN [sec |-> whole + 1, nanosec |-> nanoseconds - Second]
                 ELSE [sec |-> whole, nanosec |-> nanoseconds]
  BY DEF Split
<1>2. whole \in Int
  BY UnitFacts DEF Truncated
<1> HIDE DEF whole
<1>3. whole * Unit \in Int /\ (whole + 1) * Unit = whole * Unit + Unit
  BY <1>2, UnitFacts
<1>4. rest \in Int /\ x = whole * Unit + rest
  BY <1>3
<1> HIDE DEF rest
<1>5. nanoseconds \in Int /\ Nano * nanoseconds \in Int /\ 2 * (Nano * nanoseconds - rest) \in -Nano..Nano
  BY <1>4, Nearest, UnitFacts
<1> HIDE DEF nanoseconds
<1> DEFINE w == whole * Unit
           m == Nano * nanoseconds
<1>6. CASE nanoseconds >= Second
  <2>1. Split(x) = [sec |-> whole + 1, nanosec |-> nanoseconds - Second]
    BY <1>1, <1>6
  <2>2. Nanoseconds(Split(x)) = (whole + 1) * Unit + (nanoseconds - Second) * Nano
    BY <2>1 DEF Nanoseconds
  <2>3. (nanoseconds - Second) * Nano = m - Unit
    BY <1>5, UnitFacts
  <2>4. w \in Int /\ m \in Int /\ Nanoseconds(Split(x)) = w + m /\ x = w + rest
    <3>1. w \in Int /\ m \in Int /\ (whole + 1) * Unit = w + Unit
      BY <1>3, <1>5
    <3> HIDE DEF w, m
    <3>2. Nanoseconds(Split(x)) = w + m
      BY <2>2, <2>3, <3>1, UnitFacts
    <3>3. QED
      BY <1>4, <3>1, <3>2 DEF w
  <2>5. 2 * (m - rest) \in -Nano..Nano
    BY <1>5
  <2> HIDE DEF w, m
  <2>6. QED
    BY <1>2, <1>4, <1>5, <2>1, <2>4, <2>5, UnitFacts
<1>7. CASE ~(nanoseconds >= Second)
  <2>1. Split(x) = [sec |-> whole, nanosec |-> nanoseconds]
    BY <1>1, <1>7
  <2>2. Nanoseconds(Split(x)) = whole * Unit + nanoseconds * Nano
    BY <2>1 DEF Nanoseconds
  <2>3. w \in Int /\ m \in Int /\ Nanoseconds(Split(x)) = w + m /\ x = w + rest
    BY <1>3, <1>4, <1>5, <2>2, UnitFacts
  <2>4. 2 * (m - rest) \in -Nano..Nano
    BY <1>5
  <2> HIDE DEF w, m
  <2>5. QED
    BY <1>2, <1>4, <1>5, <2>1, <2>3, <2>4, UnitFacts
<1>8. QED
  BY <1>6, <1>7

\* From the epoch on the fields are what they may be.
LEMMA SplitIsLegal ==
  ASSUME NEW x \in Nat
  PROVE  Split(x).nanosec \in 0..Second - 1
<1> DEFINE whole == Truncated(x, Unit)
           rest == x - whole * Unit
           n == Rounded(rest, Nano)
<1>1. Split(x).nanosec = IF n >= Second THEN n - Second ELSE n
  BY DEF Split
<1>2. whole \in Int /\ Unit * whole \in Int /\ x = Unit * whole + (x % Unit) /\ x % Unit \in 0..Unit - 1
  <2>1. whole = x \div Unit
    BY DEF Truncated
  <2>2. /\ x \div Unit \in Int /\ x % Unit \in 0..Unit - 1
        /\ Unit * (x \div Unit) \in Int /\ x = Unit * (x \div Unit) + (x % Unit)
    <3>1. Unit \in Nat \ {0} /\ x \in Int
      BY UnitFacts
    <3>2. QED
      BY <3>1, Division
  <2> HIDE DEF whole
  <2>3. QED
    BY <2>1, <2>2
<1>3. rest = x % Unit
  <2>1. whole * Unit = Unit * whole
    <3> HIDE DEF whole
    <3>1. QED
      BY <1>2, UnitFacts
  <2>2. rest = x - Unit * whole
    BY <2>1
  <2> HIDE DEF whole, rest
  <2>3. QED
    BY <1>2, <2>2
<1>4. rest \in 0..Unit - 1
  BY <1>2, <1>3
<1> HIDE DEF whole, rest
<1>5. n \in Int /\ Nano * n \in Int /\ 2 * (Nano * n - rest) \in -Nano..Nano
  BY <1>4, Nearest, UnitFacts
<1> HIDE DEF n
<1>6. n >= 0
  <2>1. ASSUME n <= -1 PROVE Nano * n <= -Nano
    BY <1>5, <2>1, UnitFacts
  <2>2. ASSUME n <= -1 PROVE FALSE
    BY <1>4, <1>5, <2>1, <2>2, UnitFacts
  <2>3. QED
    BY <1>5, <2>2
<1>7. n <= Second
  <2>1. ASSUME n >= Second + 1 PROVE Nano * n >= Unit + Nano
    BY <1>5, <2>1, UnitFacts
  <2>2. ASSUME n >= Second + 1 PROVE FALSE
    BY <1>4, <1>5, <2>1, <2>2, UnitFacts
  <2>3. QED
    BY <1>5, <2>2, UnitFacts
<1>8. QED
  BY <1>1, <1>5, <1>6, <1>7, UnitFacts

-----------------------------------------------------------------------------
(* Types *)

LEMMA DayFacts ==
  ASSUME NEW zone \in Zones
  PROVE  /\ zone.change \in Int /\ zone.before \in Int /\ zone.after \in Int
         /\ Day(zone) \in Nat \ {0}
<1>1. /\ zone.change \in Int /\ zone.before \in Int /\ zone.after \in Int
      /\ zone.day \in Nat \ {0}
  BY DEF Zones
<1>2. \A u, d \in Nat \ {0} : u * d \in Nat \ {0}
  OBVIOUS
<1>3. QED
  BY <1>1, <1>2, UnitFacts DEF Day

\* A product of integers by a name, out of the sight of what reasons about sums.
LEMMA Scaled ==
  \A i \in Int : Unit * i \in Int
BY UnitFacts

LEMMA TimestampInt ==
  ASSUME NEW zone \in Zones, NEW reading \in Int, NEW fold
  PROVE  Timestamp(zone, reading, fold) \in Int
<1>1. Unit * zone.before \in Int /\ Unit * zone.after \in Int
  BY DayFacts, Scaled
<1> DEFINE early == reading - Unit * zone.before
           late == reading - Unit * zone.after
<1>2. early \in Int /\ late \in Int
  BY <1>1
<1>3. Timestamp(zone, reading, fold) \in {early, late}
  BY DEF Timestamp
<1>4. QED
  BY <1>2, <1>3

LEMMA InstantInt ==
  ASSUME NEW zone \in Zones, NEW at \in Typed \ {None}, NEW t \in Int, Readable(zone, at)
  PROVE  Instant(zone, at, t) \in Int
<1>1. CASE at.form = "epoch"
  BY <1>1, TypedAssumption DEF Instant
<1>2. CASE at.form = "relative"
  BY <1>2, TypedAssumption DEF Instant
<1>3. CASE at.form = "wall"
  <2> DEFINE reading == Midnight(zone, Reading(zone, t)) + Unit * at.clock
  <2>1. Unit * at.clock \in Int
    BY <1>3, TypedAssumption, Scaled
  <2>2. Reading(zone, t) \in Int
    BY DayFacts, Scaled DEF Reading, Offset
  <2>3. Midnight(zone, Reading(zone, t)) \in Int
    <3> DEFINE r == Reading(zone, t)
               day == Day(zone)
    <3>1. r \in Int /\ day \in Nat \ {0}
      BY <2>2, DayFacts
    <3> HIDE DEF r, day
    <3>2. r - (r % day) \in Int
      BY <3>1
    <3>3. QED
      BY <3>2 DEF r, day, Midnight
  <2>4. reading \in Int /\ reading + Day(zone) \in Int
    BY <2>1, <2>3, DayFacts
  <2>5. NextWallClock(zone, at.clock, t) \in {Timestamp(zone, reading, Fold(zone, t)),
                                              Timestamp(zone, reading + Day(zone), 0)}
    BY DEF NextWallClock
  <2> HIDE DEF reading
  <2>6. Instant(zone, at, t) = NextWallClock(zone, at.clock, t)
    BY <1>3 DEF Instant
  <2>7. QED
    BY <2>4, <2>5, <2>6, TimestampInt
<1>4. CASE at.form = "local"
  <2>1. Instant(zone, at, t) = Timestamp(zone, at.reading, 0)
    BY <1>4 DEF Instant
  <2>2. QED
    BY <1>4, <2>1, TypedAssumption, TimestampInt
<1>5. QED
  BY <1>1, <1>2, <1>3, <1>4 DEF Readable

LEMMA StampTyped ==
  ASSUME NEW zone \in Zones, NEW at \in Typed \ {None}, NEW t \in Int, Readable(zone, at)
  PROVE  ParseTime(zone, at, t) \in [sec : Int, nanosec : Int]
BY InstantInt, FloatWithin, SplitWithin DEF ParseTime

-----------------------------------------------------------------------------
(* What a resume is scheduled for *)

\* The status the UI holds, if any, and the request it makes.
Msg(lag, age) == [stamp |-> [sec |-> now - lag - age, nanosec |-> config.nanoseconds]]
Held(lag, age) == IF lag = None THEN None ELSE StatusFromMsg(Msg(lag, age))
Request(at, mode, lag, age) ==
  ApplySchedule(config.zone, ResolveAt(config.zone, at, Held(lag, age), Unit * age), mode, "",
                Float(OnClock(now + config.skew)))

\* What is made of a time that is so much later than meant.
Close(time, meant) ==
  Nanoseconds(time) \in meant - Unit * MaxLag - 2 * Grain - Nano .. meant + 2 * Grain + Nano
ScheduledInv ==
  scheduled # None =>
    /\ scheduled.time \in [sec : Int, nanosec : Int] /\ scheduled.asked \in 0..MaxTime
    /\ scheduled.word \in DOMAIN TIME_MODES /\ ScheduledFor(scheduled.word)
    /\ scheduled.known /\ scheduled.typed # None /\ scheduled.typed.form = "relative" =>
         Close(scheduled.time, Meant)

LEMMA ClockInt ==
  ASSUME config \in Configs, NEW s \in Int
  PROVE  OnClock(s) \in Int /\ OnClock(s) = Unit * s + Nano * config.nanoseconds
         /\ Unit * s \in Int /\ Nano * config.nanoseconds \in Int
<1>1. config.nanoseconds \in Int
  BY SessionAssumption, UnitFacts
<1>2. Unit * s \in Int /\ Nano * config.nanoseconds \in Int
  BY <1>1, UnitFacts
<1>3. QED
  BY <1>2 DEF OnClock

\* A status that was on its way and then held was built that long ago.
LEMMA Elapsed ==
  ASSUME NEW lag \in Nat, NEW age \in Nat, NEW t \in Nat, lag + age <= t
  PROVE  /\ Unit * (t - lag - age) + Unit * age = Unit * t - Unit * lag
         /\ Unit * (t - lag - age) \in Int /\ Unit * age \in Int
         /\ Unit * t \in Int /\ Unit * lag \in Nat
<1>1. \A u \in Nat : /\ u * (t - lag - age) + u * age = u * t - u * lag /\ u * (t - lag - age) \in Int
                     /\ u * age \in Int /\ u * t \in Int /\ u * lag \in Nat
  OBVIOUS
<1>2. QED
  BY <1>1, UnitFacts

LEMMA Monotone ==
  ASSUME NEW lag \in Nat, NEW most \in Nat, lag <= most
  PROVE  Unit * lag \in Nat /\ Unit * most \in Nat /\ Unit * lag <= Unit * most
<1>1. \A u \in Nat : u * lag \in Nat /\ u * most \in Nat /\ u * lag <= u * most
  OBVIOUS
<1>2. QED
  BY <1>1, UnitFacts

\* Four floats and two stamps away from what is meant.
LEMMA Drift ==
  ASSUME NEW g \in Nat, NEW n \in Nat, NEW clock \in Int, NEW lag \in Nat, NEW amount \in Int,
         NEW stamp \in Int, NEW known \in Int, NEW instant \in Int, NEW first \in Int, NEW again \in Int,
         NEW last \in Int, NEW aged \in Int, NEW built \in Int,
         built + aged = clock - lag,
         2 * (stamp - built) \in -g..g,
         2 * (known - (stamp + aged)) \in -g..g,
         2 * (instant - (known + amount)) \in -g..g,
         2 * (first - instant) \in -n..n,
         2 * (again - first) \in -g..g,
         2 * (last - again) \in -n..n
  PROVE  last - (clock - lag + amount) \in -(2 * g + n)..(2 * g + n)
OBVIOUS

LEMMA RequestGood ==
  ASSUME now \in 0..MaxTime, config \in Configs,
         NEW at \in Typed, NEW mode, NEW lag \in {None} \cup 0..MaxLag, NEW age \in 0..MaxLag,
         ~ScheduleError(config.zone, at, mode),
         lag # None => lag + age <= now
  PROVE  /\ Request(at, mode, lag, age).time \in [sec : Int, nanosec : Int]
         /\ Request(at, mode, lag, age).mode = TIME_MODES[mode]
         /\ mode \in DOMAIN TIME_MODES
         /\ lag # None /\ at # None /\ at.form = "relative" =>
              Close(Request(at, mode, lag, age).time, OnClock(now) + at.time)
<1> DEFINE zone == config.zone
           resolved == ResolveAt(zone, at, Held(lag, age), Unit * age)
           machine == Float(OnClock(now + config.skew))
<1>1. zone \in Zones /\ machine \in Int
  <2>1. zone \in Zones /\ config.skew \in Int
    BY SessionAssumption
  <2>2. now + config.skew \in Int
    BY <2>1, SessionAssumption
  <2>3. QED
    BY <2>1, <2>2, ClockInt, FloatWithin
<1>2. /\ Request(at, mode, lag, age).time = SetStamp(zone, resolved, machine)
      /\ Request(at, mode, lag, age).mode = TIME_MODES[mode]
  BY DEF Request, ApplySchedule
<1>3. mode \in DOMAIN TIME_MODES /\ (at # None => Readable(zone, at))
  BY DEF ScheduleError
<1> HIDE DEF zone, machine
<1>4. CASE at = None
  <2>1. resolved = None
    BY <1>4 DEF ResolveAt
  <2>2. SetStamp(zone, resolved, machine) = [sec |-> 0, nanosec |-> 0]
    BY <2>1 DEF SetStamp, Now
  <2>3. QED
    BY <1>2, <1>3, <1>4, <2>2
<1>5. CASE at # None /\ lag = None
  <2>1. resolved = at
    BY <1>5 DEF ResolveAt, Held
  <2>2. SetStamp(zone, resolved, machine) = ParseTime(zone, at, machine)
    BY <1>5, <2>1 DEF SetStamp
  <2>3. ParseTime(zone, at, machine) \in [sec : Int, nanosec : Int]
    BY <1>1, <1>3, <1>5, StampTyped
  <2>4. QED
    BY <1>2, <1>3, <1>5, <2>2, <2>3
<1>6. CASE at # None /\ lag # None
  <2>0. lag \in Nat /\ lag <= MaxLag /\ age \in Nat /\ now \in Nat /\ lag + age <= now /\ MaxLag \in Nat
    BY <1>6, SessionAssumption
  <2> DEFINE built == OnClock(now - lag - age)
             stamp == Float(built)
             held == [stamp |-> stamp]
             aged == Unit * age
             known == Float(stamp + aged)
             x == Instant(zone, at, known)
             instant == Float(x)
             first == Nanoseconds(Split(instant))
             time == Float(first)
  <2>1. built \in Int /\ aged \in Int /\ built + aged = OnClock(now) - Unit * lag /\ OnClock(now) \in Int
    <3>1. now - lag - age \in Int /\ now \in Int
      BY <2>0
    <3>2. OnClock(now - lag - age) = Unit * (now - lag - age) + Nano * config.nanoseconds
          /\ OnClock(now) = Unit * now + Nano * config.nanoseconds /\ Nano * config.nanoseconds \in Int
      BY <3>1, ClockInt
    <3>3. /\ Unit * (now - lag - age) + Unit * age = Unit * now - Unit * lag
          /\ Unit * (now - lag - age) \in Int /\ Unit * age \in Int
          /\ Unit * now \in Int /\ Unit * lag \in Nat
      BY <2>0, Elapsed
    <3>4. QED
      BY <3>2, <3>3
  <2>2. Held(lag, age) = held
    <3>1. Nanoseconds(Msg(lag, age).stamp) = (now - lag - age) * Unit + config.nanoseconds * Nano
      BY DEF Nanoseconds, Msg
    <3>2. (now - lag - age) * Unit = Unit * (now - lag - age) /\ config.nanoseconds * Nano = Nano * config.nanoseconds
      <4>1. config.nanoseconds \in Int /\ now - lag - age \in Int
        BY <2>0, SessionAssumption, UnitFacts
      <4>2. QED
        BY <4>1, UnitFacts
    <3>3. QED
      BY <1>6, <3>1, <3>2 DEF Held, StatusFromMsg, Seconds, OnClock
  <2> HIDE DEF built, aged
  <2>3. stamp \in Int /\ 2 * (stamp - built) \in -Grain..Grain
    BY <2>1, FloatWithin
  <2>4. held # None
    <3>1. held \in [stamp : Int]
      BY <2>3
    <3>2. QED
      BY <3>1, NoneAssumption
  <2> HIDE DEF stamp
  <2>5. known \in Int /\ 2 * (known - (stamp + aged)) \in -Grain..Grain
    <3>1. stamp + aged \in Int
      BY <2>1, <2>3
    <3>2. QED
      BY <3>1, FloatWithin
  <2>6. RecorderNow(held, Unit * age) = known
    BY DEF RecorderNow, aged
  <2> HIDE DEF held, known
  <2>7. resolved = [form |-> "epoch", time |-> time]
    BY <1>6, <2>2, <2>4, <2>6 DEF ResolveAt, ParseTime, Seconds
  <2>8. x \in Int
    BY <1>1, <1>3, <1>6, <2>5, InstantInt
  <2> HIDE DEF x
  <2>9. instant \in Int /\ 2 * (instant - x) \in -Grain..Grain
    BY <2>8, FloatWithin
  <2> HIDE DEF instant
  <2>10. first \in Int /\ 2 * (first - instant) \in -Nano..Nano
    BY <2>9, SplitWithin
  <2> HIDE DEF first
  <2>11. time \in Int /\ 2 * (time - first) \in -Grain..Grain /\ Float(time) = time
    BY <2>10, FloatWithin, FloatTwice
  <2> HIDE DEF time
  <2>12. /\ Split(time) \in [sec : Int, nanosec : Int]
         /\ Nanoseconds(Split(time)) \in Int /\ 2 * (Nanoseconds(Split(time)) - time) \in -Nano..Nano
    BY <2>11, SplitWithin
  <2>13. SetStamp(zone, resolved, machine) = Split(time)
    <3>1. resolved # None
      <4>1. [form |-> "epoch", time |-> time] \in [form : {"epoch"}, time : Int]
        BY <2>11
      <4>2. QED
        BY <2>7, <4>1, NoneAssumption
    <3>2. SetStamp(zone, resolved, machine) = ParseTime(zone, resolved, machine)
      BY <3>1 DEF SetStamp
    <3>3. QED
      BY <2>7, <2>11, <3>2 DEF ParseTime, Instant
  <2>14. ASSUME at.form = "relative"
         PROVE  Close(Split(time), OnClock(now) + at.time)
    <3>1. x = known + at.time /\ at.time \in Int
      BY <1>6, <2>14, TypedAssumption DEF x, Instant
    <3>2. Unit * lag \in Nat /\ Unit * MaxLag \in Nat /\ Unit * lag <= Unit * MaxLag
      BY <2>0, Monotone
    <3> DEFINE last == Nanoseconds(Split(time))
               clock == OnClock(now)
               late == Unit * lag
               most == Unit * MaxLag
               amount == at.time
    <3>3. /\ last \in Int /\ 2 * (last - time) \in -Nano..Nano
          /\ clock \in Int /\ late \in Nat /\ most \in Nat /\ late <= most /\ amount \in Int
          /\ built + aged = clock - late /\ 2 * (instant - (known + amount)) \in -Grain..Grain
      BY <2>1, <2>9, <2>12, <3>1, <3>2
    <3> HIDE DEF last, clock, late, most, amount
    <3>4. last - (clock - late + amount) \in -(2 * Grain + Nano)..(2 * Grain + Nano)
      <4>1. Grain \in Nat /\ Nano \in Nat
        BY UnitFacts
      <4>2. QED
        BY <2>1, <2>3, <2>5, <2>9, <2>10, <2>11, <3>3, <4>1, Drift
    <3>5. last \in (clock + amount) - most - 2 * Grain - Nano .. (clock + amount) + 2 * Grain + Nano
      BY <3>3, <3>4, UnitFacts
    <3>6. QED
      BY <3>5 DEF Close, last, clock, most, amount
  <2>15. QED
    BY <1>2, <1>3, <1>6, <2>12, <2>13, <2>14
<1>7. QED
  BY <1>4, <1>5, <1>6

-----------------------------------------------------------------------------
(* The invariant *)

BagTyped == bag \in [stamps : [Topics -> Seq(0..MaxTime)], events : Seq(EventMsgs)]
Untold == [thread : {"service", "message"}, action : {0, 1}]
SwitchTyped ==
  /\ paused \in BOOLEAN /\ untold \in Seq(Untold)
  /\ due = None \/ due \in [topic : Topics, resumed : BOOLEAN]
SessionInv ==
  /\ now \in 0..MaxTime /\ recording \in BOOLEAN /\ config \in Configs
  /\ SwitchTyped
  /\ subscribed \subseteq Topics
  /\ inflight \in [Topics -> {None} \cup 0..MaxTime]
  /\ BagTyped
  /\ ScheduledInv

\* What start() says is of streams the library knows, about topics there are.
LEMMA SaidTyped ==
  ASSUME NEW recorded, NEW stream \in DOMAIN EventStreams, NEW about \in Seq(Topics \cup {None})
  PROVE  Said(recorded, stream, about) \in Seq(EventMsgs)
<1>1. 0 \in 0..MaxTime
  BY SessionAssumption
<1>2. \A i \in 1 .. Len(about) :
         [stream |-> stream, action |-> 0, topic |-> about[i], stamp |-> 0] \in EventMsgs
  BY <1>1 DEF EventMsgs
<1>3. CASE recorded
  <2>1. Said(recorded, stream, about) =
          [i \in 1 .. Len(about) |-> [stream |-> stream, action |-> 0, topic |-> about[i], stamp |-> 0]]
    BY <1>3, LenProperties DEF Said
  <2>2. Len(about) \in Nat
    BY LenProperties
  <2>3. QED
    BY <1>2, <2>1, <2>2
<1>4. CASE ~recorded
  BY <1>4 DEF Said
<1>5. QED
  BY <1>3, <1>4

LEMMA EmitTyped ==
  ASSUME now \in 0..MaxTime, BagTyped,
         NEW recorded, NEW stream \in DOMAIN EventStreams, NEW action \in {0, 1}, NEW topic \in Topics \cup {None}
  PROVE  Emit(recorded, stream, action, topic) \in [stamps : [Topics -> Seq(0..MaxTime)], events : Seq(EventMsgs)]
<1> DEFINE msg == [stream |-> stream, action |-> action, topic |-> topic, stamp |-> now]
<1>1. msg \in EventMsgs
  BY DEF EventMsgs
<1>2. Emit(recorded, stream, action, topic) = IF recorded THEN [bag EXCEPT !.events = Append(@, msg)] ELSE bag
  BY DEF Emit
<1> HIDE DEF msg
<1>3. bag.events \in Seq(EventMsgs)
  BY DEF BagTyped
<1>4. Append(bag.events, msg) \in Seq(EventMsgs)
  BY <1>1, <1>3, AppendProperties
<1>5. [bag EXCEPT !.events = Append(bag.events, msg)] \in [stamps : [Topics -> Seq(0..MaxTime)], events : Seq(EventMsgs)]
  BY <1>4 DEF BagTyped
<1>6. QED
  BY <1>2, <1>5 DEF BagTyped

LEMMA Streams ==
  {"subscription_change", "pause", "low_disk"} \subseteq DOMAIN EventStreams
BY DEF EventStreams

LEMMA SessionInit == Init => SessionInv
<1> SUFFICES ASSUME Init PROVE SessionInv
  OBVIOUS
<1>1. PICK order \in SetToSeqs(subscribed) :
        bag = [stamps |-> [t \in Topics |-> <<>>],
               events |-> Said(config.pauses /\ paused, "pause", <<None>>)
                            \o Said(config.subscriptions, "subscription_change", order)]
  BY DEF Init
<1>2. order \in Seq(Topics \cup {None})
  <2>1. subscribed \subseteq Topics /\ IsFiniteSet(Topics)
    BY SessionAssumption DEF Init
  <2>2. Cardinality(subscribed) \in Nat
    BY <2>1, FS_Subset, FS_CardinalityType
  <2>3. order \in [1 .. Cardinality(subscribed) -> subscribed]
    BY <1>1 DEF SetToSeqs
  <2>4. order \in [1 .. Cardinality(subscribed) -> Topics \cup {None}]
    BY <2>1, <2>3
  <2>5. QED
    BY <2>2, <2>4
<1>3. <<None>> \in Seq(Topics \cup {None})
  OBVIOUS
<1> DEFINE first == Said(config.pauses /\ paused, "pause", <<None>>)
           second == Said(config.subscriptions, "subscription_change", order)
<1>4. first \in Seq(EventMsgs) /\ second \in Seq(EventMsgs)
  BY <1>2, <1>3, SaidTyped, Streams
<1> HIDE DEF first, second
<1>5. first \o second \in Seq(EventMsgs)
  BY <1>4, ConcatProperties
<1>6. BagTyped
  BY <1>1, <1>5 DEF BagTyped, first, second
<1>7. QED
  BY <1>6, SessionAssumption DEF Init, SessionInv, SwitchTyped, ScheduledInv

LEMMA ScheduledKeeps ==
  ASSUME ScheduledInv, scheduled' \in {scheduled, None}, UNCHANGED config
  PROVE  ScheduledInv'
<1>1. CASE scheduled' = scheduled
  BY <1>1 DEF ScheduledInv, ScheduledFor, Meant, OnClock, Close
<1>2. CASE scheduled' = None
  BY <1>2 DEF ScheduledInv
<1>3. QED
  BY <1>1, <1>2

\* The flag and what is to be told of it, after an exchange.
LEMMA SetTyped ==
  ASSUME SwitchTyped, NEW thread \in {"service", "message"}, NEW flag \in BOOLEAN, Set(thread, flag)
  PROVE  paused' \in BOOLEAN /\ untold' \in Seq(Untold)
<1> DEFINE change == [thread |-> thread, action |-> IF flag THEN 0 ELSE 1]
<1>1. change \in Untold
  BY DEF Untold
<1> HIDE DEF change
<1>2. Append(untold, change) \in Seq(Untold)
  BY <1>1, AppendProperties DEF SwitchTyped
<1>3. untold' = IF paused = flag THEN untold ELSE Append(untold, change)
  BY DEF Set, change
<1>4. QED
  BY <1>2, <1>3 DEF SwitchTyped, Set

LEMMA RemoveTyped ==
  ASSUME NEW S, NEW s \in Seq(S), NEW i \in DOMAIN s
  PROVE  RemoveAt(s, i) \in Seq(S) /\ Len(RemoveAt(s, i)) = Len(s) - 1
         /\ \A j \in 1..Len(s) - 1 : RemoveAt(s, i)[j] = IF j < i THEN s[j] ELSE s[j + 1]
<1>1. i \in 1..Len(s) /\ Len(s) \in Nat
  BY LenProperties
<1>2. RemoveAt(s, i) = SubSeq(s, 1, i - 1) \o SubSeq(s, i + 1, Len(s))
  BY DEF RemoveAt
<1>3. /\ SubSeq(s, 1, i - 1) \in Seq(S) /\ Len(SubSeq(s, 1, i - 1)) = i - 1
      /\ \A j \in 1..i - 1 : SubSeq(s, 1, i - 1)[j] = s[j]
  BY <1>1, SubSeqProperties
<1>4. /\ SubSeq(s, i + 1, Len(s)) \in Seq(S) /\ Len(SubSeq(s, i + 1, Len(s))) = Len(s) - i
      /\ \A j \in 1..Len(s) - i : SubSeq(s, i + 1, Len(s))[j] = s[i + j]
  BY <1>1, SubSeqProperties
<1> DEFINE a == SubSeq(s, 1, i - 1)
           b == SubSeq(s, i + 1, Len(s))
           n == Len(s)
<1>5. /\ a \in Seq(S) /\ Len(a) = i - 1 /\ \A j \in 1..i - 1 : a[j] = s[j]
      /\ b \in Seq(S) /\ Len(b) = n - i /\ \A j \in 1..n - i : b[j] = s[i + j]
      /\ i \in 1..n /\ n \in Nat
  BY <1>1, <1>3, <1>4
<1> HIDE DEF a, b, n
<1>6. a \o b \in Seq(S) /\ Len(a \o b) = n - 1
      /\ \A j \in 1..n - 1 : (a \o b)[j] = IF j <= Len(a) THEN a[j] ELSE b[j - Len(a)]
  <2>1. /\ a \o b \in Seq(S) /\ Len(a \o b) = Len(a) + Len(b)
        /\ \A j \in 1..Len(a) + Len(b) : (a \o b)[j] = IF j <= Len(a) THEN a[j] ELSE b[j - Len(a)]
    BY <1>5, ConcatProperties
  <2>2. Len(a) + Len(b) = n - 1
    BY <1>5
  <2>3. QED
    BY <2>1, <2>2
<1>7. \A j \in 1..n - 1 : (a \o b)[j] = IF j < i THEN s[j] ELSE s[j + 1]
  <2> SUFFICES ASSUME NEW j \in 1..n - 1 PROVE (a \o b)[j] = IF j < i THEN s[j] ELSE s[j + 1]
    OBVIOUS
  <2>1. CASE j < i
    BY <1>5, <1>6, <2>1
  <2>2. CASE ~(j < i)
    <3>1. j - (i - 1) \in 1..n - i /\ i + (j - (i - 1)) = j + 1
      BY <1>5, <2>2
    <3>2. (a \o b)[j] = b[j - (i - 1)]
      BY <1>5, <1>6, <2>2
    <3>3. QED
      BY <1>5, <2>2, <3>1, <3>2
  <2>3. QED
    BY <2>1, <2>2
<1>8. QED
  BY <1>2, <1>6, <1>7 DEF a, b, n

LEMMA TellKeeps ==
  ASSUME SessionInv, NEW i \in DOMAIN untold, Tell(i)
  PROVE  SessionInv'
<1>1. untold[i] \in Untold /\ untold' \in Seq(Untold)
  <2>1. untold \in Seq(Untold)
    BY DEF SessionInv, SwitchTyped
  <2>2. untold[i] \in Untold
    BY <2>1
  <2>3. RemoveAt(untold, i) \in Seq(Untold)
    BY <2>1, RemoveTyped
  <2>4. QED
    BY <2>2, <2>3 DEF Tell
<1>2. bag' = Emit(config.pauses, "pause", untold[i].action, None)
      /\ UNCHANGED <<now, recording, paused, due, subscribed, inflight, config, scheduled>>
  BY DEF Tell
<1>3. untold[i].action \in {0, 1}
  BY <1>1 DEF Untold
<1>4. BagTyped'
  BY <1>2, <1>3, EmitTyped, Streams DEF BagTyped, SessionInv
<1>5. ScheduledInv'
  BY <1>2, ScheduledKeeps DEF SessionInv
<1>6. QED
  BY <1>1, <1>2, <1>4, <1>5 DEF SessionInv, SwitchTyped

LEMMA DeliverKeeps ==
  ASSUME SessionInv, NEW t \in Topics, Deliver(t)
  PROVE  SessionInv'
<1>1. /\ inflight' = [inflight EXCEPT ![t] = None] /\ inflight[t] # None /\ due' = None
      /\ bag' = IF paused THEN bag ELSE [bag EXCEPT !.stamps[t] = Append(@, inflight[t])]
      /\ UNCHANGED <<now, recording, paused, untold, subscribed, config, scheduled>>
  BY DEF Deliver
<1>2. inflight[t] \in 0..MaxTime
  BY <1>1 DEF SessionInv
<1>3. bag.stamps[t] \in Seq(0..MaxTime)
  BY DEF SessionInv, BagTyped
<1>4. Append(bag.stamps[t], inflight[t]) \in Seq(0..MaxTime)
  BY <1>2, <1>3, AppendProperties
<1>5. [bag EXCEPT !.stamps[t] = Append(bag.stamps[t], inflight[t])]
        \in [stamps : [Topics -> Seq(0..MaxTime)], events : Seq(EventMsgs)]
  BY <1>4 DEF SessionInv, BagTyped
<1>6. BagTyped'
  BY <1>1, <1>5 DEF SessionInv, BagTyped
<1>7. ScheduledInv'
  BY <1>1, ScheduledKeeps DEF SessionInv
<1>8. inflight' \in [Topics -> {None} \cup 0..MaxTime]
  BY <1>1 DEF SessionInv
<1>9. QED
  BY <1>1, <1>6, <1>7, <1>8 DEF SessionInv, SwitchTyped

LEMMA CallResumeKeeps ==
  ASSUME SessionInv, NEW at \in Typed, NEW mode \in Modes,
         NEW lag \in {None} \cup 0..MaxLag, NEW age \in 0..MaxLag, CallResume(at, mode, lag, age)
  PROVE  SessionInv'
<1> DEFINE request == Request(at, mode, lag, age)
           made == [time |-> request.time, mode |-> request.mode,
                    typed |-> at, word |-> mode, asked |-> now, known |-> lag # None]
<1>1. /\ scheduled' = made
      /\ ~ScheduleError(config.zone, at, mode)
      /\ IF lag = None THEN age = 0 ELSE lag + age <= now
      /\ UNCHANGED <<now, recording, switch, subscribed, inflight, bag, config>>
  BY DEF CallResume, Request, Held, Msg
<1>2. now \in 0..MaxTime /\ config \in Configs
  BY DEF SessionInv
<1>3. lag # None => lag + age <= now
  BY <1>1
<1>4. /\ request.time \in [sec : Int, nanosec : Int]
      /\ request.mode = TIME_MODES[mode]
      /\ mode \in DOMAIN TIME_MODES
      /\ lag # None /\ at # None /\ at.form = "relative" => Close(request.time, OnClock(now) + at.time)
  BY <1>1, <1>2, <1>3, RequestGood
<1> HIDE DEF request
<1>5. /\ made.time = request.time /\ made.mode = request.mode /\ made.typed = at /\ made.word = mode
      /\ made.asked = now /\ made.known = (lag # None)
  OBVIOUS
<1> HIDE DEF made
<1>6. ScheduledInv'
  <2>1. Meant' = OnClock(now) + at.time
    BY <1>1, <1>5 DEF Meant, OnClock
  <2>2. lag # None /\ at # None /\ at.form = "relative" => Close(request.time, Meant')
    BY <1>4, <2>1
  <2>4. QED
    BY <1>1, <1>2, <1>4, <1>5, <2>2 DEF ScheduledInv, ScheduledFor, Close
<1>7. QED
  BY <1>1, <1>6 DEF SessionInv, SwitchTyped, switch, BagTyped

LEMMA SessionNext == SessionInv /\ [Next]_vars => SessionInv'
<1> SUFFICES ASSUME SessionInv, [Next]_vars PROVE SessionInv'
  OBVIOUS
<1>0. now \in 0..MaxTime /\ MaxTime \in Nat /\ BagTyped /\ ScheduledInv /\ SwitchTyped
  BY SessionAssumption DEF SessionInv
<1>1. CASE Tick
  <2>1. now' \in 0..MaxTime /\ UNCHANGED <<recording, switch, subscribed, inflight, bag, config, scheduled>>
    BY <1>0, <1>1 DEF Tick
  <2>2. ScheduledInv'
    BY <1>0, <2>1, ScheduledKeeps
  <2>3. QED
    BY <2>1, <2>2 DEF SessionInv, BagTyped, SwitchTyped, switch
<1>2. ASSUME NEW t \in Topics, Subscribe(t) PROVE SessionInv'
  <2>1. BagTyped'
    BY <1>0, <1>2, EmitTyped, Streams DEF Subscribe, BagTyped
  <2>2. ScheduledInv'
    BY <1>0, <1>2, ScheduledKeeps DEF Subscribe
  <2>3. QED
    BY <1>2, <2>1, <2>2 DEF Subscribe, SessionInv, SwitchTyped, switch
<1>3. ASSUME NEW t \in Topics, Unsubscribe(t) PROVE SessionInv'
  <2>1. BagTyped'
    BY <1>0, <1>3, EmitTyped, Streams DEF Unsubscribe, BagTyped
  <2>2. ScheduledInv'
    BY <1>0, <1>3, ScheduledKeeps DEF Unsubscribe
  <2>3. QED
    BY <1>3, <2>1, <2>2 DEF Unsubscribe, SessionInv, SwitchTyped, switch
<1>4. CASE Pause
  <2>1. Set("service", TRUE) /\ UNCHANGED <<now, recording, due, subscribed, inflight, bag, config, scheduled>>
    BY <1>4 DEF Pause
  <2>2. ScheduledInv'
    BY <1>0, <2>1, ScheduledKeeps
  <2>3. SwitchTyped'
    BY <1>0, <2>1, SetTyped DEF SwitchTyped
  <2>4. QED
    BY <2>1, <2>2, <2>3 DEF SessionInv, BagTyped
<1>5. CASE Resume
  <2>1. Set("service", FALSE) /\ UNCHANGED <<now, recording, due, subscribed, inflight, bag, config, scheduled>>
    BY <1>5 DEF Resume
  <2>2. ScheduledInv'
    BY <1>0, <2>1, ScheduledKeeps
  <2>3. SwitchTyped'
    BY <1>0, <2>1, SetTyped DEF SwitchTyped
  <2>4. QED
    BY <2>1, <2>2, <2>3 DEF SessionInv, BagTyped
<1>6. CASE Fire
  <2>1. Set("service", FALSE) /\ scheduled' = None /\ UNCHANGED <<now, recording, due, subscribed, inflight, bag, config>>
    BY <1>6 DEF Fire
  <2>2. ScheduledInv'
    BY <1>0, <2>1, ScheduledKeeps
  <2>3. SwitchTyped'
    BY <1>0, <2>1, SetTyped DEF SwitchTyped
  <2>4. QED
    BY <2>1, <2>2, <2>3 DEF SessionInv, BagTyped
<1>7. ASSUME NEW t \in Topics, Receive(t) PROVE SessionInv'
  <2>1. inflight' \in [Topics -> {None} \cup 0..MaxTime]
    BY <1>0, <1>7 DEF Receive, SessionInv
  <2>2. ScheduledInv'
    BY <1>0, <1>7, ScheduledKeeps DEF Receive
  <2>3. QED
    BY <1>7, <2>1, <2>2 DEF Receive, SessionInv, BagTyped, SwitchTyped, switch
<1>8. ASSUME NEW t \in Topics, Discard(t) PROVE SessionInv'
  <2>1. inflight' \in [Topics -> {None} \cup 0..MaxTime]
    BY <1>8 DEF Discard, SessionInv
  <2>2. ScheduledInv'
    BY <1>0, <1>8, ScheduledKeeps DEF Discard
  <2>3. QED
    BY <1>8, <2>1, <2>2 DEF Discard, SessionInv, BagTyped, SwitchTyped, switch
<1>9. ASSUME NEW t \in Topics, Deliver(t) PROVE SessionInv'
  BY <1>9, DeliverKeeps
<1>10. CASE Stop
  <2>1. BagTyped'
    <3>1. PICK guard \in BOOLEAN : bag' = Emit(guard, "low_disk", 0, None)
      BY <1>10 DEF Stop
    <3>2. Emit(guard, "low_disk", 0, None) \in [stamps : [Topics -> Seq(0..MaxTime)], events : Seq(EventMsgs)]
      BY <1>0, EmitTyped, Streams
    <3>3. QED
      BY <1>10, <3>1, <3>2 DEF Stop, BagTyped
  <2>2. ScheduledInv'
    BY <1>0, <1>10, ScheduledKeeps DEF Stop
  <2>3. SwitchTyped'
    <3>1. <<>> \in Seq(Untold)
      OBVIOUS
    <3>2. QED
      BY <1>0, <1>10, <3>1 DEF Stop, SwitchTyped
  <2>4. QED
    BY <1>10, <2>1, <2>2, <2>3 DEF Stop, SessionInv
<1>11. ASSUME NEW at \in Typed, NEW mode \in Modes, NEW lag \in {None} \cup 0..MaxLag, NEW age \in 0..MaxLag,
              CallResume(at, mode, lag, age)
       PROVE  SessionInv'
  BY <1>11, CallResumeKeeps
<1>12. ASSUME NEW t \in Topics, TakeDue(t) PROVE SessionInv'
  <2>1. due' \in [topic : Topics, resumed : BOOLEAN]
    BY <1>12 DEF TakeDue
  <2>2. ScheduledInv'
    BY <1>0, <1>12, ScheduledKeeps DEF TakeDue
  <2>3. QED
    BY <1>12, <2>1, <2>2 DEF TakeDue, SessionInv, BagTyped, SwitchTyped
<1>13. CASE ResumeDue
  <2>1. /\ Set("message", FALSE) /\ due # None /\ due' = [due EXCEPT !.resumed = TRUE]
        /\ UNCHANGED <<now, recording, subscribed, inflight, bag, config, scheduled>>
    BY <1>13 DEF ResumeDue
  <2>2. due' \in [topic : Topics, resumed : BOOLEAN]
    BY <1>0, <2>1 DEF SwitchTyped
  <2>3. ScheduledInv'
    BY <1>0, <2>1, ScheduledKeeps
  <2>4. SwitchTyped'
    BY <1>0, <2>1, <2>2, SetTyped DEF SwitchTyped
  <2>5. QED
    BY <2>1, <2>3, <2>4 DEF SessionInv, BagTyped
<1>14. ASSUME NEW i \in DOMAIN untold, Tell(i) PROVE SessionInv'
  BY <1>14, TellKeeps
<1>15. CASE UNCHANGED vars
  <2>1. ScheduledInv'
    BY <1>0, <1>15, ScheduledKeeps DEF vars
  <2>2. QED
    BY <1>15, <2>1 DEF vars, switch, SessionInv, BagTyped, SwitchTyped
<1>16. QED
  BY <1>1, <1>2, <1>3, <1>4, <1>5, <1>6, <1>7, <1>8, <1>9, <1>10, <1>11, <1>12, <1>13, <1>14, <1>15 DEF Next

LEMMA Invariant == Spec => []SessionInv
BY SessionInit, SessionNext, PTL DEF Spec

\* In every behaviour, whatever is typed, in whatever zone: what is written to the
\* bag and what is scheduled has its type, the mode asked for included.
THEOREM TypeCorrect == Spec => []TypeOK
<1>1. SessionInv => TypeOK
  BY DEF SessionInv, SwitchTyped, Untold, BagTyped, ScheduledInv, TypeOK
<1>2. QED
  BY <1>1, Invariant, PTL

\* In every behaviour a time from now comes when it should on the recorder's clock,
\* whatever the machine's says and however long the status was held: missing are the
\* time it was on its way, and what four floats and two stamps make of it.
THEOREM RelativeCorrect == Spec => []RelativeTimesAreTheRecorders
<1>1. SessionInv => RelativeTimesAreTheRecorders
  BY Zenon DEF SessionInv, ScheduledInv, Close, RelativeTimesAreTheRecorders
<1>2. QED
  BY <1>1, Invariant, PTL

\* In every behaviour, whatever the length of a second, every time from the epoch
\* on becomes a legal stamp within half a nanosecond of it.
THEOREM StampsCorrect == Spec => []StampsAreLegal
<1>1. SessionInv => StampsAreLegal
  <2>0. SessionInv => now \in Nat
    BY SessionAssumption DEF SessionInv
  <2> SUFFICES ASSUME now \in Nat, NEW fraction \in 0..Unit - 1
               PROVE  LET x == Unit * now + fraction
                          stamp == Split(x)
                      IN stamp.nanosec \in 0..Second - 1 /\ 2 * (Nanoseconds(stamp) - x) \in -Nano..Nano
    BY <2>0 DEF StampsAreLegal
  <2>1. Unit * now + fraction \in Nat
    BY UnitFacts
  <2>2. QED
    BY <2>1, SplitIsLegal, SplitWithin
<1>2. QED
  BY <1>1, Invariant, PTL

-----------------------------------------------------------------------------
(* The time of day *)

\* Two readings with one time of day are whole days apart.
LEMMA DaysApart ==
  ASSUME NEW x \in Int, NEW y \in Int, NEW d \in Nat \ {0}, x % d = y % d, y < x
  PROVE  y + d <= x
<1> DEFINE p == x \div d
           q == y \div d
<1>1. p \in Int /\ q \in Int /\ x % d = x - d * p /\ y % d = y - d * q
  OBVIOUS
<1> HIDE DEF p, q
<1>2. x - y = d * p - d * q
  BY <1>1
<1>3. d * p \in Int /\ d * q \in Int /\ d * (q + 1) = d * q + d
  BY <1>1
<1>4. q < p
  <2>1. SUFFICES ASSUME p <= q PROVE FALSE
    BY <1>1
  <2>2. d * p <= d * q
    BY <1>1, <2>1
  <2>3. QED
    BY <1>2, <1>3, <2>2
<1>5. d * (q + 1) <= d * p
  BY <1>1, <1>4
<1>6. QED
  BY <1>2, <1>3, <1>5

\* Midnight, and a time of day from it.
LEMMA MidnightFacts ==
  ASSUME NEW r \in Int, NEW d \in Nat \ {0}, NEW c \in 0..d - 1, NEW m, m = r - (r % d)
  PROVE  /\ m \in Int /\ m <= r /\ r < m + d
         /\ (m + c) % d = c /\ (m + c + d) % d = c
<1> DEFINE q == r \div d
<1>1. q \in Int /\ r % d = r - d * q /\ r % d \in 0..d-1
  OBVIOUS
<1> HIDE DEF q
<1>2. m = d * q /\ d * q \in Int /\ d * (q + 1) = d * q + d
  BY <1>1
<1>3. ASSUME NEW n \in Int PROVE (d * n + c) % d = c
  OBVIOUS
<1>4. (d * q + c) % d = c
  BY <1>1, <1>3
<1>5. (d * (q + 1) + c) % d = c
  <2>1. q + 1 \in Int
    BY <1>1
  <2>2. QED
    BY <2>1, <1>3
<1> DEFINE e == d * q
           f == d * (q + 1)
<1>6. m = e /\ e \in Int /\ f = e + d /\ (e + c) % d = c /\ (f + c) % d = c
  BY <1>2, <1>4, <1>5
<1> HIDE DEF e, f
<1>8. f + c = m + c + d
  BY <1>6
<1>9. (m + c) % d = c /\ (m + c + d) % d = c
  BY <1>6, <1>8
<1>7. QED
  BY <1>1, <1>6, <1>9

\* A reading as an instant, the clock changing at x from b ahead to a ahead.
Instants(x, b, a, reading, fold) ==
  LET before == reading - b < x
      after == reading - a >= x
  IN IF before # after THEN (IF before THEN reading - b ELSE reading - a)
     ELSE IF fold = 0 THEN reading - b ELSE reading - a
Ahead(x, b, a, t) == IF t < x THEN b ELSE a
Again(x, b, a, t) == IF x <= t /\ t < x + b - a THEN 1 ELSE 0
NextTime(x, b, a, reading, d, t) ==
  LET today == Instants(x, b, a, reading, Again(x, b, a, t))
  IN IF today > t THEN today ELSE Instants(x, b, a, reading + d, 0)
\* A reading that may have a time of day, and what is claimed of the next time.
OnTheDay(shown, reading, d) ==
  shown = reading \/ shown <= reading - d \/ shown = reading + d \/ shown >= reading + d + d
IsNextTime(x, b, a, reading, d, t, next) ==
  /\ next \in Int
  /\ next > t \/ (x - (b - a) <= next /\ next < x /\ x <= t)
  /\ next + Ahead(x, b, a, next) \in {reading, reading + d} \/ (x <= next /\ next < x + (a - b))
  /\ \A u \in Int : t < u /\ u < next /\ OnTheDay(u + Ahead(x, b, a, u), reading, d)
                     => Again(x, b, a, u) = 1 /\ Again(x, b, a, t) = 0

\* The next time of day c after t, in a day of d that began at m.
LEMMA NextInstant ==
  ASSUME NEW x \in Int, NEW b \in Int, NEW a \in Int, NEW d \in Int, NEW t \in Int, NEW m \in Int, NEW c \in Int,
         a - b <= d, 0 <= c, c < d, m <= t + Ahead(x, b, a, t), t + Ahead(x, b, a, t) < m + d,
         NEW next, next = NextTime(x, b, a, m + c, d, t)
  PROVE  IsNextTime(x, b, a, m + c, d, t, next)
<1>1. next \in Int
  BY DEF NextTime, Instants, Again
<1>2. next > t \/ (x - (b - a) <= next /\ next < x /\ x <= t)
  BY DEF NextTime, Instants, Again, Ahead
<1>3. \/ next + Ahead(x, b, a, next) \in {m + c, m + c + d}
      \/ x <= next /\ next < x + (a - b)
  BY DEF NextTime, Instants, Again, Ahead
<1>4. ASSUME NEW u \in Int, t < u, u < next, OnTheDay(u + Ahead(x, b, a, u), m + c, d)
      PROVE Again(x, b, a, u) = 1 /\ Again(x, b, a, t) = 0
  BY <1>4 DEF NextTime, Instants, Again, Ahead, OnTheDay
<1>5. QED
  BY <1>1, <1>2, <1>3, <1>4 DEF IsNextTime

LEMMA Distribute ==
  ASSUME NEW i \in Int, NEW j \in Int
  PROVE  /\ Unit * i \in Int /\ Unit * j \in Int
         /\ Unit * (i - j) = Unit * i - Unit * j
         /\ (i < j) => Unit * i < Unit * j
         /\ (i <= j) <=> Unit * i <= Unit * j
<1>1. \A u \in Nat \ {0} : /\ u * i \in Int /\ u * j \in Int
                           /\ u * (i - j) = u * i - u * j
                           /\ (i < j) => u * i < u * j
                           /\ (i <= j) <=> u * i <= u * j
  OBVIOUS
<1>2. QED
  BY <1>1, UnitFacts

\* A zone's clock in ticks.
LEMMA ZoneFacts ==
  ASSUME NEW zone \in Zones, NEW x, NEW b, NEW a,
         x = Unit * zone.change, b = Unit * zone.before, a = Unit * zone.after
  PROVE  /\ x \in Int /\ b \in Int /\ a \in Int /\ a - b <= Day(zone)
         /\ Unit * (zone.after - zone.before) = a - b
         /\ Unit * (zone.before - zone.after) = b - a
         /\ \A u \in Int : /\ Reading(zone, u) = u + Ahead(x, b, a, u)
                           /\ Fold(zone, u) = Again(x, b, a, u)
         /\ \A reading, fold : Timestamp(zone, reading, fold) = Instants(x, b, a, reading, fold)
<1>1. /\ zone.change \in Int /\ zone.before \in Int /\ zone.after \in Int /\ zone.day \in Int
      /\ zone.after - zone.before \in Int /\ zone.before - zone.after \in Int
      /\ zone.after - zone.before <= zone.day
  BY DEF Zones
<1>2. x \in Int /\ b \in Int /\ a \in Int
  BY <1>1, Scaled
<1>3. Unit * (zone.after - zone.before) = a - b /\ Unit * (zone.before - zone.after) = b - a
  BY <1>1, Distribute
<1>4. a - b <= Day(zone)
  BY <1>1, <1>3, Distribute DEF Day
<1>5. Unit * (zone.change + zone.before - zone.after) = x + b - a
  <2>1. \A u \in Int : u * (zone.change + zone.before - zone.after) = u * zone.change + u * zone.before - u * zone.after
    BY <1>1
  <2>2. QED
    BY <2>1, UnitFacts
<1>6. ASSUME NEW u \in Int PROVE Reading(zone, u) = u + Ahead(x, b, a, u) /\ Fold(zone, u) = Again(x, b, a, u)
  BY <1>5 DEF Reading, Offset, Ahead, Fold, Again
<1>7. ASSUME NEW reading, NEW fold PROVE Timestamp(zone, reading, fold) = Instants(x, b, a, reading, fold)
  BY DEF Timestamp, Instants
<1>8. QED
  BY <1>2, <1>3, <1>4, <1>6, <1>7

\* In every behaviour, for any clock that was put forward by a day at most and back
\* by whatever, a time of day is the next instant the clock shows it, but for what
\* the property names.
THEOREM WallClockCorrect == Spec => []WallClockIsNext
<1>1. SessionInv => WallClockIsNext
  <2> SUFFICES ASSUME SessionInv, NEW clock \in 0..config.zone.day - 1
               PROVE  LET zone == config.zone
                          instant == NextWallClock(zone, clock, Unit * now)
                          Shows(u) == Reading(zone, u) % Day(zone) = Unit * clock
                          instants == {Unit * i : i \in now + 1 .. now + 2 * zone.day + 2}
                      IN /\ instant > Unit * now \/ (ShownAgain(zone, instant) /\ zone.change <= now)
                         /\ Shows(instant) \/ Skipped(zone, instant)
                         /\ \A u \in instants : Shows(u) /\ u < instant => Fold(zone, u) = 1 /\ Fold(zone, Unit * now) = 0
    BY DEF WallClockIsNext
  <2> DEFINE zone == config.zone
             x == Unit * zone.change
             b == Unit * zone.before
             a == Unit * zone.after
             d == Day(zone)
             c == Unit * clock
             t == Unit * now
             r == Reading(zone, t)
             m == r - (r % d)
             next == NextWallClock(zone, clock, t)
  <2>1. zone \in Zones /\ now \in Int /\ clock \in Int /\ zone.day \in Int
    BY SessionAssumption DEF SessionInv, Zones
  <2>2. d \in Nat \ {0} /\ t \in Int /\ c \in 0..d - 1
    <3>1. d \in Nat \ {0}
      BY <2>1, DayFacts
    <3>2. t \in Int /\ c \in Int
      BY <2>1, Scaled
    <3>3. 0 <= clock /\ clock < zone.day /\ Unit * 0 = 0
      BY <2>1, UnitFacts
    <3>4. 0 <= c
      <4>1. Unit * 0 <= Unit * clock
        BY <2>1, <3>3, Distribute
      <4>2. QED
        BY <3>3, <4>1
    <3>6. c < d
      <4>1. Unit * clock < Unit * zone.day
        BY <2>1, <3>3, Distribute
      <4>2. QED
        BY <4>1 DEF Day
    <3>5. QED
      BY <3>1, <3>2, <3>4, <3>6
  <2>3. /\ x \in Int /\ b \in Int /\ a \in Int /\ a - b <= d
        /\ Unit * (zone.after - zone.before) = a - b
        /\ Unit * (zone.before - zone.after) = b - a
        /\ \A u \in Int : Reading(zone, u) = u + Ahead(x, b, a, u) /\ Fold(zone, u) = Again(x, b, a, u)
        /\ \A reading, fold : Timestamp(zone, reading, fold) = Instants(x, b, a, reading, fold)
    BY <2>1, ZoneFacts
  <2>4. r \in Int /\ r = t + Ahead(x, b, a, t)
    BY <2>2, <2>3 DEF Ahead
  <2>5. next = NextTime(x, b, a, m + c, d, t)
    BY <2>2, <2>3 DEF NextWallClock, Midnight, NextTime
  <2>6. x - (b - a) <= next /\ next < x /\ x <= t => ShownAgain(zone, next) /\ zone.change <= now
    <3>1. x <= t => zone.change <= now
      BY <2>1, Distribute DEF Zones
    <3>2. QED
      BY <2>3, <3>1 DEF ShownAgain
  <2>7. x <= next /\ next < x + (a - b) => Skipped(zone, next)
    BY <2>3 DEF Skipped
  <2>8. \A u \in Int : Reading(zone, u) \in Int
    BY <2>3 DEF Ahead
  <2>9. ASSUME NEW i \in now + 1 .. now + 2 * zone.day + 2 PROVE Unit * i \in Int /\ t < Unit * i
    BY <2>1, Distribute
  <2> HIDE DEF zone, x, b, a, d, c, t, r, m, next
  <2>10. /\ m \in Int /\ m <= r /\ r < m + d
         /\ (m + c) % d = c /\ (m + c + d) % d = c
    BY <2>2, <2>4, MidnightFacts DEF m
  <2>11. IsNextTime(x, b, a, m + c, d, t, next)
    <3>1. /\ d \in Int /\ c \in Int /\ 0 <= c /\ c < d
          /\ m <= t + Ahead(x, b, a, t) /\ t + Ahead(x, b, a, t) < m + d
      BY <2>2, <2>4, <2>10
    <3>2. QED
      BY <2>2, <2>3, <2>5, <2>10, <3>1, NextInstant
  <2>12. next > t \/ (ShownAgain(zone, next) /\ zone.change <= now)
    BY <2>6, <2>11 DEF IsNextTime
  <2>13. Reading(zone, next) % d = c \/ Skipped(zone, next)
    <3>1. next \in Int /\ Reading(zone, next) = next + Ahead(x, b, a, next)
      BY <2>3, <2>11 DEF IsNextTime
    <3>2. Reading(zone, next) \in {m + c, m + c + d} \/ (x <= next /\ next < x + (a - b))
      BY <2>11, <3>1 DEF IsNextTime
    <3>3. QED
      BY <2>7, <2>10, <3>2
  <2>14. ASSUME NEW u \in Int, t < u, u < next, Reading(zone, u) % d = c
         PROVE  Fold(zone, u) = 1 /\ Fold(zone, t) = 0
    <3> DEFINE shown == Reading(zone, u)
    <3>1. shown \in Int /\ shown = u + Ahead(x, b, a, u)
      BY <2>3, <2>8
    <3>2. m + c \in Int /\ m + c + d \in Int /\ shown % d = (m + c) % d /\ shown % d = (m + c + d) % d
      BY <2>2, <2>10, <2>14
    <3> HIDE DEF shown
    <3>3. m + c < shown => m + c + d <= shown
      BY <2>2, <3>1, <3>2, DaysApart
    <3>4. shown < m + c => shown + d <= m + c
      BY <2>2, <3>1, <3>2, DaysApart
    <3>5. m + c + d < shown => m + c + d + d <= shown
      BY <2>2, <3>1, <3>2, DaysApart
    <3>6. OnTheDay(shown, m + c, d)
      BY <2>2, <2>10, <3>1, <3>3, <3>4, <3>5 DEF OnTheDay
    <3>7. Again(x, b, a, u) = 1 /\ Again(x, b, a, t) = 0
      BY <2>11, <2>14, <3>1, <3>6 DEF IsNextTime
    <3>8. QED
      BY <2>2, <2>3, <3>7
  <2>15. \A i \in now + 1 .. now + 2 * zone.day + 2 :
           Reading(zone, Unit * i) % d = c /\ Unit * i < next => Fold(zone, Unit * i) = 1 /\ Fold(zone, t) = 0
    BY <2>9, <2>14
  <2>16. QED
    BY <2>12, <2>13, <2>15 DEF zone, d, c, t, next
<1>2. QED
  BY <1>1, Invariant, PTL

-----------------------------------------------------------------------------
(* What the events tell *)

\* The events of messages, and of them those of a stream about some topics.
Read(msgs) == [i \in DOMAIN msgs |-> EventFromMsg(msgs[i])]
Kind(stream) == IF stream = "pause" THEN "pause" ELSE "subscription"
Opening(stream) == IF stream = "pause" THEN "paused" ELSE "subscribed"
Closing(stream) == IF stream = "pause" THEN "resumed" ELSE "unsubscribed"
About(msgs, stream, topics) == {e \in Range(Read(msgs)) : e.kind = Kind(stream) /\ e.topic \in topics}
Loop(msgs, stream, topics) == WindowsSoFar(Read(msgs), About(msgs, stream, topics), Opening(stream), Closing(stream))
Followed == {"pause", "subscription_change"}
Concerns(msg, stream, topics) == msg.stream = stream /\ msg.topic \in topics

LEMMA EventFacts ==
  ASSUME NEW msg \in EventMsgs, NEW stream \in Followed
  PROVE  /\ EventFromMsg(msg).stamp = msg.stamp /\ EventFromMsg(msg).topic = msg.topic
         /\ EventFromMsg(msg).kind = Kind(stream) <=> msg.stream = stream
         /\ msg.stream = stream =>
              /\ EventFromMsg(msg).action = Opening(stream) <=> msg.action = 0
              /\ EventFromMsg(msg).action = Closing(stream) <=> msg.action = 1
         /\ Opening(stream) # Closing(stream)
<1>1. msg.stream \in {"subscription_change", "pause", "file_split", "low_disk", "bag_size_limit"}
  BY DEF EventMsgs, EventStreams
<1>2. msg.action \in {0, 1}
  BY DEF EventMsgs
<1>3. EventFromMsg(msg).stamp = msg.stamp /\ EventFromMsg(msg).topic = msg.topic
  BY DEF EventFromMsg
<1>4. EventFromMsg(msg).kind = Kind(stream) <=> msg.stream = stream
  BY <1>1 DEF EventFromMsg, EventStreams, Kind, Followed
<1>5. msg.stream = stream =>
        /\ EventFromMsg(msg).action = Opening(stream) <=> msg.action = 0
        /\ EventFromMsg(msg).action = Closing(stream) <=> msg.action = 1
  <2>1. CASE stream = "pause" /\ msg.stream = stream
    BY <1>2, <2>1 DEF EventFromMsg, EventStreams, ActionName, PAUSE_ACTIONS, Opening, Closing
  <2>2. CASE stream = "subscription_change" /\ msg.stream = stream
    BY <1>2, <2>2 DEF EventFromMsg, EventStreams, ActionName, SUBSCRIPTION_ACTIONS, Opening, Closing
  <2>3. QED
    BY <2>1, <2>2 DEF Followed
<1>6. Opening(stream) # Closing(stream)
  BY DEF Opening, Closing
<1>7. QED
  BY <1>3, <1>4, <1>5, <1>6

Events == {EventFromMsg(msg) : msg \in EventMsgs}
LEMMA ToldFacts ==
  ASSUME NEW msgs \in Seq(EventMsgs)
  PROVE  /\ Read(msgs) \in Seq(Events) /\ Len(Read(msgs)) = Len(msgs)
         /\ \A i \in 1 .. Len(msgs) : Read(msgs)[i] = EventFromMsg(msgs[i]) /\ msgs[i] \in EventMsgs
         /\ \A e \in Events : e.stamp \in Int
         /\ InOrder(Read(msgs)) <=> InOrder(msgs)
         /\ \A i \in 1 .. Len(msgs), stream \in Followed : \A topics :
              Read(msgs)[i] \in About(msgs, stream, topics) <=> Concerns(msgs[i], stream, topics)
<1>1. DOMAIN msgs = 1 .. Len(msgs) /\ Len(msgs) \in Nat /\ \A i \in 1 .. Len(msgs) : msgs[i] \in EventMsgs
  OBVIOUS
<1>2. \A i \in 1 .. Len(msgs) : EventFromMsg(msgs[i]) \in Events
  BY <1>1 DEF Events
<1>3. Read(msgs) = [i \in 1 .. Len(msgs) |-> EventFromMsg(msgs[i])]
  BY <1>1 DEF Read
<1>4. Read(msgs) \in Seq(Events) /\ Len(Read(msgs)) = Len(msgs)
  BY <1>1, <1>2, <1>3
<1>5. \A i \in 1 .. Len(msgs) : Read(msgs)[i] = EventFromMsg(msgs[i]) /\ Read(msgs)[i].stamp = msgs[i].stamp
  BY <1>1, <1>3 DEF EventFromMsg
<1>6. \A e \in Events : e.stamp \in Int
  BY DEF Events, EventFromMsg, EventMsgs
<1>7. InOrder(Read(msgs)) <=> InOrder(msgs)
  BY <1>4, <1>5 DEF InOrder
<1>8. ASSUME NEW i \in 1 .. Len(msgs), NEW stream \in Followed, NEW topics
      PROVE  Read(msgs)[i] \in About(msgs, stream, topics) <=> Concerns(msgs[i], stream, topics)
  <2>1. Read(msgs)[i] \in Range(Read(msgs))
    BY <1>3 DEF Range
  <2>2. Read(msgs)[i] = EventFromMsg(msgs[i]) /\ msgs[i] \in EventMsgs
    BY <1>1, <1>5
  <2>3. /\ Read(msgs)[i].topic = msgs[i].topic
        /\ Read(msgs)[i].kind = Kind(stream) <=> msgs[i].stream = stream
    BY <2>2, EventFacts
  <2>4. QED
    BY <2>1, <2>3 DEF About, Concerns
<1>9. QED
  BY <1>1, <1>4, <1>5, <1>6, <1>7, <1>8

\* What one more message makes of the windows so far.
LEMMA LoopStep ==
  ASSUME NEW msgs \in Seq(EventMsgs), NEW msg \in EventMsgs, InOrder(Append(msgs, msg)),
         NEW stream \in Followed, NEW topics, NEW loop, loop = Loop(msgs, stream, topics)
  PROVE  Loop(Append(msgs, msg), stream, topics) =
           IF Concerns(msg, stream, topics) /\ msg.action = 0 /\ loop.opened = None
           THEN [loop EXCEPT !.opened = msg.stamp]
           ELSE IF Concerns(msg, stream, topics) /\ msg.action = 1 /\ loop.opened # None
           THEN [windows |-> loop.windows \cup {<<loop.opened, msg.stamp>>}, opened |-> None]
           ELSE loop
<1> DEFINE more == Append(msgs, msg)
           n == Len(msgs)
           e == EventFromMsg(msg)
           opening == Opening(stream)
           closing == Closing(stream)
           matching == About(msgs, stream, topics)
           matchingMore == About(more, stream, topics)
<1>1. more \in Seq(EventMsgs) /\ Len(more) = n + 1 /\ n \in Nat /\ (\A i \in 1 .. n : more[i] = msgs[i]) /\ more[n + 1] = msg
  BY AppendProperties
<1>2. Read(more) = Append(Read(msgs), e)
  <2>1. DOMAIN more = 1 .. n + 1 /\ DOMAIN msgs = 1 .. n
    BY <1>1
  <2>2. Read(more) = [i \in 1 .. n + 1 |-> EventFromMsg(more[i])]
    BY <2>1 DEF Read
  <2>3. /\ Read(msgs) \in Seq(Events) /\ Len(Read(msgs)) = n /\ e \in Events
        /\ \A i \in 1 .. n : Read(msgs)[i] = EventFromMsg(msgs[i])
    BY ToldFacts DEF Events
  <2>4. /\ Read(more) \in Seq(Events) /\ Len(Read(more)) = n + 1
        /\ \A i \in 1 .. n + 1 : Read(more)[i] = EventFromMsg(more[i])
    BY <1>1, ToldFacts
  <2> HIDE DEF more, e
  <2>5. /\ Append(Read(msgs), e) \in Seq(Events) /\ Len(Append(Read(msgs), e)) = n + 1
        /\ \A i \in 1 .. n : Append(Read(msgs), e)[i] = Read(msgs)[i]
        /\ Append(Read(msgs), e)[n + 1] = e
    BY <2>3, AppendProperties
  <2>6. \A i \in 1 .. n + 1 : Read(more)[i] = Append(Read(msgs), e)[i]
    <3>1. Read(more)[n + 1] = e
      BY <1>1, <2>4 DEF e
    <3>2. \A i \in 1 .. n : Read(more)[i] = Read(msgs)[i]
      BY <1>1, <2>3, <2>4
    <3>3. \A i \in 1 .. n + 1 : i \in 1 .. n \/ i = n + 1
      BY <1>1
    <3>4. QED
      BY <2>5, <3>1, <3>2, <3>3
  <2>7. QED
    BY <2>4, <2>5, <2>6, SeqEqual
<1>3. \A i \in 1 .. n : Read(msgs)[i] \in matchingMore <=> Read(msgs)[i] \in matching
  <2>1. ASSUME NEW i \in 1 .. n PROVE Read(msgs)[i] \in matchingMore <=> Read(msgs)[i] \in matching
    <3>1. Read(msgs)[i] \in matching <=> Concerns(msgs[i], stream, topics)
      BY ToldFacts
    <3>2. i \in 1 .. Len(more) /\ more[i] = msgs[i]
      BY <1>1
    <3>3. Read(more)[i] \in matchingMore <=> Concerns(msgs[i], stream, topics)
      BY <1>1, <3>2, ToldFacts
    <3>4. Read(more)[i] = EventFromMsg(msgs[i]) /\ Read(msgs)[i] = EventFromMsg(msgs[i])
      BY <1>1, <3>2, ToldFacts
    <3>5. QED
      BY <3>1, <3>3, <3>4
  <2>2. QED
    BY <2>1
<1>4. e \in matchingMore <=> Concerns(msg, stream, topics)
  <2>1. n + 1 \in 1 .. Len(more)
    BY <1>1
  <2>2. Read(more)[n + 1] = e /\ (Read(more)[n + 1] \in matchingMore <=> Concerns(msg, stream, topics))
    BY <1>1, <2>1, ToldFacts
  <2>3. QED
    BY <2>2
<1>5. /\ e.stamp = msg.stamp
      /\ msg.stream = stream => /\ e.action = opening <=> msg.action = 0
                                /\ e.action = closing <=> msg.action = 1
  BY EventFacts
<1>6. /\ Read(msgs) \in Seq(Events) /\ Len(Read(msgs)) = n /\ e \in Events
      /\ InOrder(Append(Read(msgs), e)) /\ \A f \in Events : f.stamp \in Int
  <2>1. InOrder(Read(more))
    BY <1>1, ToldFacts
  <2>2. QED
    BY <1>2, <2>1, ToldFacts DEF Events
<1> HIDE DEF more, e, matching, matchingMore, opening, closing
<1>7. WindowsSoFar(Append(Read(msgs), e), matchingMore, opening, closing) =
        StepIf(WindowsSoFar(Read(msgs), matching, opening, closing), e, matchingMore, opening, closing)
  BY <1>3, <1>6, OneMoreEvent
<1>8. Loop(more, stream, topics) = StepIf(loop, e, matchingMore, opening, closing)
  BY <1>2, <1>7 DEF Loop, matching, matchingMore, opening, closing
<1>9. CASE ~Concerns(msg, stream, topics)
  BY <1>4, <1>8, <1>9 DEF StepIf, more
<1>10. CASE Concerns(msg, stream, topics)
  <2>1. Loop(more, stream, topics) = WindowStep(loop, e, opening, closing)
    BY <1>4, <1>8, <1>10 DEF StepIf
  <2>2. (e.action = opening <=> msg.action = 0) /\ (e.action = closing <=> msg.action = 1)
    BY <1>5, <1>10 DEF Concerns
  <2>3. QED
    BY <1>5, <1>10, <2>1, <2>2 DEF WindowStep, more
<1>11. QED
  BY <1>9, <1>10

\* The windows the events tell of so far, with the one that is open still, are the
\* seconds something really was on, up to some moment.
TracksBy(loop, msgs, seconds, until) ==
  /\ loop \in States
  /\ \A i \in Int : i \in seconds <=>
       \/ i \in Inside(loop.windows)
       \/ loop.opened # None /\ loop.opened <= i /\ i < until
  /\ \A w \in loop.windows : \E k \in 1 .. Len(msgs) : w[2] = msgs[k].stamp
  /\ loop.opened # None => loop.opened <= until
Tracks(msgs, stream, topics, seconds, until) == TracksBy(Loop(msgs, stream, topics), msgs, seconds, until)
Opened(msgs, stream, topics) == Loop(msgs, stream, topics).opened # None

\* One more event: it opens, closes, or changes nothing, and no second is gained
\* or lost at the moment it tells of.
LEMMA TracksMore ==
  ASSUME NEW msgs \in Seq(EventMsgs), NEW msg \in EventMsgs, InOrder(Append(msgs, msg)),
         NEW stream \in Followed, NEW topics, NEW seconds, NEW until \in Int, msg.stamp = until,
         Tracks(msgs, stream, topics, seconds, until)
  PROVE  /\ Tracks(Append(msgs, msg), stream, topics, seconds, until)
         /\ Opened(Append(msgs, msg), stream, topics) <=>
              IF Concerns(msg, stream, topics) THEN msg.action = 0 ELSE Opened(msgs, stream, topics)
<1> DEFINE more == Append(msgs, msg)
           loop == Loop(msgs, stream, topics)
           next == Loop(more, stream, topics)
<1>1. /\ Len(more) = Len(msgs) + 1 /\ Len(msgs) \in Nat
      /\ \A i \in 1 .. Len(msgs) : more[i] = msgs[i]
      /\ more[Len(msgs) + 1] = msg
  BY AppendProperties
<1>2. TracksBy(loop, msgs, seconds, until)
  BY DEF Tracks
<1>3. msg.action \in {0, 1} /\ until # None
  BY BagReportAssumption DEF EventMsgs
<1>4. next = IF Concerns(msg, stream, topics) /\ msg.action = 0 /\ loop.opened = None
             THEN [loop EXCEPT !.opened = msg.stamp]
             ELSE IF Concerns(msg, stream, topics) /\ msg.action = 1 /\ loop.opened # None
             THEN [windows |-> loop.windows \cup {<<loop.opened, msg.stamp>>}, opened |-> None]
             ELSE loop
  BY LoopStep
<1> HIDE DEF more, loop, next
<1>5. /\ loop = [windows |-> loop.windows, opened |-> loop.opened]
      /\ IsFiniteSet(loop.windows) /\ loop.windows \in SUBSET (Int \X Int) /\ loop.opened \in Int \cup {None}
  BY <1>2 DEF TracksBy, States
<1>6. \A w \in loop.windows : \E k \in 1 .. Len(more) : w[2] = more[k].stamp
  <2>1. ASSUME NEW w \in loop.windows PROVE \E k \in 1 .. Len(more) : w[2] = more[k].stamp
    <3>1. PICK k \in 1 .. Len(msgs) : w[2] = msgs[k].stamp
      BY <1>2 DEF TracksBy
    <3>2. k \in 1 .. Len(more) /\ more[k] = msgs[k]
      BY <1>1
    <3>3. QED
      BY <3>1, <3>2
  <2>2. QED
    BY <2>1
<1>7. CASE next = loop /\ (Concerns(msg, stream, topics) => (loop.opened # None <=> msg.action = 0))
  BY <1>2, <1>6, <1>7 DEF TracksBy, Tracks, Opened, more, loop, next
<1>8. CASE Concerns(msg, stream, topics) /\ msg.action = 0 /\ loop.opened = None
  <2>1. next.windows = loop.windows /\ next.opened = until /\ next \in States
    BY <1>4, <1>5, <1>8 DEF States
  <2>2. TracksBy(next, more, seconds, until)
    BY <1>2, <1>3, <1>6, <1>8, <2>1 DEF TracksBy
  <2>3. QED
    BY <1>3, <1>8, <2>1, <2>2 DEF Tracks, Opened, more, next
<1>9. CASE Concerns(msg, stream, topics) /\ msg.action = 1 /\ loop.opened # None
  <2> DEFINE w == <<loop.opened, until>>
  <2>1. next.windows = loop.windows \cup {w} /\ next.opened = None
    BY <1>4, <1>9
  <2>2. w \in Int \X Int /\ w[1] = loop.opened /\ w[2] = until
    BY <1>5, <1>9
  <2>3. next \in States
    <3>1. next = [windows |-> loop.windows \cup {w}, opened |-> None]
      BY <1>4, <1>9
    <3>2. IsFiniteSet(loop.windows \cup {w})
      BY <1>5, FS_AddElement
    <3>3. QED
      BY <1>5, <2>2, <3>1, <3>2 DEF States
  <2> HIDE DEF w
  <2>4. \A i \in Int : i \in Inside(next.windows) <=> i \in Inside(loop.windows) \/ (loop.opened <= i /\ i < until)
    BY <2>1, <2>2 DEF Inside, In
  <2>5. \A v \in next.windows : \E k \in 1 .. Len(more) : v[2] = more[k].stamp
    <3>1. w[2] = more[Len(msgs) + 1].stamp /\ Len(msgs) + 1 \in 1 .. Len(more)
      BY <1>1, <2>2
    <3>2. QED
      BY <1>6, <2>1, <3>1
  <2>6. TracksBy(next, more, seconds, until)
    BY <1>2, <1>9, <2>1, <2>3, <2>4, <2>5 DEF TracksBy
  <2>7. QED
    BY <1>9, <2>1, <2>6 DEF Tracks, Opened, more, next
<1>10. QED
  <2>1. CASE Concerns(msg, stream, topics)
    BY <1>3, <1>4, <1>7, <1>8, <1>9, <2>1
  <2>2. CASE ~Concerns(msg, stream, topics)
    BY <1>4, <1>7, <2>2
  <2>3. QED
    BY <2>1, <2>2

\* One more second, if it is on.
LEMMA TracksTime ==
  ASSUME NEW msgs, NEW stream, NEW topics, NEW seconds, NEW until \in Int,
         Tracks(msgs, stream, topics, seconds, until),
         NEW on, on <=> Opened(msgs, stream, topics), NEW more, more = seconds \cup IF on THEN {until} ELSE {}
  PROVE  Tracks(msgs, stream, topics, more, until + 1)
<1> DEFINE loop == Loop(msgs, stream, topics)
<1>1. TracksBy(loop, msgs, seconds, until)
  BY DEF Tracks
<1>2. Opened(msgs, stream, topics) <=> loop.opened # None
  BY DEF Opened
<1> HIDE DEF loop
<1>3. loop.opened \in Int \cup {None}
  BY <1>1 DEF TracksBy, States
<1>4. ASSUME NEW i \in Int
      PROVE  i \in more <=> \/ i \in Inside(loop.windows)
                            \/ loop.opened # None /\ loop.opened <= i /\ i < until + 1
  <2>1. i \in seconds <=> i \in Inside(loop.windows) \/ (loop.opened # None /\ loop.opened <= i /\ i < until)
    BY <1>1 DEF TracksBy
  <2>2. i \in more <=> i \in seconds \/ (loop.opened # None /\ i = until)
    BY <1>2
  <2>3. loop.opened # None => loop.opened <= until
    BY <1>1 DEF TracksBy
  <2>4. QED
    BY <1>3, <2>1, <2>2, <2>3
<1>5. loop.opened # None => loop.opened <= until + 1
  BY <1>1, <1>3 DEF TracksBy
<1>6. TracksBy(loop, msgs, more, until + 1)
  BY <1>1, <1>4, <1>5 DEF TracksBy
<1>7. QED
  BY <1>6 DEF Tracks, loop

\* The windows of a report whose end is no earlier than any event.
LEMMA TrackedWindows ==
  ASSUME NEW msgs \in Seq(EventMsgs), InOrder(msgs), NEW stream, NEW topics, NEW seconds,
         NEW until \in Int, Tracks(msgs, stream, topics, seconds, until),
         NEW end \in Int, end <= until, \A k \in 1 .. Len(msgs) : msgs[k].stamp <= end,
         NEW W, W = EventWindows(Read(msgs), About(msgs, stream, topics), Opening(stream), Closing(stream), end)
  PROVE  /\ AreReal(W)
         /\ \A i \in Int : i \in Inside(W) <=> i \in seconds /\ i < end
<1> DEFINE loop == Loop(msgs, stream, topics)
<1>1. TracksBy(loop, msgs, seconds, until)
  BY DEF Tracks
<1>2. loop = WindowsSoFar(Read(msgs), About(msgs, stream, topics), Opening(stream), Closing(stream))
  BY DEF Loop
<1> HIDE DEF loop
<1>3. loop \in States
  BY <1>1 DEF TracksBy
<1>4. /\ AreReal(W)
      /\ \A i \in Int : i \in Inside(W) <=>
           \/ i \in Inside(loop.windows)
           \/ loop.opened # None /\ loop.opened <= i /\ i < end
  BY <1>2, <1>3, EventWindowsInside
<1>5. \A i \in Inside(loop.windows) : i < end
  <2>1. ASSUME NEW i \in Inside(loop.windows) PROVE i < end
    <3>1. PICK w \in loop.windows : i \in Int /\ w[1] <= i /\ i < w[2]
      BY <2>1 DEF Inside, In
    <3>2. PICK k \in 1 .. Len(msgs) : w[2] = msgs[k].stamp
      BY <1>1 DEF TracksBy
    <3>3. w[2] \in Int /\ w[2] <= end
      BY <1>3, <3>2 DEF States
    <3>4. QED
      BY <3>1, <3>3
  <2>2. QED
    BY <2>1
<1>6. ASSUME NEW i \in Int PROVE i \in Inside(W) <=> i \in seconds /\ i < end
  <2>1. i \in seconds <=> i \in Inside(loop.windows) \/ (loop.opened # None /\ loop.opened <= i /\ i < until)
    BY <1>1 DEF TracksBy
  <2>2. loop.opened \in Int \cup {None}
    BY <1>3 DEF States
  <2>3. i < end => i < until
    OBVIOUS
  <2>4. QED
    BY <1>4, <1>5, <2>1, <2>2, <2>3
<1>7. QED
  BY <1>4, <1>6

\* A report has no windows of what nothing in the bag tells of.
LEMMA NothingTold ==
  ASSUME NEW msgs \in Seq(EventMsgs), InOrder(msgs), NEW stream \in Followed, NEW topics,
         \A k \in 1 .. Len(msgs) : ~Concerns(msgs[k], stream, topics),
         NEW end \in Int,
         NEW W, W = EventWindows(Read(msgs), About(msgs, stream, topics), Opening(stream), Closing(stream), end)
  PROVE  W = {}
<1> DEFINE loop == Loop(msgs, stream, topics)
<1>1. /\ Read(msgs) \in Seq(Events) /\ InOrder(Read(msgs)) /\ Len(Read(msgs)) = Len(msgs)
      /\ \A e \in Events : e.stamp \in Int
      /\ \A i \in 1 .. Len(Read(msgs)) : Read(msgs)[i] \notin About(msgs, stream, topics)
  BY ToldFacts
<1>2. Opening(stream) # Closing(stream)
  BY DEF Opening, Closing
<1>3. loop = WindowsSoFar(Read(msgs), About(msgs, stream, topics), Opening(stream), Closing(stream))
  BY DEF Loop
<1>4. loop = [windows |-> {}, opened |-> None]
  BY <1>1, <1>2, <1>3, OnlyOpened
<1> HIDE DEF loop
<1>5. loop \in States
  BY <1>4, FS_EmptySet DEF States
<1>6. /\ AreReal(W)
      /\ \A i \in Int : i \in Inside(W) <=>
           \/ i \in Inside(loop.windows)
           \/ loop.opened # None /\ loop.opened <= i /\ i < end
  BY <1>3, <1>5, EventWindowsInside
<1>7. \A i \in Int : i \notin Inside(W)
  BY <1>4, <1>6 DEF Inside
<1>8. ASSUME NEW w \in W PROVE FALSE
  <2>1. w[1] \in Int /\ w[1] < w[2] /\ w[2] \in Int
    BY <1>6 DEF AreReal, AreWindows
  <2>2. w[1] \in Inside(W)
    BY <2>1 DEF Inside, In
  <2>3. QED
    BY <1>7, <2>1, <2>2
<1>9. QED
  BY <1>8

\* What start() tells of is on from the start.
LEMMA TracksStart ==
  ASSUME NEW msgs \in Seq(EventMsgs), NEW stream \in Followed, NEW topics,
         \A k \in 1 .. Len(msgs) : msgs[k].stamp = 0 /\ msgs[k].action = 0
  PROVE  /\ Tracks(msgs, stream, topics, {}, 0)
         /\ Opened(msgs, stream, topics) <=> \E k \in 1 .. Len(msgs) : Concerns(msgs[k], stream, topics)
<1> DEFINE loop == Loop(msgs, stream, topics)
           matching == About(msgs, stream, topics)
           some == \E i \in 1 .. Len(Read(msgs)) : Read(msgs)[i] \in matching
<1>1. /\ Read(msgs) \in Seq(Events) /\ Len(Read(msgs)) = Len(msgs)
      /\ \A e \in Events : e.stamp \in Int
      /\ \A i \in 1 .. Len(msgs) : Read(msgs)[i] = EventFromMsg(msgs[i]) /\ msgs[i] \in EventMsgs
      /\ \A i \in 1 .. Len(msgs) : Read(msgs)[i] \in matching <=> Concerns(msgs[i], stream, topics)
  BY ToldFacts
<1>2. InOrder(Read(msgs))
  <2>1. InOrder(msgs)
    BY DEF InOrder
  <2>2. QED
    BY <2>1, ToldFacts
<1>3. Opening(stream) # Closing(stream)
  BY DEF Opening, Closing
<1>4. ASSUME NEW i \in 1 .. Len(Read(msgs)), Read(msgs)[i] \in matching
      PROVE  Read(msgs)[i].stamp = 0 /\ Read(msgs)[i].action = Opening(stream)
  <2>1. msgs[i].stream = stream /\ msgs[i].stamp = 0 /\ msgs[i].action = 0
    BY <1>1, <1>4 DEF Concerns
  <2>2. msgs[i] \in EventMsgs /\ Read(msgs)[i] = EventFromMsg(msgs[i])
    BY <1>1
  <2>3. QED
    BY <2>1, <2>2, EventFacts
<1>5. loop = [windows |-> {}, opened |-> IF some THEN 0 ELSE None]
  <2>1. loop = WindowsSoFar(Read(msgs), matching, Opening(stream), Closing(stream))
    BY DEF Loop
  <2> HIDE DEF loop, matching
  <2>2. QED
    BY <1>1, <1>2, <1>3, <1>4, <2>1, OnlyOpened
<1>6. some <=> \E k \in 1 .. Len(msgs) : Concerns(msgs[k], stream, topics)
  BY <1>1
<1> HIDE DEF loop, some
<1>7. 0 # None /\ loop \in States
  BY <1>5, FS_EmptySet, BagReportAssumption DEF States
<1>8. loop.windows = {} /\ Inside({}) = {} /\ (loop.opened # None => some /\ loop.opened = 0)
  BY <1>5 DEF Inside
<1>9. TracksBy(loop, msgs, {}, 0)
  BY <1>7, <1>8 DEF TracksBy
<1>10. QED
  BY <1>5, <1>6, <1>7, <1>9 DEF Tracks, Opened, loop

-----------------------------------------------------------------------------
(* What the bag tells of the recording *)

\* Of a stream that is recorded the events tell when something was on, and there
\* is nothing of one that is not.
Follows(recorded, msgs, stream, topics, seconds, until) ==
  IF recorded THEN Tracks(msgs, stream, topics, seconds, until)
  ELSE \A k \in 1 .. Len(msgs) : ~Concerns(msgs[k], stream, topics)
Agrees(recorded, msgs, stream, topics, on) == recorded => (Opened(msgs, stream, topics) <=> on)
Anything == Topics \cup {None}

EventsSoFar(msgs, until) == InOrder(msgs) /\ \A k \in 1 .. Len(msgs) : msgs[k].stamp <= until
StampsSoFar ==
  \A t \in Topics : /\ inflight[t] # None => inflight[t] <= now
                    /\ \A k \in 1 .. Len(bag.stamps[t]) : bag.stamps[t][k] <= now
TruthTyped ==
  truth \in [subscribed : [Topics -> SUBSET (0..MaxTime)], paused : SUBSET (0..MaxTime), crossed : BOOLEAN]
\* The changes not told yet undo each other in turn, the last is what the flag says,
\* and the bag is where the first of them began.
Alternates ==
  \A i \in 1 .. Len(untold) :
    untold[i].action = 0 <=> IF i < Len(untold) THEN untold[i + 1].action = 1 ELSE paused
Telling == IF untold = <<>> THEN paused ELSE untold[1].action = 1
PausesFollowed ==
  ~truth.crossed =>
    /\ Follows(config.pauses, bag.events, "pause", Anything, truth.paused, now)
    /\ recording => Agrees(config.pauses, bag.events, "pause", Anything, Telling)
    /\ Alternates
SubscriptionsFollowed ==
  \A t \in Topics :
    /\ Follows(config.subscriptions, bag.events, "subscription_change", {t}, truth.subscribed[t], now)
    /\ recording => Agrees(config.subscriptions, bag.events, "subscription_change", {t}, t \in subscribed)
ReportInv ==
  /\ EventsSoFar(bag.events, now) /\ StampsSoFar /\ TruthTyped
  /\ PausesFollowed /\ SubscriptionsFollowed

\* One more event, if it is recorded.
LEMMA FollowsMore ==
  ASSUME NEW msgs \in Seq(EventMsgs), NEW msg \in EventMsgs, NEW until \in Int, msg.stamp = until,
         EventsSoFar(msgs, until),
         NEW stream \in Followed, NEW topics, NEW seconds, NEW recorded,
         Concerns(msg, stream, topics) => recorded,
         Follows(recorded, msgs, stream, topics, seconds, until),
         NEW before \in BOOLEAN, NEW after \in BOOLEAN,
         Concerns(msg, stream, topics) => (after <=> msg.action = 0),
         ~Concerns(msg, stream, topics) => (after <=> before)
  PROVE  /\ Follows(recorded, Append(msgs, msg), stream, topics, seconds, until)
         /\ Agrees(recorded, msgs, stream, topics, before) => Agrees(recorded, Append(msgs, msg), stream, topics, after)
<1> DEFINE more == Append(msgs, msg)
<1>1. /\ Len(more) = Len(msgs) + 1 /\ Len(msgs) \in Nat
      /\ \A i \in 1 .. Len(msgs) : more[i] = msgs[i]
      /\ more[Len(msgs) + 1] = msg
  BY AppendProperties
<1>2. InOrder(more)
  <2> HIDE DEF more
  <2>1. \A i \in 1 .. Len(msgs) : msgs[i].stamp \in Int /\ msgs[i].stamp <= until
    <3>1. \A i \in 1 .. Len(msgs) : msgs[i] \in EventMsgs
      OBVIOUS
    <3>2. QED
      BY <3>1 DEF EventsSoFar, EventMsgs
  <2>2. QED
    BY <1>1, <2>1 DEF EventsSoFar, InOrder
<1>3. CASE recorded
  <2>1. Tracks(msgs, stream, topics, seconds, until)
    BY <1>3 DEF Follows
  <2>2. /\ Tracks(more, stream, topics, seconds, until)
        /\ Opened(more, stream, topics) <=>
              IF Concerns(msg, stream, topics) THEN msg.action = 0 ELSE Opened(msgs, stream, topics)
    BY <1>2, <2>1, TracksMore
  <2> HIDE DEF more
  <2>3. QED
    BY <1>3, <2>2 DEF Follows, Agrees, more
<1>4. CASE ~recorded
  <2>1. \A k \in 1 .. Len(msgs) : ~Concerns(msgs[k], stream, topics)
    BY <1>4 DEF Follows
  <2> HIDE DEF more
  <2>2. \A k \in 1 .. Len(more) : ~Concerns(more[k], stream, topics)
    BY <1>1, <1>4, <2>1
  <2>3. QED
    BY <1>4, <2>2 DEF Follows, Agrees, more
<1>5. QED
  BY <1>3, <1>4

\* What start() says: each of it is on at the start.
LEMMA SaidAll ==
  ASSUME NEW recorded \in BOOLEAN, NEW stream \in DOMAIN EventStreams, NEW about \in Seq(Topics \cup {None})
  PROVE  /\ Said(recorded, stream, about) \in Seq(EventMsgs)
         /\ Len(Said(recorded, stream, about)) = IF recorded THEN Len(about) ELSE 0
         /\ \A k \in 1 .. Len(Said(recorded, stream, about)) :
              LET msg == Said(recorded, stream, about)[k] IN
              msg.stream = stream /\ msg.action = 0 /\ msg.stamp = 0 /\ msg.topic = about[k]
<1> DEFINE said == Said(recorded, stream, about)
           n == Len(about)
<1>1. said \in Seq(EventMsgs) /\ n \in Nat
  BY SaidTyped, LenProperties
<1>2. recorded => said = [i \in 1 .. n |-> [stream |-> stream, action |-> 0, topic |-> about[i], stamp |-> 0]]
  BY LenProperties DEF Said
<1>3. ~recorded => said = <<>>
  BY DEF Said
<1> HIDE DEF said, n
<1>4. Len(said) = IF recorded THEN n ELSE 0
  <2>1. Len(said) \in Nat /\ DOMAIN said = 1 .. Len(said)
    BY <1>1, LenProperties
  <2>2. recorded => Len(said) = n
    <3> SUFFICES ASSUME recorded PROVE Len(said) = n
      OBVIOUS
    <3> DEFINE m == Len(said)
    <3>1. DOMAIN said = 1 .. n
      BY <1>2
    <3>2. m \in Nat /\ 1 .. n = 1 .. m
      BY <2>1, <3>1
    <3> HIDE DEF m
    <3>3. QED
      <4>1. n \in 1 .. n <=> n \in 1 .. m
        BY <3>2
      <4>2. m \in 1 .. n <=> m \in 1 .. m
        BY <3>2
      <4>3. n = m
        BY <1>1, <3>2, <4>1, <4>2
      <4>4. QED
        BY <4>3 DEF m
  <2>3. ~recorded => Len(said) = 0
    BY <1>3
  <2>4. QED
    BY <2>2, <2>3
<1>5. ASSUME NEW k \in 1 .. Len(said)
      PROVE  said[k].stream = stream /\ said[k].action = 0 /\ said[k].stamp = 0 /\ said[k].topic = about[k]
  <2>1. recorded /\ k \in 1 .. n
    BY <1>4
  <2>2. said[k] = [stream |-> stream, action |-> 0, topic |-> about[k], stamp |-> 0]
    BY <1>2, <2>1
  <2>3. QED
    BY <2>2
<1>6. QED
  BY <1>1, <1>4, <1>5 DEF said, n

\* Two sequences one after the other.
IsBoth(both, s, t) ==
  /\ \A k \in 1 .. Len(both) :
       (k \in 1 .. Len(s) /\ both[k] = s[k]) \/ \E j \in 1 .. Len(t) : both[k] = t[j]
  /\ \A k \in 1 .. Len(s) : k \in 1 .. Len(both) /\ both[k] = s[k]
  /\ \A j \in 1 .. Len(t) : \E k \in 1 .. Len(both) : both[k] = t[j]
LEMMA Together ==
  ASSUME NEW E, NEW s \in Seq(E), NEW t \in Seq(E)
  PROVE  s \o t \in Seq(E) /\ IsBoth(s \o t, s, t)
<1> DEFINE both == s \o t
<1>1. /\ both \in Seq(E) /\ Len(both) = Len(s) + Len(t) /\ Len(s) \in Nat /\ Len(t) \in Nat
      /\ \A k \in 1 .. Len(s) + Len(t) : both[k] = IF k <= Len(s) THEN s[k] ELSE t[k - Len(s)]
  BY ConcatProperties, LenProperties
<1> HIDE DEF both
<1>2. ASSUME NEW k \in 1 .. Len(both)
      PROVE  (k \in 1 .. Len(s) /\ both[k] = s[k]) \/ \E j \in 1 .. Len(t) : both[k] = t[j]
  <2>1. CASE k <= Len(s)
    BY <1>1, <2>1
  <2>2. CASE ~(k <= Len(s))
    <3>1. k - Len(s) \in 1 .. Len(t) /\ both[k] = t[k - Len(s)]
      BY <1>1, <2>2
    <3>2. QED
      BY <3>1
  <2>3. QED
    BY <2>1, <2>2
<1>3. \A k \in 1 .. Len(s) : k \in 1 .. Len(both) /\ both[k] = s[k]
  BY <1>1
<1>4. ASSUME NEW j \in 1 .. Len(t) PROVE \E k \in 1 .. Len(both) : both[k] = t[j]
  <2> DEFINE k == Len(s) + j
  <2>1. k \in 1 .. Len(s) + Len(t) /\ ~(k <= Len(s)) /\ k - Len(s) = j
    BY <1>1
  <2> HIDE DEF k
  <2>2. k \in 1 .. Len(both) /\ both[k] = t[j]
    BY <1>1, <2>1
  <2>3. QED
    BY <2>2
<1>5. QED
  BY <1>1, <1>2, <1>3, <1>4 DEF IsBoth, both

LEMMA ReportInit == Init => ReportInv
<1> SUFFICES ASSUME Init PROVE ReportInv
  OBVIOUS
<1>1. PICK order \in SetToSeqs(subscribed) :
        bag = [stamps |-> [t \in Topics |-> <<>>],
               events |-> Said(config.pauses /\ paused, "pause", <<None>>)
                            \o Said(config.subscriptions, "subscription_change", order)]
  BY DEF Init
<1>2. order \in Seq(Topics \cup {None}) /\ Range(order) = subscribed /\ DOMAIN order = 1 .. Len(order)
  <2>1. subscribed \subseteq Topics /\ IsFiniteSet(Topics)
    BY SessionAssumption DEF Init
  <2>2. IsFiniteSet(subscribed) /\ Cardinality(subscribed) \in Nat
    BY <2>1, FS_Subset, FS_CardinalityType
  <2> DEFINE D == 1 .. Cardinality(subscribed)
  <2>3. order \in [D -> subscribed] /\ \A i, j \in D : i # j => order[i] # order[j]
    BY <1>1 DEF SetToSeqs
  <2>4. order \in Seq(Topics \cup {None}) /\ Len(order) = Cardinality(subscribed) /\ DOMAIN order = 1 .. Len(order)
    BY <2>1, <2>2, <2>3
  <2>5. order \in Injection(D, subscribed)
    BY <2>3 DEF Injection, IsInjective
  <2>6. Cardinality(D) = Cardinality(subscribed)
    <3>1. Cardinality(1 .. Cardinality(subscribed)) =
            IF 1 > Cardinality(subscribed) THEN 0 ELSE Cardinality(subscribed) - 1 + 1
      BY <2>2, FS_Interval
    <3>2. QED
      BY <2>2, <3>1
  <2> HIDE DEF D
  <2>7. order \in Surjection(D, subscribed)
    BY <2>2, <2>5, <2>6, FS_Injection
  <2>8. \A t \in subscribed : \E i \in D : order[i] = t
    BY <2>7 DEF Surjection
  <2>9. QED
    BY <2>3, <2>4, <2>8 DEF Range
<1>3. <<None>> \in Seq(Topics \cup {None}) /\ Len(<<None>>) = 1
  OBVIOUS
<1> DEFINE first == Said(config.pauses /\ paused, "pause", <<None>>)
           second == Said(config.subscriptions, "subscription_change", order)
           msgs == bag.events
<1>4. config.pauses \in BOOLEAN /\ config.subscriptions \in BOOLEAN /\ paused \in BOOLEAN /\ (config.pauses /\ paused) \in BOOLEAN
  BY SessionAssumption DEF Init
<1>5. /\ first \in Seq(EventMsgs)
      /\ Len(first) = IF config.pauses /\ paused THEN 1 ELSE 0
      /\ \A k \in 1 .. Len(first) : /\ first[k].stream = "pause" /\ first[k].action = 0
                                     /\ first[k].stamp = 0 /\ first[k].topic \in Anything
  <2>1. /\ first \in Seq(EventMsgs)
        /\ Len(first) = IF config.pauses /\ paused THEN Len(<<None>>) ELSE 0
        /\ \A k \in 1 .. Len(first) : first[k].stream = "pause" /\ first[k].action = 0 /\ first[k].stamp = 0
    BY <1>3, <1>4, SaidAll, Streams
  <2> HIDE DEF first
  <2>2. first \in Seq(EventMsgs)
    BY <2>1
  <2>3. ASSUME NEW k \in 1 .. Len(first)
        PROVE  /\ first[k].stream = "pause" /\ first[k].action = 0
               /\ first[k].stamp = 0 /\ first[k].topic \in Anything
    <3>1. first[k] \in EventMsgs
      BY <2>2, ElementOfSeq
    <3>2. first[k].topic \in Anything
      BY <3>1 DEF EventMsgs, Anything
    <3>3. QED
      BY <2>1, <3>2
  <2>4. QED
    BY <1>3, <2>1, <2>3
<1>6. /\ second \in Seq(EventMsgs)
      /\ Len(second) = IF config.subscriptions THEN Len(order) ELSE 0
      /\ \A k \in 1 .. Len(second) : /\ second[k].stream = "subscription_change" /\ second[k].action = 0
                                      /\ second[k].stamp = 0 /\ second[k].topic = order[k]
  <2>1. /\ second \in Seq(EventMsgs)
        /\ Len(second) = IF config.subscriptions THEN Len(order) ELSE 0
        /\ \A k \in 1 .. Len(second) : /\ second[k].stream = "subscription_change" /\ second[k].action = 0
                                        /\ second[k].stamp = 0 /\ second[k].topic = order[k]
    BY <1>2, <1>4, SaidAll, Streams
  <2> HIDE DEF second
  <2>2. QED
    BY <2>1
<1>7. msgs = first \o second
  BY <1>1
<1> HIDE DEF first, second, msgs
<1>8. /\ msgs \in Seq(EventMsgs)
      /\ \A k \in 1 .. Len(msgs) :
              (k \in 1 .. Len(first) /\ msgs[k] = first[k]) \/ \E j \in 1 .. Len(second) : msgs[k] = second[j]
      /\ \A k \in 1 .. Len(first) : k \in 1 .. Len(msgs) /\ msgs[k] = first[k]
      /\ \A j \in 1 .. Len(second) : \E k \in 1 .. Len(msgs) : msgs[k] = second[j]
  <2>1. first \in Seq(EventMsgs) /\ second \in Seq(EventMsgs)
    BY <1>5, <1>6
  <2>2. msgs \in Seq(EventMsgs) /\ IsBoth(msgs, first, second)
    BY <1>7, <2>1, Together
  <2>3. QED
    BY <2>2 DEF IsBoth
<1>9. ASSUME NEW k \in 1 .. Len(msgs) PROVE msgs[k].stamp = 0 /\ msgs[k].action = 0
  <2>1. CASE k \in 1 .. Len(first) /\ msgs[k] = first[k]
    BY <1>5, <2>1
  <2>2. CASE \E j \in 1 .. Len(second) : msgs[k] = second[j]
    BY <1>6, <2>2
  <2>3. QED
    BY <1>8, <2>1, <2>2
<1>10. (\E k \in 1 .. Len(msgs) : Concerns(msgs[k], "pause", Anything)) <=> config.pauses /\ paused
  <2>1. ASSUME NEW k \in 1 .. Len(msgs), Concerns(msgs[k], "pause", Anything) PROVE config.pauses /\ paused
    <3>1. k \in 1 .. Len(first)
      BY <1>6, <1>8, <2>1 DEF Concerns
    <3>2. QED
      BY <1>5, <3>1
  <2>2. ASSUME config.pauses, paused PROVE \E k \in 1 .. Len(msgs) : Concerns(msgs[k], "pause", Anything)
    <3>1. 1 \in 1 .. Len(first)
      BY <1>5, <2>2
    <3>2. 1 \in 1 .. Len(msgs) /\ Concerns(msgs[1], "pause", Anything)
      BY <1>5, <1>8, <3>1 DEF Concerns
    <3>3. QED
      BY <3>2
  <2>3. QED
    BY <2>1, <2>2
<1>11. ASSUME NEW t \in Topics
       PROVE  (\E k \in 1 .. Len(msgs) : Concerns(msgs[k], "subscription_change", {t}))
                 <=> config.subscriptions /\ t \in subscribed
  <2>1. ASSUME NEW k \in 1 .. Len(msgs), Concerns(msgs[k], "subscription_change", {t})
        PROVE  config.subscriptions /\ t \in subscribed
    <3>1. PICK j \in 1 .. Len(second) : msgs[k] = second[j]
      BY <1>5, <1>8, <2>1 DEF Concerns
    <3>2. config.subscriptions /\ j \in 1 .. Len(order)
      BY <1>6, <3>1
    <3>3. order[j] = t
      BY <1>6, <2>1, <3>1 DEF Concerns
    <3>4. QED
      BY <1>2, <3>2, <3>3 DEF Range
  <2>2. ASSUME config.subscriptions, t \in subscribed
        PROVE  \E k \in 1 .. Len(msgs) : Concerns(msgs[k], "subscription_change", {t})
    <3>1. PICK j \in 1 .. Len(order) : order[j] = t
      BY <1>2, <2>2 DEF Range
    <3>2. j \in 1 .. Len(second)
      BY <1>6, <2>2, <3>1
    <3>3. PICK k \in 1 .. Len(msgs) : msgs[k] = second[j]
      BY <1>8, <3>2
    <3>4. Concerns(msgs[k], "subscription_change", {t})
      BY <1>6, <3>1, <3>2, <3>3 DEF Concerns
    <3>5. QED
      BY <3>4
  <2>3. QED
    BY <2>1, <2>2
<1>12. now = 0 /\ recording = TRUE /\ untold = <<>>
       /\ truth = [subscribed |-> [t \in Topics |-> {}], paused |-> {}, crossed |-> FALSE]
       /\ inflight = [t \in Topics |-> None] /\ bag.stamps = [t \in Topics |-> <<>>]
  BY <1>1 DEF Init
<1>13. EventsSoFar(bag.events, now)
  BY <1>9, <1>12 DEF EventsSoFar, InOrder, msgs
<1>14. StampsSoFar /\ TruthTyped
  BY <1>12 DEF StampsSoFar, TruthTyped
<1>15. PausesFollowed
  <2>1. /\ Tracks(msgs, "pause", Anything, {}, 0)
        /\ Opened(msgs, "pause", Anything) <=> \E k \in 1 .. Len(msgs) : Concerns(msgs[k], "pause", Anything)
    BY <1>8, <1>9, TracksStart DEF Followed
  <2>2. QED
    BY <1>4, <1>10, <1>12, <2>1 DEF PausesFollowed, Follows, Agrees, Alternates, Telling, msgs
<1>16. SubscriptionsFollowed
  <2>1. ASSUME NEW t \in Topics
        PROVE  /\ Tracks(msgs, "subscription_change", {t}, {}, 0)
               /\ Opened(msgs, "subscription_change", {t}) <=>
                    \E k \in 1 .. Len(msgs) : Concerns(msgs[k], "subscription_change", {t})
    BY <1>8, <1>9, TracksStart DEF Followed
  <2>2. ASSUME NEW t \in Topics
        PROVE  /\ Follows(config.subscriptions, msgs, "subscription_change", {t}, {}, 0)
               /\ Agrees(config.subscriptions, msgs, "subscription_change", {t}, t \in subscribed)
    BY <1>4, <1>11, <2>1 DEF Follows, Agrees
  <2>3. \A t \in Topics : truth.subscribed[t] = {}
    BY <1>12
  <2>4. QED
    BY <1>12, <2>2, <2>3 DEF SubscriptionsFollowed, msgs
<1>17. QED
  BY <1>13, <1>14, <1>15, <1>16 DEF ReportInv

\* A step that tells of something, or would if it were recorded.
LEMMA EmitTold ==
  ASSUME SessionInv, ReportInv, recording,
         NEW recorded \in BOOLEAN, NEW stream \in {"subscription_change", "pause", "low_disk"},
         NEW action \in {0, 1}, NEW topic \in Topics \cup {None},
         bag'.events = Emit(recorded, stream, action, topic).events,
         UNCHANGED <<now, config, truth.subscribed, truth.paused>>,
         stream = "pause" => recorded = config.pauses,
         stream = "subscription_change" => recorded = config.subscriptions,
         ~truth'.crossed => ~truth.crossed /\ Alternates',
         ~truth'.crossed /\ recording' => (Telling' <=> IF stream = "pause" THEN action = 0 ELSE Telling),
         recording' => subscribed' = IF stream # "subscription_change" THEN subscribed
                                     ELSE IF action = 0 THEN subscribed \cup {topic} ELSE subscribed \ {topic}
  PROVE  EventsSoFar(bag.events, now)' /\ PausesFollowed' /\ SubscriptionsFollowed'
<1> DEFINE msg == [stream |-> stream, action |-> action, topic |-> topic, stamp |-> now]
           msgs == bag.events
           was == IF untold = <<>> THEN paused ELSE untold[1].action = 1
           on == IF stream = "pause" THEN action = 0 ELSE was
<1>1. /\ msgs \in Seq(EventMsgs) /\ now \in Int /\ now \in 0..MaxTime /\ paused \in BOOLEAN
      /\ EventsSoFar(msgs, now) /\ SubscriptionsFollowed
      /\ config.pauses \in BOOLEAN /\ config.subscriptions \in BOOLEAN
  BY SessionAssumption DEF SessionInv, SwitchTyped, BagTyped, ReportInv
<1>2. msg \in EventMsgs /\ msg.stamp = now /\ msg.stream = stream /\ msg.action = action /\ msg.topic = topic
  BY <1>1, Streams DEF EventMsgs
<1>3. bag'.events = IF recorded THEN Append(msgs, msg) ELSE msgs
  BY <1>1 DEF Emit, BagTyped, SessionInv
<1>4. was \in BOOLEAN /\ on \in BOOLEAN /\ (Telling <=> was)
      /\ (~truth'.crossed /\ recording' => (Telling' <=> on))
  BY <1>1 DEF Telling
<1>0. ~truth'.crossed =>
        /\ Follows(config.pauses, msgs, "pause", Anything, truth.paused, now)
        /\ Agrees(config.pauses, msgs, "pause", Anything, was)
  <2>1. PausesFollowed
    BY DEF ReportInv
  <2> HIDE DEF was
  <2>2. QED
    BY <1>4, <2>1 DEF PausesFollowed, Agrees
<1> HIDE DEF msg, msgs, was, on
<1>5. CASE recorded
  <2>1. EventsSoFar(Append(msgs, msg), now)
    <3>1. /\ Len(Append(msgs, msg)) = Len(msgs) + 1 /\ Len(msgs) \in Nat
          /\ \A i \in 1 .. Len(msgs) : Append(msgs, msg)[i] = msgs[i]
          /\ Append(msgs, msg)[Len(msgs) + 1] = msg
      BY <1>1, AppendProperties
    <3>2. \A i \in 1 .. Len(msgs) : msgs[i] \in EventMsgs
      BY <1>1
    <3>3. \A i \in 1 .. Len(msgs) : msgs[i].stamp \in Int /\ msgs[i].stamp <= now
      BY <1>1, <3>2 DEF EventMsgs, EventsSoFar
    <3> DEFINE more == Append(msgs, msg)
    <3> HIDE DEF more
    <3>4. \A i \in 1 .. Len(more) : more[i].stamp <= now
      BY <1>1, <1>2, <3>1, <3>3 DEF more
    <3>5. InOrder(more)
      BY <1>1, <1>2, <3>1, <3>3 DEF more, EventsSoFar, InOrder
    <3>6. QED
      BY <3>4, <3>5 DEF EventsSoFar, more
  <2>2. ASSUME ~truth'.crossed
        PROVE  /\ Follows(config.pauses, Append(msgs, msg), "pause", Anything, truth.paused, now)
               /\ Agrees(config.pauses, Append(msgs, msg), "pause", Anything, on)
    <3>1. Concerns(msg, "pause", Anything) <=> stream = "pause"
      BY <1>2 DEF Concerns, Anything
    <3>2. Concerns(msg, "pause", Anything) => config.pauses
      BY <1>5, <3>1
    <3>3. /\ Concerns(msg, "pause", Anything) => (on <=> msg.action = 0)
          /\ ~Concerns(msg, "pause", Anything) => (on <=> was)
      BY <1>2, <3>1 DEF on
    <3>4. /\ Follows(config.pauses, msgs, "pause", Anything, truth.paused, now)
          /\ Agrees(config.pauses, msgs, "pause", Anything, was)
      BY <1>0, <2>2
    <3>5. "pause" \in Followed
      BY DEF Followed
    <3>6. QED
      BY <1>1, <1>2, <1>4, <3>2, <3>3, <3>4, <3>5, FollowsMore
  <2>3. ASSUME NEW t \in Topics
        PROVE  /\ Follows(config.subscriptions, Append(msgs, msg), "subscription_change", {t}, truth.subscribed[t], now)
               /\ recording' =>
                    Agrees(config.subscriptions, Append(msgs, msg), "subscription_change", {t}, t \in subscribed')
    <3>1. Concerns(msg, "subscription_change", {t}) <=> stream = "subscription_change" /\ topic = t
      BY <1>2 DEF Concerns
    <3>2. Concerns(msg, "subscription_change", {t}) => config.subscriptions
      BY <1>5, <3>1
    <3> DEFINE before == t \in subscribed
               said == stream = "subscription_change" /\ topic = t
               after == (said /\ action = 0) \/ (~said /\ t \in subscribed)
    <3>3. before \in BOOLEAN /\ after \in BOOLEAN
      OBVIOUS
    <3>4. recording' => ((t \in subscribed') <=> after)
      OBVIOUS
    <3>5. /\ Concerns(msg, "subscription_change", {t}) => (after <=> msg.action = 0)
          /\ ~Concerns(msg, "subscription_change", {t}) => (after <=> before)
      BY <1>2, <3>1
    <3>6. /\ Follows(config.subscriptions, msgs, "subscription_change", {t}, truth.subscribed[t], now)
          /\ Agrees(config.subscriptions, msgs, "subscription_change", {t}, before)
      BY <1>1 DEF SubscriptionsFollowed, msgs
    <3>7. "subscription_change" \in Followed
      BY DEF Followed
    <3> HIDE DEF before, after
    <3>8. /\ Follows(config.subscriptions, Append(msgs, msg), "subscription_change", {t}, truth.subscribed[t], now)
          /\ Agrees(config.subscriptions, Append(msgs, msg), "subscription_change", {t}, after)
      BY <1>1, <1>2, <3>2, <3>3, <3>5, <3>6, <3>7, FollowsMore
    <3>9. QED
      BY <3>4, <3>8 DEF Agrees
  <2>4. bag'.events = Append(msgs, msg)
    BY <1>3, <1>5
  <2>5. EventsSoFar(bag.events, now)'
    BY <2>1, <2>4
  <2>6. PausesFollowed'
    BY <1>4, <2>2, <2>4 DEF PausesFollowed, Agrees
  <2>7. SubscriptionsFollowed'
    BY <2>3, <2>4 DEF SubscriptionsFollowed
  <2>8. QED
    BY <2>5, <2>6, <2>7
<1>6. CASE ~recorded
  <2>1. bag'.events = bag.events
    BY <1>3, <1>6 DEF msgs
  <2>2. EventsSoFar(bag.events, now)'
    BY <1>1, <2>1 DEF msgs
  <2>3. PausesFollowed'
    <3>1. ~truth'.crossed => Agrees(config.pauses, bag.events, "pause", Anything, on)
      BY <1>0, <1>6 DEF Agrees, on, msgs
    <3>2. QED
      BY <1>0, <1>4, <2>1, <3>1 DEF PausesFollowed, Agrees, msgs
  <2>4. SubscriptionsFollowed'
    <3>1. ASSUME NEW t \in Topics
          PROVE  recording' => Agrees(config.subscriptions, bag.events, "subscription_change", {t}, t \in subscribed')
      BY <1>1, <1>6 DEF SubscriptionsFollowed, Agrees
    <3>2. QED
      BY <1>1, <2>1, <3>1 DEF SubscriptionsFollowed
  <2>5. QED
    BY <2>2, <2>3, <2>4
<1>7. QED
  BY <1>5, <1>6

\* And one that tells of nothing.
LEMMA NothingToTell ==
  ASSUME ReportInv, bag'.events = bag.events, UNCHANGED <<now, recording, subscribed, truth, config>>,
         Alternates => Alternates', Telling' <=> Telling
  PROVE  EventsSoFar(bag.events, now)' /\ PausesFollowed' /\ SubscriptionsFollowed'
<1>1. EventsSoFar(bag.events, now)'
  BY DEF ReportInv
<1>2. PausesFollowed'
  BY DEF ReportInv, PausesFollowed, Agrees
<1>3. SubscriptionsFollowed'
  BY DEF ReportInv, SubscriptionsFollowed
<1>4. QED
  BY <1>1, <1>2, <1>3

\* What has not been told, where a step leaves it.
LEMMA SwitchStays ==
  ASSUME UNCHANGED <<paused, untold>>
  PROVE  (Alternates => Alternates') /\ (Telling' <=> Telling)
BY DEF Alternates, Telling

\* A change of the flag is told later.
LEMMA SetTold ==
  ASSUME SwitchTyped, NEW thread \in {"service", "message"}, NEW flag \in BOOLEAN, Set(thread, flag)
  PROVE  (Alternates => Alternates') /\ (Telling' <=> Telling)
<1> DEFINE change == [thread |-> thread, action |-> IF flag THEN 0 ELSE 1]
           n == Len(untold)
<1>1. untold \in Seq(Untold) /\ paused \in BOOLEAN /\ n \in Nat
  BY LenProperties DEF SwitchTyped
<1>2. paused' = flag /\ (change.action = 0 <=> flag) /\ (change.action = 1 <=> ~flag)
  BY DEF Set
<1>3. CASE paused = flag
  <2>1. UNCHANGED <<paused, untold>>
    BY <1>3 DEF Set
  <2>2. QED
    BY <2>1, SwitchStays
<1>4. CASE paused # flag
  <2>1. untold' = Append(untold, change)
    BY <1>4 DEF Set
  <2>2. change \in Untold
    BY DEF Untold
  <2> HIDE DEF change
  <2>3. /\ Len(untold') = n + 1
        /\ \A i \in 1 .. n : untold'[i] = untold[i]
        /\ untold'[n + 1] = change
    BY <1>1, <2>1, <2>2, AppendProperties
  <2>4. untold' # <<>> /\ (untold = <<>> <=> n = 0)
    <3>1. untold' # <<>>
      BY <1>1, <2>3
    <3>2. untold = <<>> <=> n = 0
      BY <1>1, EmptySeq
    <3>3. QED
      BY <3>1, <3>2
  <2> HIDE DEF n
  <2>5. Telling' <=> Telling
    <3>1. CASE n = 0
      BY <1>1, <1>2, <1>4, <2>3, <2>4, <3>1 DEF Telling
    <3>2. CASE n # 0
      <4>1. untold'[1] = untold[1]
        BY <1>1, <2>3, <3>2
      <4>2. QED
        BY <2>4, <3>2, <4>1 DEF Telling
    <3>3. QED
      BY <3>1, <3>2
  <2>6. ASSUME Alternates, NEW i \in 1 .. n + 1
        PROVE  untold'[i].action = 0 <=> IF i < n + 1 THEN untold'[i + 1].action = 1 ELSE paused'
    <3>1. \A j \in 1 .. n : untold[j].action = 0 <=> IF j < n THEN untold[j + 1].action = 1 ELSE paused
      BY <2>6 DEF Alternates, n
    <3>2. CASE i < n
      <4>1. i \in 1 .. n /\ i + 1 \in 1 .. n /\ i < n + 1
        BY <1>1, <3>2
      <4>2. QED
        BY <2>3, <3>1, <3>2, <4>1
    <3>3. CASE i = n
      <4>1. n \in 1 .. n /\ ~(n < n) /\ n < n + 1
        BY <1>1, <3>3
      <4>2. untold[n].action = 0 <=> paused
        BY <3>1, <4>1
      <4>3. QED
        BY <1>1, <1>2, <1>4, <2>3, <3>3, <4>1, <4>2
    <3>4. CASE i = n + 1
      BY <1>1, <1>2, <2>3, <3>4
    <3>5. QED
      BY <1>1, <3>2, <3>3, <3>4
  <2>7. QED
    BY <2>3, <2>5, <2>6 DEF Alternates
<1>5. QED
  BY <1>1, <1>3, <1>4

\* The first change told leaves the next one first.
LEMMA FirstTold ==
  ASSUME SwitchTyped, Alternates, untold # <<>>, untold' = RemoveAt(untold, 1), UNCHANGED paused
  PROVE  Alternates' /\ (Telling' <=> untold[1].action = 0)
<1> DEFINE n == Len(untold)
<1>1. untold \in Seq(Untold) /\ n \in Nat /\ DOMAIN untold = 1 .. n /\ paused \in BOOLEAN
  BY LenProperties DEF SwitchTyped
<1>2. n # 0 /\ 1 \in DOMAIN untold
  BY <1>1, EmptySeq
<1>3. /\ untold' \in Seq(Untold) /\ Len(untold') = n - 1
      /\ \A j \in 1 .. n - 1 : untold'[j] = IF j < 1 THEN untold[j] ELSE untold[j + 1]
  BY <1>1, <1>2, RemoveTyped
<1>4. untold' = <<>> <=> n = 1
  <2>1. untold' = <<>> <=> Len(untold') = 0
    BY <1>3, EmptySeq
  <2>2. QED
    BY <1>1, <1>3, <2>1
<1>5. \A i \in 1 .. n : untold[i].action = 0 <=> IF i < n THEN untold[i + 1].action = 1 ELSE paused
  BY DEF Alternates
<1> HIDE DEF n
<1>6. \A j \in 1 .. n - 1 : untold'[j] = untold[j + 1]
  BY <1>1, <1>3
<1>7. Telling' <=> untold[1].action = 0
  <2>1. CASE n = 1
    BY <1>1, <1>4, <1>5, <2>1 DEF Telling
  <2>2. CASE n # 1
    <3>1. 1 \in 1 .. n - 1 /\ 1 \in 1 .. n /\ 1 < n /\ 1 + 1 = 2
      BY <1>1, <1>2, <2>2
    <3>2. untold'[1] = untold[1 + 1] /\ (untold[1].action = 0 <=> untold[1 + 1].action = 1)
      BY <1>5, <1>6, <3>1
    <3>3. QED
      BY <1>4, <2>2, <3>2 DEF Telling
  <2>3. QED
    BY <2>1, <2>2
<1>8. ASSUME NEW i \in 1 .. n - 1
      PROVE  untold'[i].action = 0 <=> IF i < n - 1 THEN untold'[i + 1].action = 1 ELSE paused'
  <2>1. i + 1 \in 1 .. n /\ untold'[i] = untold[i + 1] /\ (i + 1 < n <=> i < n - 1)
    BY <1>1, <1>6
  <2>2. untold[i + 1].action = 0 <=> IF i + 1 < n THEN untold[i + 1 + 1].action = 1 ELSE paused
    BY <1>5, <2>1
  <2>3. i < n - 1 => untold'[i + 1] = untold[i + 1 + 1]
    BY <1>1, <1>6
  <2>4. QED
    BY <2>1, <2>2, <2>3
<1>9. QED
  BY <1>3, <1>7, <1>8 DEF Alternates

\* A second that goes by is one more of what is on.
LEMMA TickTold ==
  ASSUME SessionInv, ReportInv, Tick
  PROVE  ReportInv'
<1>1. /\ now \in 0..MaxTime /\ now < MaxTime /\ MaxTime \in Nat /\ now' = now + 1 /\ recording
      /\ truth'.paused = truth.paused \cup (IF paused THEN {now} ELSE {})
      /\ \A t \in Topics : truth'.subscribed[t] = truth.subscribed[t] \cup (IF t \in subscribed THEN {now} ELSE {})
      /\ untold = <<>> /\ UNCHANGED <<recording, paused, untold, truth.crossed, subscribed, inflight, bag, config>>
  BY SessionAssumption DEF Tick, SessionInv, ReportInv, TruthTyped, switch
<1>2. EventsSoFar(bag.events, now)'
  <2>1. \A k \in 1 .. Len(bag.events) : bag.events[k].stamp <= now
    BY DEF ReportInv, EventsSoFar
  <2>2. \A k \in 1 .. Len(bag.events) : bag.events[k] \in EventMsgs
    BY DEF SessionInv, BagTyped
  <2>3. \A k \in 1 .. Len(bag.events) : bag.events[k].stamp <= now + 1
    BY <1>1, <2>1, <2>2 DEF EventMsgs
  <2>4. QED
    BY <1>1, <2>3 DEF ReportInv, EventsSoFar
<1>3. StampsSoFar'
  <2>1. ASSUME NEW t \in Topics
        PROVE  /\ inflight[t] # None => inflight[t] <= now + 1
               /\ \A k \in 1 .. Len(bag.stamps[t]) : bag.stamps[t][k] <= now + 1
    <3>1. inflight[t] \in {None} \cup 0..MaxTime
      BY DEF SessionInv
    <3>2. bag.stamps[t] \in Seq(0..MaxTime)
      BY DEF SessionInv, BagTyped
    <3>3. \A k \in 1 .. Len(bag.stamps[t]) : bag.stamps[t][k] \in 0..MaxTime
      BY <3>2, ElementOfSeq
    <3>4. /\ inflight[t] # None => inflight[t] <= now
          /\ \A k \in 1 .. Len(bag.stamps[t]) : bag.stamps[t][k] <= now
      BY DEF ReportInv, StampsSoFar
    <3>5. QED
      BY <1>1, <3>1, <3>3, <3>4
  <2>2. QED
    BY <1>1, <2>1 DEF StampsSoFar
<1>4. TruthTyped'
  <2>1. truth' = [subscribed |-> [t \in Topics |-> truth.subscribed[t] \cup (IF t \in subscribed THEN {now} ELSE {})],
                  paused |-> truth.paused \cup (IF paused THEN {now} ELSE {}), crossed |-> truth.crossed]
    BY DEF Tick, ReportInv, TruthTyped
  <2>2. QED
    BY <1>1, <2>1 DEF ReportInv, TruthTyped
<1>5. PausesFollowed'
  <2> SUFFICES ASSUME ~truth.crossed
               PROVE  /\ Follows(config.pauses, bag.events, "pause", Anything, truth'.paused, now + 1)
                      /\ Agrees(config.pauses, bag.events, "pause", Anything, paused)
    BY <1>1 DEF PausesFollowed, Telling, Alternates, Agrees
  <2>0. /\ Follows(config.pauses, bag.events, "pause", Anything, truth.paused, now)
        /\ Agrees(config.pauses, bag.events, "pause", Anything, paused)
    BY <1>1 DEF ReportInv, PausesFollowed, Telling, Agrees
  <2>1. CASE config.pauses
    <3>1. Tracks(bag.events, "pause", Anything, truth.paused, now) /\ (Opened(bag.events, "pause", Anything) <=> paused)
      BY <2>0, <2>1 DEF Follows, Agrees
    <3>2. now \in Int /\ truth'.paused = truth.paused \cup IF paused THEN {now} ELSE {}
      BY <1>1
    <3>3. Tracks(bag.events, "pause", Anything, truth'.paused, now + 1)
      BY <3>1, <3>2, TracksTime
    <3>4. QED
      BY <2>0, <2>1, <3>3 DEF Follows
  <2>2. CASE ~config.pauses
    BY <2>0, <2>2 DEF Follows, Agrees
  <2>3. QED
    BY <2>1, <2>2
<1>6. SubscriptionsFollowed'
  <2>1. CASE config.subscriptions
    <3>1. ASSUME NEW t \in Topics
          PROVE  /\ Tracks(bag.events, "subscription_change", {t}, truth'.subscribed[t], now + 1)
                 /\ Opened(bag.events, "subscription_change", {t}) <=> t \in subscribed
      <4>0. /\ Follows(config.subscriptions, bag.events, "subscription_change", {t}, truth.subscribed[t], now)
            /\ Agrees(config.subscriptions, bag.events, "subscription_change", {t}, t \in subscribed)
        BY <1>1 DEF ReportInv, SubscriptionsFollowed
      <4>1. /\ Tracks(bag.events, "subscription_change", {t}, truth.subscribed[t], now)
            /\ Opened(bag.events, "subscription_change", {t}) <=> t \in subscribed
        BY <2>1, <4>0 DEF Follows, Agrees
      <4> DEFINE on == t \in subscribed
      <4>2. now \in Int /\ truth'.subscribed[t] = truth.subscribed[t] \cup IF on THEN {now} ELSE {}
        BY <1>1
      <4>3. on <=> Opened(bag.events, "subscription_change", {t})
        BY <4>1
      <4> HIDE DEF on
      <4>4. Tracks(bag.events, "subscription_change", {t}, truth'.subscribed[t], now + 1)
        BY <4>1, <4>2, <4>3, TracksTime
      <4>5. QED
        BY <4>1, <4>4
    <3>2. QED
      BY <1>1, <2>1, <3>1 DEF SubscriptionsFollowed, Follows, Agrees
  <2>2. CASE ~config.subscriptions
    BY <1>1, <2>2 DEF ReportInv, SubscriptionsFollowed, Follows, Agrees
  <2>3. QED
    BY <2>1, <2>2
<1>7. QED
  BY <1>2, <1>3, <1>4, <1>5, <1>6 DEF ReportInv

\* A message is written with the stamp it was received with.
LEMMA DeliverTold ==
  ASSUME SessionInv, ReportInv, NEW t \in Topics, Deliver(t)
  PROVE  ReportInv'
<1>1. /\ recording /\ inflight[t] # None /\ inflight' = [inflight EXCEPT ![t] = None]
      /\ bag' = IF paused THEN bag ELSE [bag EXCEPT !.stamps[t] = Append(@, inflight[t])]
      /\ UNCHANGED <<now, recording, paused, untold, subscribed, truth, config>>
  BY DEF Deliver
<1>3. /\ inflight \in [Topics -> {None} \cup 0..MaxTime]
      /\ bag \in [stamps : [Topics -> Seq(0..MaxTime)], events : Seq(EventMsgs)]
  BY DEF SessionInv, BagTyped
<1>6. /\ bag'.events = bag.events
      /\ bag'.stamps = IF paused THEN bag.stamps
                       ELSE [bag.stamps EXCEPT ![t] = Append(bag.stamps[t], inflight[t])]
  BY <1>1, <1>3
<1>7. EventsSoFar(bag.events, now)' /\ PausesFollowed' /\ SubscriptionsFollowed'
  BY <1>1, <1>6, SwitchStays, NothingToTell
<1>8. StampsSoFar'
  <2>1. ASSUME NEW u \in Topics
        PROVE  /\ inflight'[u] # None => inflight'[u] <= now
               /\ \A k \in 1 .. Len(bag'.stamps[u]) : bag'.stamps[u][k] <= now
    <3>1. /\ inflight[u] # None => inflight[u] <= now
          /\ \A k \in 1 .. Len(bag.stamps[u]) : bag.stamps[u][k] <= now
      BY DEF ReportInv, StampsSoFar
    <3>2. inflight'[u] # None => inflight'[u] <= now
      BY <1>1, <1>3, <3>1
    <3>3. CASE bag'.stamps[u] = bag.stamps[u]
      BY <3>1, <3>2, <3>3
    <3>4. CASE u = t /\ bag'.stamps[u] = Append(bag.stamps[t], inflight[t])
      <4>1. bag.stamps[t] \in Seq(0..MaxTime) /\ inflight[t] \in 0..MaxTime
        BY <1>1, <1>3
      <4>2. /\ Len(bag'.stamps[u]) = Len(bag.stamps[t]) + 1 /\ Len(bag.stamps[t]) \in Nat
            /\ \A i \in 1 .. Len(bag.stamps[t]) : bag'.stamps[u][i] = bag.stamps[t][i]
            /\ bag'.stamps[u][Len(bag.stamps[t]) + 1] = inflight[t]
        BY <3>4, <4>1, AppendProperties
      <4>3. inflight[t] <= now
        BY <1>1, <3>1, <3>4
      <4>4. QED
        BY <3>1, <3>2, <3>4, <4>2, <4>3
    <3>5. QED
      BY <1>3, <1>6, <3>3, <3>4
  <2>2. QED
    BY <1>1, <2>1 DEF StampsSoFar
<1>9. TruthTyped'
  BY <1>1 DEF ReportInv, TruthTyped
<1>10. QED
  BY <1>7, <1>8, <1>9 DEF ReportInv

\* What is in the bag of messages, and on its way there, where a step leaves it.
LEMMA StampsStay ==
  ASSUME SessionInv, ReportInv, bag'.stamps = bag.stamps, UNCHANGED <<now, truth>>,
         \A t \in Topics : inflight'[t] \in {inflight[t], None, now}
  PROVE  StampsSoFar' /\ TruthTyped'
<1>1. now \in Int
  BY DEF SessionInv
<1>2. StampsSoFar'
  BY <1>1 DEF ReportInv, StampsSoFar
<1>3. TruthTyped'
  BY DEF ReportInv, TruthTyped
<1>4. QED
  BY <1>2, <1>3

\* The event of a change of the flag reaches the bag.
LEMMA TellTold ==
  ASSUME SessionInv, ReportInv, NEW i \in DOMAIN untold, Tell(i)
  PROVE  ReportInv'
<1>1. /\ recording /\ bag' = Emit(config.pauses, "pause", untold[i].action, None)
      /\ untold' = RemoveAt(untold, i) /\ truth' = [truth EXCEPT !.crossed = @ \/ i > 1]
      /\ UNCHANGED <<now, recording, paused, subscribed, inflight, config>>
  BY DEF Tell
<1>2. /\ untold \in Seq(Untold) /\ SwitchTyped /\ config.pauses \in BOOLEAN
      /\ truth \in [subscribed : [Topics -> SUBSET (0..MaxTime)], paused : SUBSET (0..MaxTime), crossed : BOOLEAN]
  BY SessionAssumption DEF SessionInv, SwitchTyped, ReportInv, TruthTyped
<1>3. /\ i \in Nat \ {0} /\ untold # <<>> /\ untold[i].action \in {0, 1}
  <2>1. i \in 1 .. Len(untold) /\ Len(untold) \in Nat
    BY <1>2, LenProperties
  <2>2. untold[i] \in Untold
    BY <1>2, <2>1, ElementOfSeq
  <2>3. QED
    BY <1>2, <2>1, <2>2, EmptySeq DEF Untold
<1>4. /\ truth'.subscribed = truth.subscribed /\ truth'.paused = truth.paused
      /\ (truth.crossed \/ i > 1 => truth'.crossed) /\ TruthTyped'
  BY <1>1, <1>2 DEF TruthTyped
<1>5. ~truth'.crossed => ~truth.crossed /\ Alternates' /\ (Telling' <=> untold[i].action = 0)
  <2> SUFFICES ASSUME ~truth'.crossed PROVE ~truth.crossed /\ Alternates' /\ (Telling' <=> untold[i].action = 0)
    OBVIOUS
  <2>1. i = 1 /\ ~truth.crossed
    BY <1>3, <1>4
  <2>2. Alternates
    BY <2>1 DEF ReportInv, PausesFollowed
  <2>3. QED
    BY <1>1, <1>2, <1>3, <2>1, <2>2, FirstTold
<1>6. EventsSoFar(bag.events, now)' /\ PausesFollowed' /\ SubscriptionsFollowed'
  <2> DEFINE action == untold[i].action
  <2>1. /\ action \in {0, 1} /\ bag'.events = Emit(config.pauses, "pause", action, None).events
        /\ ~truth'.crossed /\ recording' => (Telling' <=> action = 0)
    BY <1>1, <1>3, <1>5
  <2> HIDE DEF action
  <2>2. QED
    BY <1>1, <1>2, <1>4, <1>5, <2>1, EmitTold
<1>7. StampsSoFar'
  <2>1. bag'.stamps = bag.stamps
    BY <1>1 DEF Emit, SessionInv, BagTyped
  <2>2. QED
    BY <1>1, <2>1 DEF ReportInv, StampsSoFar
<1>8. QED
  BY <1>4, <1>6, <1>7 DEF ReportInv

LEMMA ReportNext == SessionInv /\ ReportInv /\ [Next]_vars => ReportInv'
<1> SUFFICES ASSUME SessionInv, ReportInv, [Next]_vars PROVE ReportInv'
  OBVIOUS
<1>1. /\ SwitchTyped /\ config.pauses \in BOOLEAN /\ config.subscriptions \in BOOLEAN
      /\ inflight \in [Topics -> {None} \cup 0..MaxTime]
      /\ \A recorded, stream, action, topic : Emit(recorded, stream, action, topic).stamps = bag.stamps
      /\ 1 # 0
  BY SessionAssumption DEF SessionInv, BagTyped, Emit
<1>0. ~truth.crossed => Alternates
  BY DEF ReportInv, PausesFollowed
<1>2. CASE Tick
  BY <1>2, TickTold
<1>3. ASSUME NEW t \in Topics, Subscribe(t) PROVE ReportInv'
  <2>1. /\ recording /\ bag' = Emit(config.subscriptions, "subscription_change", 0, t)
        /\ subscribed' = subscribed \cup {t}
        /\ UNCHANGED <<now, recording, paused, untold, inflight, truth, config>>
    BY <1>3 DEF Subscribe, Change, switch
  <2>2. EventsSoFar(bag.events, now)' /\ PausesFollowed' /\ SubscriptionsFollowed'
    BY <1>0, <1>1, <2>1, SwitchStays, EmitTold
  <2>3. StampsSoFar' /\ TruthTyped'
    BY <1>1, <2>1, StampsStay
  <2>4. QED
    BY <2>2, <2>3 DEF ReportInv
<1>4. ASSUME NEW t \in Topics, Unsubscribe(t) PROVE ReportInv'
  <2>1. /\ recording /\ bag' = Emit(config.subscriptions, "subscription_change", 1, t)
        /\ subscribed' = subscribed \ {t}
        /\ UNCHANGED <<now, recording, paused, untold, inflight, truth, config>>
    BY <1>4 DEF Unsubscribe, Change, switch
  <2>2. EventsSoFar(bag.events, now)' /\ PausesFollowed' /\ SubscriptionsFollowed'
    BY <1>0, <1>1, <2>1, SwitchStays, EmitTold
  <2>3. StampsSoFar' /\ TruthTyped'
    BY <1>1, <2>1, StampsStay
  <2>4. QED
    BY <2>2, <2>3 DEF ReportInv
<1>5. ASSUME NEW thread \in {"service", "message"}, NEW flag \in BOOLEAN, Set(thread, flag),
             UNCHANGED <<now, recording, subscribed, inflight, bag, truth, config>>
      PROVE  ReportInv'
  <2>1. EventsSoFar(bag.events, now)' /\ PausesFollowed' /\ SubscriptionsFollowed'
    BY <1>1, <1>5, SetTold, NothingToTell
  <2>2. StampsSoFar' /\ TruthTyped'
    BY <1>5, StampsStay
  <2>3. QED
    BY <2>1, <2>2 DEF ReportInv
<1>6. CASE Pause
  BY <1>5, <1>6 DEF Pause, Change
<1>7. CASE Resume
  BY <1>5, <1>7 DEF Resume, Change
<1>8. CASE Fire
  BY <1>5, <1>8 DEF Fire
<1>9. CASE ResumeDue
  BY <1>5, <1>9 DEF ResumeDue
<1>10. ASSUME bag'.events = bag.events, bag'.stamps = bag.stamps,
              UNCHANGED <<now, recording, paused, untold, subscribed, truth, config>>,
              \A u \in Topics : inflight'[u] \in {inflight[u], None, now}
       PROVE  ReportInv'
  <2>1. EventsSoFar(bag.events, now)' /\ PausesFollowed' /\ SubscriptionsFollowed'
    BY <1>10, SwitchStays, NothingToTell
  <2>2. StampsSoFar' /\ TruthTyped'
    BY <1>10, StampsStay
  <2>3. QED
    BY <2>1, <2>2 DEF ReportInv
<1>11. ASSUME NEW t \in Topics, Receive(t) \/ Discard(t) \/ TakeDue(t) PROVE ReportInv'
  <2>1. /\ UNCHANGED <<now, recording, paused, untold, subscribed, bag, truth, config>>
        /\ \A u \in Topics : inflight'[u] \in {inflight[u], None, now}
    BY <1>1, <1>11 DEF Receive, Discard, TakeDue, switch
  <2>2. QED
    BY <1>10, <2>1
<1>12. ASSUME NEW t \in Topics, Deliver(t) PROVE ReportInv'
  BY <1>12, DeliverTold
<1>13. ASSUME NEW i \in DOMAIN untold, Tell(i) PROVE ReportInv'
  BY <1>13, TellTold
<1>14. CASE Stop
  <2>1. /\ recording /\ recording' = FALSE /\ untold' = <<>>
        /\ inflight' = [t \in Topics |-> None] /\ UNCHANGED <<now, paused, truth, config>>
    BY <1>14 DEF Stop
  <2>2. PICK guard \in BOOLEAN : bag' = Emit(guard, "low_disk", 0, None)
    BY <1>14 DEF Stop
  <2>3. Alternates'
    BY <2>1 DEF Alternates
  <2>4. EventsSoFar(bag.events, now)' /\ PausesFollowed' /\ SubscriptionsFollowed'
    BY <1>1, <2>1, <2>2, <2>3, EmitTold
  <2>5. StampsSoFar' /\ TruthTyped'
    BY <1>1, <2>1, <2>2, StampsStay
  <2>6. QED
    BY <2>4, <2>5 DEF ReportInv
<1>15. ASSUME NEW at \in Typed, NEW mode \in Modes, NEW lag \in {None} \cup 0..MaxLag, NEW age \in 0..MaxLag,
              CallResume(at, mode, lag, age)
       PROVE  ReportInv'
  <2>1. UNCHANGED <<now, recording, paused, untold, subscribed, inflight, bag, truth, config>>
    BY <1>15 DEF CallResume, switch
  <2>2. QED
    BY <1>10, <2>1
<1>16. CASE UNCHANGED vars
  <2>1. UNCHANGED <<now, recording, paused, untold, subscribed, inflight, bag, truth, config>>
    BY <1>16 DEF vars, switch
  <2>2. QED
    BY <1>10, <2>1
<1>17. QED
  BY <1>2, <1>3, <1>4, <1>6, <1>7, <1>8, <1>9, <1>11, <1>12, <1>13, <1>14, <1>15, <1>16 DEF Next

LEMMA Recorded == Spec => [](SessionInv /\ ReportInv)
<1>1. Init => SessionInv /\ ReportInv
  BY SessionInit, ReportInit
<1>2. SessionInv /\ ReportInv /\ [Next]_vars => (SessionInv /\ ReportInv)'
  BY SessionNext, ReportNext
<1>3. QED
  BY <1>1, <1>2, PTL DEF Spec

-----------------------------------------------------------------------------
(* The report *)

Received == UNION {Range(bag.stamps[t]) : t \in Topics}
ToldAt == {msg.stamp : msg \in Range(bag.events)}
All == AllStamps(bag)
End == Max(All)
Several == {t \in Populated(bag) : Len(bag.stamps[t]) > 1}
Pauses == EventWindows(Read(bag.events), About(bag.events, "pause", Anything), "paused", "resumed", End)
Subscribed(t) ==
  EventWindows(Read(bag.events), About(bag.events, "subscription_change", {t}), "subscribed", "unsubscribed", End)

\* Of what is written, something is last.
LEMMA EndFacts ==
  ASSUME SessionInv, ReportInv, Closed
  PROVE  /\ End \in Int /\ End <= now
         /\ \A k \in 1 .. Len(bag.events) : bag.events[k].stamp <= End
         /\ \A t \in Topics : \A x \in Range(bag.stamps[t]) : x <= End
<1>1. /\ bag.events \in Seq(EventMsgs) /\ now \in Int /\ IsFiniteSet(Topics)
      /\ \A t \in Topics : bag.stamps[t] \in Seq(0..MaxTime)
  BY SessionAssumption DEF SessionInv, BagTyped
<1>2. /\ \A x : x \in Received <=> \E t \in Topics : x \in Range(bag.stamps[t])
      /\ \A x : x \in ToldAt <=> \E msg \in Range(bag.events) : x = msg.stamp
  BY DEF Received, ToldAt
<1>0. All = Received \cup ToldAt
  BY Zenon DEF All, AllStamps, Received, ToldAt
<1>3. IsFiniteSet(All)
  <2>1. IsFiniteSet(Received)
    <3> DEFINE stamps == [t \in Topics |-> Range(bag.stamps[t])]
               ranges == {stamps[t] : t \in Topics}
    <3>1. DOMAIN stamps = Topics /\ \A T \in ranges : IsFiniteSet(T)
      BY <1>1, RangeOfStamps
    <3>2. Received = UNION ranges
      BY DEF Received
    <3>3. IsFiniteSet(ranges)
      <4> HIDE DEF stamps
      <4>1. QED
        BY <1>1, <3>1, ImageFinite
    <3> HIDE DEF stamps, ranges
    <3>4. QED
      BY <3>1, <3>2, <3>3, FS_UNION
  <2>2. IsFiniteSet(ToldAt)
    <3> DEFINE told == [msg \in Range(bag.events) |-> msg.stamp]
    <3>1. IsFiniteSet(Range(bag.events)) /\ DOMAIN told = Range(bag.events)
      BY <1>1, RangeOfStamps
    <3>2. ToldAt = {told[msg] : msg \in Range(bag.events)}
      BY DEF ToldAt
    <3> HIDE DEF told
    <3>3. QED
      BY <3>1, <3>2, ImageFinite
  <2>3. QED
    BY <1>0, <2>1, <2>2, FS_Union
<1>4. ASSUME NEW k \in 1 .. Len(bag.events)
      PROVE  bag.events[k].stamp \in All /\ bag.events[k].stamp \in Int /\ bag.events[k].stamp <= now
  <2>1. bag.events[k] \in Range(bag.events)
    BY <1>1 DEF Range
  <2>2. bag.events[k] \in EventMsgs
    BY <1>1, ElementOfSeq
  <2>3. bag.events[k].stamp <= now
    BY DEF ReportInv, EventsSoFar
  <2>4. bag.events[k].stamp \in All
    BY <1>0, <1>2, <2>1
  <2>5. bag.events[k].stamp \in 0..MaxTime
    BY <2>2 DEF EventMsgs
  <2>6. QED
    BY <2>3, <2>4, <2>5
<1>5. ASSUME NEW t \in Topics, NEW x \in Range(bag.stamps[t])
      PROVE  x \in All /\ x \in Int /\ x <= now
  <2>1. PICK k \in 1 .. Len(bag.stamps[t]) : bag.stamps[t][k] = x
    BY <1>1 DEF Range
  <2>2. x \in 0..MaxTime
    BY <1>1, <2>1, ElementOfSeq
  <2>3. x <= now
    BY <2>1 DEF ReportInv, StampsSoFar
  <2>4. QED
    BY <1>0, <1>2, <2>2, <2>3
<1>6. \A x \in All : x \in Int /\ x <= now
  <2>1. ASSUME NEW x \in All PROVE x \in Int /\ x <= now
    <3>1. CASE \E t \in Topics : x \in Range(bag.stamps[t])
      BY <1>5, <3>1
    <3>2. CASE \E msg \in Range(bag.events) : x = msg.stamp
      <4>1. PICK k \in 1 .. Len(bag.events) : x = bag.events[k].stamp
        BY <1>1, <3>2 DEF Range
      <4>2. QED
        BY <1>4, <4>1
    <3>3. QED
      BY <1>0, <1>2, <3>1, <3>2
  <2>2. QED
    BY <2>1
<1>7. All # {}
  <2>1. CASE bag.events # <<>>
    <3>1. 1 \in 1 .. Len(bag.events)
      BY <1>1, <2>1, EmptySeq
    <3>2. QED
      BY <1>4, <3>1
  <2>2. CASE \E t \in Topics : bag.stamps[t] # <<>>
    <3>1. PICK t \in Topics : bag.stamps[t] # <<>>
      BY <2>2
    <3>2. 1 \in 1 .. Len(bag.stamps[t]) /\ DOMAIN bag.stamps[t] = 1 .. Len(bag.stamps[t])
      BY <1>1, <3>1, EmptySeq
    <3>3. bag.stamps[t][1] \in Range(bag.stamps[t])
      BY <3>2 DEF Range
    <3>4. QED
      BY <1>5, <3>3
  <2>3. QED
    BY <2>1, <2>2 DEF Closed
<1>8. End \in All /\ \A x \in All : x <= End
  <2>1. All \in SUBSET Int
    BY <1>6
  <2>2. QED
    BY <1>3, <1>7, <2>1, MaxMin DEF End
<1>9. QED
  BY <1>4, <1>5, <1>6, <1>8

\* What the report is made of.
Gaps(pauses) == UnexplainedGaps(ChannelGaps(bag), pauses, Threshold)
LEMMA ReportOf ==
  ASSUME SessionInv, ReportInv
  PROVE  /\ Report.end = End /\ Report.pauses = Pauses
         /\ DOMAIN Report.channels = Populated(bag)
         /\ \A t \in Populated(bag) : Report.channels[t] = Channel(bag.stamps[t], Subscribed(t), Pauses)
         /\ Report.gaps = Gaps(Pauses)
<1>1. bag.events \in Seq(EventMsgs) /\ InOrder(bag.events)
  BY DEF SessionInv, BagTyped, ReportInv, EventsSoFar
<1>2. EventsOf(bag) = Read(bag.events)
  <2>1. EventsOf(bag) = Sorted(Read(bag.events))
    BY DEF EventsOf, Read
  <2>2. QED
    BY <1>1, <2>1, ToldFacts, Sorts
<1>3. PauseWindows(Read(bag.events), End) = Pauses
  <2>1. About(bag.events, "pause", Anything) = {e \in Range(Read(bag.events)) : e.kind = "pause"}
    <3>1. ASSUME NEW e \in Range(Read(bag.events)) PROVE e.topic \in Anything
      <4>1. Read(bag.events) \in Seq(Events)
        BY <1>1, ToldFacts
      <4>2. e \in Events
        BY <4>1, RangeOfStamps
      <4>3. QED
        BY <4>2 DEF Events, EventMsgs, EventFromMsg, Anything
    <3>2. QED
      BY <3>1 DEF About, Kind
  <2>2. QED
    BY <2>1 DEF PauseWindows, Pauses
<1>4. \A t : SubscribedWindows(Read(bag.events), t, End) = Subscribed(t)
  <2>1. ASSUME NEW t
        PROVE  About(bag.events, "subscription_change", {t})
                 = {e \in Range(Read(bag.events)) : e.kind = "subscription" /\ e.topic = t}
    BY DEF About, Kind
  <2>2. QED
    BY <2>1 DEF SubscribedWindows, Subscribed
<1>5. /\ Report.end = End /\ Report.pauses = PauseWindows(EventsOf(bag), End)
      /\ DOMAIN Report.channels = Populated(bag)
      /\ \A t \in Populated(bag) : Report.channels[t] =
           Channel(bag.stamps[t], SubscribedWindows(EventsOf(bag), t, End), PauseWindows(EventsOf(bag), End))
      /\ Report.gaps = Gaps(PauseWindows(EventsOf(bag), End))
  BY DEF Report, Describe, End, All, Gaps
<1>6. QED
  BY <1>2, <1>3, <1>4, <1>5

LEMMA PausesAre ==
  ASSUME SessionInv, ReportInv, Closed, ~truth.crossed
  PROVE  /\ AreReal(Pauses)
         /\ \A i \in Int : i \in Inside(Pauses) <=> config.pauses /\ i \in truth.paused /\ i < End
<1>1. /\ bag.events \in Seq(EventMsgs) /\ InOrder(bag.events) /\ now \in Int
      /\ Follows(config.pauses, bag.events, "pause", Anything, truth.paused, now)
  BY DEF SessionInv, BagTyped, ReportInv, EventsSoFar, PausesFollowed
<1>2. /\ End \in Int /\ End <= now
      /\ \A k \in 1 .. Len(bag.events) : bag.events[k].stamp <= End
  BY EndFacts
<1>3. Pauses = EventWindows(Read(bag.events), About(bag.events, "pause", Anything), Opening("pause"), Closing("pause"), End)
  BY DEF Pauses, Opening, Closing
<1>4. CASE config.pauses
  <2>1. Tracks(bag.events, "pause", Anything, truth.paused, now)
    BY <1>1, <1>4 DEF Follows
  <2>2. AreReal(Pauses) /\ \A i \in Int : i \in Inside(Pauses) <=> i \in truth.paused /\ i < End
    BY <1>1, <1>2, <1>3, <2>1, TrackedWindows
  <2>3. QED
    BY <1>4, <2>2
<1>5. CASE ~config.pauses
  <2>1. \A k \in 1 .. Len(bag.events) : ~Concerns(bag.events[k], "pause", Anything)
    BY <1>1, <1>5 DEF Follows
  <2>2. Pauses = {}
    BY <1>1, <1>2, <1>3, <2>1, NothingTold DEF Followed
  <2>3. QED
    BY <1>5, <2>2, FS_EmptySet DEF AreReal, AreWindows, Inside
<1>6. QED
  BY <1>4, <1>5

LEMMA SubscribedAre ==
  ASSUME SessionInv, ReportInv, Closed, NEW t \in Topics
  PROVE  /\ AreReal(Subscribed(t))
         /\ \A i \in Int : i \in Inside(Subscribed(t)) <=>
              config.subscriptions /\ i \in truth.subscribed[t] /\ i < End
<1> DEFINE stream == "subscription_change"
<1>1. /\ bag.events \in Seq(EventMsgs) /\ InOrder(bag.events) /\ now \in Int
      /\ Follows(config.subscriptions, bag.events, stream, {t}, truth.subscribed[t], now)
  <2>1. bag.events \in Seq(EventMsgs) /\ InOrder(bag.events) /\ now \in Int
    BY DEF SessionInv, BagTyped, ReportInv, EventsSoFar
  <2>2. SubscriptionsFollowed
    BY DEF ReportInv
  <2>3. QED
    BY <2>1, <2>2 DEF SubscriptionsFollowed
<1>2. /\ End \in Int /\ End <= now
      /\ \A k \in 1 .. Len(bag.events) : bag.events[k].stamp <= End
  BY EndFacts
<1>3. Subscribed(t) = EventWindows(Read(bag.events), About(bag.events, stream, {t}), Opening(stream), Closing(stream), End)
  BY DEF Subscribed, Opening, Closing
<1>4. CASE config.subscriptions
  <2>1. Tracks(bag.events, stream, {t}, truth.subscribed[t], now)
    BY <1>1, <1>4 DEF Follows
  <2> HIDE DEF stream
  <2>2. /\ AreReal(Subscribed(t))
        /\ \A i \in Int : i \in Inside(Subscribed(t)) <=> i \in truth.subscribed[t] /\ i < End
    BY <1>1, <1>2, <1>3, <2>1, TrackedWindows
  <2>3. QED
    BY <1>4, <2>2
<1>5. CASE ~config.subscriptions
  <2>1. \A k \in 1 .. Len(bag.events) : ~Concerns(bag.events[k], stream, {t})
    BY <1>1, <1>5 DEF Follows
  <2>2. stream \in Followed
    BY DEF Followed
  <2> HIDE DEF stream
  <2>3. Subscribed(t) = {}
    BY <1>1, <1>2, <1>3, <2>1, <2>2, NothingTold
  <2>4. QED
    BY <1>5, <2>3, FS_EmptySet DEF AreReal, AreWindows, Inside
<1>6. QED
  BY <1>4, <1>5

\* In every behaviour the paused windows of the report are when the recorder was
\* paused, of a bag that tells of its pauses in the order they were made.
THEOREM PausesCorrect == Spec => []PausesAreTheTruth
<1>1. SessionInv /\ ReportInv => PausesAreTheTruth
  <2> SUFFICES ASSUME SessionInv, ReportInv, Closed, ~truth.crossed, config.pauses
               PROVE  {i \in 0..MaxTime : \E w \in Report.pauses : w[1] <= i /\ i < w[2]}
                        = {i \in truth.paused : i < Report.end}
    BY DEF PausesAreTheTruth
  <2>1. Report.pauses = Pauses /\ Report.end = End
    BY ReportOf
  <2>2. \A i \in Int : (\E w \in Pauses : w[1] <= i /\ i < w[2]) <=> config.pauses /\ i \in truth.paused /\ i < End
    BY PausesAre DEF Inside, In
  <2>3. truth.paused \subseteq 0..MaxTime
    BY DEF ReportInv, TruthTyped
  <2>4. QED
    BY <2>1, <2>2, <2>3
<1>2. QED
  BY <1>1, Recorded, PTL

\* What the report says of a channel.
Between(c) == {i \in Int : c.first <= i /\ i < c.last}
Measures(c, stamps, windows, pauses) ==
  /\ c.count = Len(stamps) /\ c.first \in Range(stamps) /\ c.last \in Range(stamps)
  /\ windows # {} =>
       /\ c.basis = "events" /\ c.recorded = Cardinality(Inside(windows) \ Inside(pauses))
       /\ c.active = Cardinality((Inside(windows) \ Inside(pauses)) \cap Between(c))
  /\ windows = {} /\ Len(stamps) > 1 =>
       /\ c.basis = "span" /\ c.active = Cardinality(Between(c) \ Inside(pauses))
       /\ IsFiniteSet(Between(c) \ Inside(pauses))
  /\ windows = {} /\ ~(Len(stamps) > 1) => c.basis = "unknown"
LEMMA ChannelFacts ==
  ASSUME NEW stamps \in Seq(Int), stamps # <<>>, NEW windows, AreWindows(windows),
         NEW pauses, AreWindows(pauses), NEW c, c = Channel(stamps, windows, pauses)
  PROVE  Measures(c, stamps, windows, pauses)
<1> DEFINE R == Range(stamps)
           span == <<Min(R), Max(R)>>
           shared == IntersectWindows(windows, {span})
<1>1. /\ c.count = Len(stamps) /\ c.first = Min(R) /\ c.last = Max(R)
      /\ windows # {} => /\ c.basis = "events" /\ c.recorded = LiveSeconds(windows, pauses)
                         /\ c.active = LiveSeconds(shared, pauses)
      /\ windows = {} /\ Len(stamps) > 1 => c.basis = "span" /\ c.active = LiveSeconds({span}, pauses)
      /\ windows = {} /\ ~(Len(stamps) > 1) => c.basis = "unknown"
  BY DEF Channel
<1>2. /\ Min(R) \in R /\ Max(R) \in R /\ R \in SUBSET Int
      /\ \A x \in R : Min(R) <= x /\ x <= Max(R)
  <2>1. IsFiniteSet(R) /\ R \in SUBSET Int
    BY RangeOfStamps
  <2>2. 1 \in 1 .. Len(stamps) /\ DOMAIN stamps = 1 .. Len(stamps)
    BY EmptySeq, LenProperties
  <2>3. R # {}
    BY <2>2 DEF Range
  <2> HIDE DEF R
  <2>4. QED
    BY <2>1, <2>3, MaxMin
<1> HIDE DEF R
<1>3. AreWindows({span}) /\ Inside({span}) = Between(c)
  <2>1. span \in Int \X Int /\ span[1] = Min(R) /\ span[2] = Max(R)
    BY <1>2
  <2> HIDE DEF span
  <2>2. AreWindows({span})
    BY <2>1, FS_Singleton DEF AreWindows
  <2>3. QED
    BY <1>1, <2>1, <2>2 DEF Inside, In, Between
<1> HIDE DEF span
<1>4. AreWindows(shared) /\ Inside(shared) = Inside(windows) \cap Between(c)
  <2>1. AreReal(shared) /\ Inside(shared) = Inside(windows) \cap Inside({span})
    BY <1>3, IntersectCorrect
  <2>2. QED
    BY <1>3, <2>1 DEF AreReal
<1> HIDE DEF shared
<1>5. LiveSeconds(windows, pauses) = Cardinality(Inside(windows) \ Inside(pauses))
  BY LiveSecondsCorrect
<1>6. LiveSeconds(shared, pauses) = Cardinality((Inside(windows) \ Inside(pauses)) \cap Between(c))
  <2>1. LiveSeconds(shared, pauses) = Cardinality(Inside(shared) \ Inside(pauses))
    BY <1>4, LiveSecondsCorrect
  <2>2. Inside(shared) \ Inside(pauses) = (Inside(windows) \ Inside(pauses)) \cap Between(c)
    BY <1>4
  <2>3. QED
    BY <2>1, <2>2
<1>7. /\ LiveSeconds({span}, pauses) = Cardinality(Between(c) \ Inside(pauses))
      /\ IsFiniteSet(Between(c) \ Inside(pauses))
  <2>1. /\ IsFiniteSet(Inside({span}) \ Inside(pauses))
        /\ LiveSeconds({span}, pauses) = Cardinality(Inside({span}) \ Inside(pauses))
    BY <1>3, LiveSecondsCorrect
  <2>2. QED
    BY <1>3, <2>1
<1>8. QED
  BY <1>1, <1>2, <1>5, <1>6, <1>7 DEF R, Measures
\* Whole numbers of seconds.
LEMMA WholeSeconds ==
  ASSUME NEW s \in Seq(0..MaxTime)
  PROVE  s \in Seq(Int)
<1>1. Len(s) \in Nat /\ s \in [1 .. Len(s) -> 0..MaxTime]
  BY LenProperties
<1>2. s \in [1 .. Len(s) -> Int]
  BY <1>1
<1>3. QED
  BY <1>1, <1>2

\* In every behaviour what the report says of a channel that has events is the seconds
\* its topic really was recorded, and of one that has none no less, of a bag that
\* tells of its pauses in the order they were made.
THEOREM MeasuredCorrect == Spec => []MeasuredIsTheTruth
<1>1. ASSUME SessionInv, ReportInv, Closed, ~truth.crossed,
             NEW t \in DOMAIN Report.channels, NEW c, c = Report.channels[t]
      PROVE  CASE c.basis = "events" -> config.pauses \/ truth.paused = {} =>
                                          /\ c.recorded = SecondsIn(Live(t), 0, Report.end)
                                          /\ c.active = SecondsIn(Live(t), c.first, c.last)
               [] c.basis = "span" -> c.active >= SecondsIn(Live(t), c.first, c.last)
               [] OTHER -> c.count = 1
  <2> DEFINE stamps == bag.stamps[t]
             windows == Subscribed(t)
             live == Inside(windows) \ Inside(Pauses)
  <2>1. /\ t \in Topics /\ stamps # <<>> /\ stamps \in Seq(Int)
        /\ Report.end = End /\ c = Channel(stamps, windows, Pauses)
    <3>1. /\ t \in Populated(bag) /\ Report.end = End
          /\ c = Channel(stamps, windows, Pauses)
      BY <1>1, ReportOf
    <3>2. t \in Topics /\ stamps # <<>>
      BY <3>1 DEF Populated
    <3>3. stamps \in Seq(0..MaxTime)
      BY <1>1, <3>2 DEF SessionInv, BagTyped
    <3>4. stamps \in Seq(Int)
      BY <3>3, WholeSeconds
    <3>5. QED
      BY <3>1, <3>2, <3>4
  <2>2. /\ AreReal(windows)
        /\ \A i \in Int : i \in Inside(windows) <=> config.subscriptions /\ i \in truth.subscribed[t] /\ i < End
    BY <1>1, <2>1, SubscribedAre
  <2>3. /\ AreReal(Pauses)
        /\ \A i \in Int : i \in Inside(Pauses) <=> config.pauses /\ i \in truth.paused /\ i < End
    BY <1>1, PausesAre
  <2>4. /\ truth.subscribed[t] \subseteq 0..MaxTime /\ End \in Int
        /\ \A x \in Range(stamps) : x <= End
    BY <1>1, <2>1, EndFacts DEF ReportInv, TruthTyped
  <2> HIDE DEF stamps, windows
  <2>5. AreWindows(windows) /\ AreWindows(Pauses)
    BY <2>2, <2>3 DEF AreReal
  <2>6. Measures(c, stamps, windows, Pauses)
    BY <2>1, <2>5, ChannelFacts
  <2>7. c.first \in Int /\ c.last \in Int /\ c.last <= End
    <3>1. Range(stamps) \in SUBSET Int
      BY <2>1, RangeOfStamps
    <3>2. QED
      BY <2>4, <2>6, <3>1 DEF Measures
  <2>8. \A i : i \in Live(t) <=> i \in truth.subscribed[t] /\ i \notin truth.paused
    BY DEF Live
  <2>9. CASE windows # {} /\ (config.pauses \/ truth.paused = {})
    <3>1. config.subscriptions
      <4>1. PICK w \in windows : w[1] < w[2] /\ w[1] \in Int /\ w[2] \in Int
        BY <2>2, <2>9 DEF AreReal, AreWindows
      <4>2. w[1] \in Inside(windows)
        BY <4>1 DEF Inside, In
      <4>3. QED
        BY <2>2, <4>1, <4>2
    <3>2. \A i : i \in live <=> i \in Live(t) /\ i < End
      <4>1. \A i : i \in live => i \in Int
        BY DEF Inside
      <4>2. \A i : i \in Live(t) => i \in Int
        BY <2>4, <2>8
      <4>3. \A i \in Int : i \in live <=> i \in Live(t) /\ i < End
        BY <2>2, <2>3, <2>8, <2>9, <3>1
      <4>4. QED
        BY <4>1, <4>2, <4>3
    <3>3. \A i \in Live(t) : i \in Nat
      BY <2>4, <2>8
    <3> HIDE DEF live
    <3>4. live = {i \in Live(t) : 0 <= i /\ i < End}
      BY <3>2, <3>3
    <3>5. live \cap Between(c) = {i \in Live(t) : c.first <= i /\ i < c.last}
      BY <2>4, <2>7, <3>2, <3>3 DEF Between
    <3>6. c.recorded = SecondsIn(Live(t), 0, Report.end) /\ c.active = SecondsIn(Live(t), c.first, c.last)
      BY <2>1, <2>6, <2>9, <3>4, <3>5 DEF SecondsIn, Measures, live
    <3>7. QED
      BY <2>6, <2>9, <3>6 DEF Measures
  <2>13. CASE windows # {} /\ ~(config.pauses \/ truth.paused = {})
    BY <2>6, <2>13 DEF Measures
  <2>10. CASE windows = {} /\ Len(stamps) > 1
    <3> DEFINE span == Between(c) \ Inside(Pauses)
               part == {i \in Live(t) : c.first <= i /\ i < c.last}
    <3>1. part \in SUBSET span
      <4>1. ASSUME NEW i \in part PROVE i \in span
        <5>1. i \in Int /\ i \in truth.subscribed[t] /\ i \notin truth.paused
          BY <2>4, <2>8
        <5>2. i \notin Inside(Pauses)
          BY <2>3, <5>1
        <5>3. QED
          BY <5>1, <5>2 DEF Between
      <4>2. QED
        BY <4>1
    <3>2. IsFiniteSet(span) /\ c.active = Cardinality(span) /\ c.basis = "span"
      BY <2>6, <2>10 DEF Measures
    <3>3. SecondsIn(Live(t), c.first, c.last) = Cardinality(part)
      BY DEF SecondsIn
    <3> HIDE DEF span, part
    <3>4. /\ IsFiniteSet(part) /\ Cardinality(part) <= Cardinality(span)
          /\ Cardinality(part) \in Nat /\ Cardinality(span) \in Nat
      BY <3>1, <3>2, FS_Subset, FS_CardinalityType
    <3>5. c.active >= SecondsIn(Live(t), c.first, c.last)
      BY <3>2, <3>3, <3>4
    <3>6. QED
      BY <3>2, <3>5
  <2>11. CASE windows = {} /\ ~(Len(stamps) > 1)
    <3> DEFINE n == Len(stamps)
    <3>1. n \in Nat \ {0} /\ ~(n > 1) /\ c.count = n /\ c.basis = "unknown"
      BY <2>1, <2>6, <2>11, EmptySeq DEF Measures
    <3> HIDE DEF n
    <3>2. QED
      BY <3>1
  <2>12. QED
    BY <2>9, <2>10, <2>11, <2>13
<1>2. SessionInv /\ ReportInv => MeasuredIsTheTruth
  BY <1>1 DEF MeasuredIsTheTruth
<1>3. QED
  BY <1>2, Recorded, PTL

\* In every behaviour, in a bag of a recording that was not paused and tells of no
\* pauses out of order, a hole every channel shares is reported, and info says so.
THEOREM HolesCorrect == Spec => []HolesAreFound
<1>1. ASSUME SessionInv, ReportInv, Closed, ~truth.crossed, truth.paused = {},
             NEW several, several = {t \in DOMAIN Report.channels : Report.channels[t].count > 1},
             NEW a \in 0..MaxTime, NEW b \in 0..MaxTime, several # {}, b - a >= Threshold,
             \A t \in several :
               /\ Report.channels[t].first <= a /\ b <= Report.channels[t].last
               /\ \A stamp \in Range(bag.stamps[t]) : stamp <= a \/ b <= stamp
      PROVE  InfoExit(Report) = 2 /\ \E w \in Report.gaps : w[1] <= a /\ b <= w[2]
  <2>1. /\ DOMAIN Report.channels = Populated(bag)
        /\ \A t \in Populated(bag) : Report.channels[t] = Channel(bag.stamps[t], Subscribed(t), Pauses)
        /\ Report.gaps = Gaps(Pauses)
    BY <1>1, ReportOf
  <2>2. ASSUME NEW t \in Populated(bag)
        PROVE  /\ t \in Topics /\ bag.stamps[t] \in Seq(Int)
               /\ Report.channels[t].count = Len(bag.stamps[t])
               /\ Report.channels[t].first \in Range(bag.stamps[t])
               /\ Report.channels[t].last \in Range(bag.stamps[t])
    <3>1. t \in Topics /\ bag.stamps[t] # <<>>
      BY DEF Populated
    <3>2. bag.stamps[t] \in Seq(0..MaxTime)
      BY <1>1, <3>1 DEF SessionInv, BagTyped
    <3>3. bag.stamps[t] \in Seq(Int)
      BY <3>2, WholeSeconds
    <3>4. AreWindows(Subscribed(t)) /\ AreWindows(Pauses)
      BY <1>1, <3>1, SubscribedAre, PausesAre DEF AreReal
    <3>5. Report.channels[t] = Channel(bag.stamps[t], Subscribed(t), Pauses)
      BY <2>1
    <3>6. QED
      <4>1. Measures(Report.channels[t], bag.stamps[t], Subscribed(t), Pauses)
        BY <3>1, <3>3, <3>4, <3>5, ChannelFacts
      <4>2. QED
        BY <3>1, <3>3, <4>1 DEF Measures
  <2>3. several = Several
    BY <1>1, <2>1, <2>2 DEF Several
  <2>4. a \in Int /\ b \in Int /\ Threshold \in Nat \ {0} /\ a < b
    BY <1>1, BagReportAssumption
  <2> DEFINE gaps == [t \in Several |-> GapsIn(bag.stamps[t], Threshold)]
             S == {gaps[t] : t \in Several}
  <2>5. ChannelGaps(bag) = S
    BY DEF ChannelGaps, Several
  <2>6. ASSUME NEW t \in Several
        PROVE  AreWindows(gaps[t]) /\ Covers(gaps[t], a, b)
    <3> DEFINE stamps == bag.stamps[t]
    <3>1. /\ stamps \in Seq(Int) /\ t \in several
          /\ Report.channels[t].first \in Range(stamps) /\ Report.channels[t].last \in Range(stamps)
      BY <2>2, <2>3 DEF Several
    <3>2. /\ \E x \in Range(stamps) : x <= a
          /\ \E y \in Range(stamps) : b <= y
          /\ \A x \in Range(stamps) : x <= a \/ b <= x
      BY <1>1, <3>1
    <3> HIDE DEF stamps
    <3>3. /\ AreWindows(GapsIn(stamps, Threshold))
          /\ \E w \in GapsIn(stamps, Threshold) : w[1] <= a /\ b <= w[2]
      BY <1>1, <2>4, <3>1, <3>2, GapsCover
    <3>4. QED
      BY <3>3 DEF Covers, stamps
  <2>7. IsFiniteSet(S) /\ S # {}
    <3>1. IsFiniteSet(Several) /\ DOMAIN gaps = Several /\ Several # {}
      <4>1. Several \in SUBSET Topics /\ IsFiniteSet(Topics)
        BY SessionAssumption DEF Several, Populated
      <4>2. IsFiniteSet(Several)
        BY <4>1, FS_Subset
      <4>3. QED
        BY <1>1, <2>3, <4>2
    <3> HIDE DEF gaps
    <3>2. IsFiniteSet(S)
      BY <3>1, ImageFinite
    <3>3. QED
      BY <3>1, <3>2
  <2>8. AreWindows(Pauses) /\ Inside(Pauses) = {}
    <3>1. AreReal(Pauses) /\ \A i \in Int : i \notin Inside(Pauses)
      BY <1>1, PausesAre
    <3>2. QED
      BY <3>1 DEF AreReal, Inside
  <2>9. \A W \in S : AreWindows(W) /\ Covers(W, a, b)
    <3> HIDE DEF gaps
    <3>1. QED
      BY <2>6
  <2> HIDE DEF S
  <2>10. Covers(UnexplainedGaps(S, Pauses, Threshold), a, b)
    BY <1>1, <2>4, <2>7, <2>8, <2>9, HolesReported
  <2>11. \E w \in Report.gaps : w[1] <= a /\ b <= w[2]
    BY <2>1, <2>5, <2>10 DEF Gaps, Covers
  <2>12. QED
    BY <2>11 DEF InfoExit
<1>2. SessionInv /\ ReportInv => HolesAreFound
  BY <1>1 DEF HolesAreFound
<1>3. QED
  BY <1>2, Recorded, PTL
=============================================================================
