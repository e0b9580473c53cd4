------------------------------- MODULE Session -------------------------------
(***************************************************************************)
(* One bag, from the recording to the report: what the recorder really did *)
(* is kept beside what it wrote, and compared with what dynrec makes of    *)
(* the bag once it is closed.  Someone at the UI meanwhile schedules a     *)
(* resume in words that only mean something on one clock.                  *)
(*                                                                         *)
(* The recorder is the part of it that decides what a bag holds (package   *)
(* rosbag2_dynamic_recorder): a message carries the stamp it was received  *)
(* with and is written later, unless the topic or the whole recorder has   *)
(* been switched off by then.  Two threads pause and resume: the one that  *)
(* serves the services and timers, and the one that writes messages, when  *)
(* a schedule waits for one.  Each sets the flag first and tells the bag   *)
(* later, and the other may do either in between.                          *)
(*                                                                         *)
(* Time goes by in seconds.  Bounds: MaxTime seconds, MaxMessages messages *)
(* of a topic, MaxChanges changes after the start, however made; a timer   *)
(* fires in the second it is due, and a pause or resume is told in the one *)
(* it took effect; a status reaches the UI MaxLag seconds after it was     *)
(* built at most, and is used MaxLag seconds later at most.                *)
(***************************************************************************)
EXTENDS BagReport

CONSTANTS MaxTime, MaxMessages, MaxChanges, MaxLag,
          Typed,    \* what may be typed for a time
          Modes,    \* and chosen for what it is compared with
          Configs   \* the record_*_events parameters; the recorder's clock past the
                    \* second, how far the UI's machine is ahead of it, and its zone

ASSUME SessionAssumption ==
  /\ MaxTime \in Nat /\ MaxLag \in Nat /\ IsFiniteSet(Topics)
  /\ Configs \subseteq [subscriptions : BOOLEAN, pauses : BOOLEAN, nanoseconds : 0..Second - 1, skew : Int,
                        zone : Zones]
\* What each form of a time says.
ASSUME TypedAssumption ==
  \A at \in Typed \ {None} :
    /\ at.form \in {"epoch", "relative"} => at.time \in Int
    /\ at.form = "wall" => at.clock \in Int
    /\ at.form = "local" => at.reading \in Int
\* Python's None is no time, and no status.
ASSUME NoneAssumption == None \notin [form : {"epoch"}, time : Int] \cup [stamp : Int]

VARIABLES
  now,        \* the recorder's clock
  recording,
  paused,
  untold,     \* the changes of the flag whose event is not stamped yet, as they were made
  due,        \* the message that takes a scheduled resume, and how far on_message() is
  subscribed, \* topics with a subscription
  inflight,   \* each topic's message between its reception and its write
  bag,        \* what is in the bag: stamps of each topic, event messages
  truth,      \* the seconds each topic was subscribed, those it was paused, and whether
              \* an event was stamped before that of an earlier change
  changes,    \* how many changes so far
  config,
  scheduled   \* the resume scheduled: its time and mode, and what was asked when

switch == <<paused, untold, due>>
vars == <<now, recording, switch, subscribed, inflight, bag, truth, changes, config, scheduled>>

Emit(recorded, stream, action, topic) ==
  IF recorded THEN [bag EXCEPT !.events = Append(@,
    [stream |-> stream, action |-> action, topic |-> topic, stamp |-> now])] ELSE bag

Said(recorded, stream, about) ==
  IF recorded THEN [i \in DOMAIN about |-> [stream |-> stream, action |-> 0, topic |-> about[i], stamp |-> 0]]
  ELSE <<>>
\* start(): a recorder started paused says so before anything else, then the
\* initial topics are subscribed.
Init ==
  /\ now = 0 /\ recording = TRUE
  /\ paused \in BOOLEAN /\ untold = <<>> /\ due = None
  /\ config \in Configs
  /\ subscribed \in SUBSET Topics /\ inflight = [t \in Topics |-> None]
  /\ \E order \in SetToSeqs(subscribed) :
       bag = [stamps |-> [t \in Topics |-> <<>>],
              events |-> Said(config.pauses /\ paused, "pause", <<None>>)
                           \o Said(config.subscriptions, "subscription_change", order)]
  /\ truth = [subscribed |-> [t \in Topics |-> {}], paused |-> {}, crossed |-> FALSE]
  /\ changes = 0 /\ scheduled = None

-----------------------------------------------------------------------------
(* The recorder *)

OnClock(second) == Unit * second + Nano * config.nanoseconds
ScheduledFor(mode) == scheduled # None /\ scheduled.mode = TIME_MODES[mode]
Reached(mode, second) == ScheduledFor(mode) /\ Nanoseconds(scheduled.time) <= OnClock(second)
Told(thread) == \A i \in DOMAIN untold : untold[i].thread # thread

Tick ==
  /\ now < MaxTime /\ recording /\ ~Reached("node", now) /\ untold = <<>>
  /\ now' = now + 1
  /\ truth' = [truth EXCEPT
       !.subscribed = [t \in Topics |-> @[t] \cup (IF t \in subscribed THEN {now} ELSE {})],
       !.paused = @ \cup (IF paused THEN {now} ELSE {})]
  /\ UNCHANGED <<recording, switch, subscribed, inflight, bag, changes, config, scheduled>>

Change == recording /\ Told("service") /\ changes < MaxChanges /\ changes' = changes + 1

Subscribe(t) ==
  /\ Change /\ t \notin subscribed
  /\ subscribed' = subscribed \cup {t}
  /\ bag' = Emit(config.subscriptions, "subscription_change", 0, t)
  /\ UNCHANGED <<now, recording, switch, inflight, truth, config, scheduled>>

Unsubscribe(t) ==
  /\ Change /\ t \in subscribed
  /\ subscribed' = subscribed \ {t}
  /\ bag' = Emit(config.subscriptions, "subscription_change", 1, t)
  /\ UNCHANGED <<now, recording, switch, inflight, truth, config, scheduled>>

\* The exchange of the flag by a thread, which has something to tell if it changed it.
Set(thread, flag) ==
  /\ paused' = flag
  /\ untold' = IF paused = flag THEN untold ELSE Append(untold, [thread |-> thread, action |-> IF flag THEN 0 ELSE 1])
Tell(i) ==
  /\ recording
  /\ bag' = Emit(config.pauses, "pause", untold[i].action, None)
  /\ untold' = RemoveAt(untold, i)
  /\ truth' = [truth EXCEPT !.crossed = @ \/ i > 1]
  /\ UNCHANGED <<now, recording, paused, due, subscribed, inflight, changes, config, scheduled>>

Pause ==
  /\ Change /\ ~paused
  /\ Set("service", TRUE)
  /\ UNCHANGED <<now, recording, due, subscribed, inflight, bag, truth, config, scheduled>>
Resume ==
  /\ Change /\ paused
  /\ Set("service", FALSE)
  /\ UNCHANGED <<now, recording, due, subscribed, inflight, bag, truth, config, scheduled>>

Written(t) == Len(bag.stamps[t]) + IF inflight[t] = None THEN 0 ELSE 1
Receive(t) ==
  /\ recording /\ t \in subscribed /\ inflight[t] = None /\ Written(t) < MaxMessages
  /\ inflight' = [inflight EXCEPT ![t] = now]
  /\ UNCHANGED <<now, recording, switch, subscribed, bag, truth, changes, config, scheduled>>

\* A callback that finds its topic gone.
Discard(t) ==
  /\ recording /\ inflight[t] # None /\ t \notin subscribed /\ due = None
  /\ inflight' = [inflight EXCEPT ![t] = None]
  /\ UNCHANGED <<now, recording, switch, subscribed, bag, truth, changes, config, scheduled>>

\* on_message(), possibly after the topic went.  It may be the message a resume
\* waits for: take_due() takes it off the list, resume() sets the flag and tells.
TakeDue(t) ==
  /\ recording /\ inflight[t] # None /\ due = None
  /\ Reached("receive", inflight[t])
  /\ scheduled' = None
  /\ due' = [topic |-> t, resumed |-> FALSE]
  /\ UNCHANGED <<now, recording, paused, untold, subscribed, inflight, bag, truth, changes, config>>
ResumeDue ==
  /\ recording /\ due # None /\ ~due.resumed
  /\ due' = [due EXCEPT !.resumed = TRUE]
  /\ Set("message", FALSE)
  /\ UNCHANGED <<now, recording, subscribed, inflight, bag, truth, changes, config, scheduled>>
\* Then the message, or one that nothing waited for, is written unless the
\* recorder is paused.
Deliver(t) ==
  /\ recording /\ inflight[t] # None /\ Told("message")
  /\ IF due = None THEN ~Reached("receive", inflight[t]) ELSE due = [topic |-> t, resumed |-> TRUE]
  /\ due' = None
  /\ inflight' = [inflight EXCEPT ![t] = None]
  /\ bag' = IF paused THEN bag ELSE [bag EXCEPT !.stamps[t] = Append(@, inflight[t])]
  /\ UNCHANGED <<now, recording, paused, untold, subscribed, truth, changes, config, scheduled>>

\* Mutant of Stop: an event of a stream the library does not know.
StopUnknown ==
  /\ recording /\ Told("service")
  /\ recording' = FALSE
  /\ \E guard \in BOOLEAN : bag' = Emit(guard, "stop", 0, None)
  /\ subscribed' = {} /\ inflight' = [t \in Topics |-> None] /\ scheduled' = None
  /\ untold' = <<>> /\ due' = None
  /\ UNCHANGED <<now, paused, truth, changes, config>>
\* stop(), asked for or by the storage guard.  What the other thread has not told
\* or written finds the bag closed.
Stop ==
  /\ recording /\ Told("service")
  /\ recording' = FALSE
  /\ \E guard \in BOOLEAN : bag' = Emit(guard, "low_disk", 0, None)
  /\ subscribed' = {} /\ inflight' = [t \in Topics |-> None] /\ scheduled' = None
  /\ untold' = <<>> /\ due' = None
  /\ UNCHANGED <<now, paused, truth, changes, config>>

-----------------------------------------------------------------------------
(* The UI *)

\* call("resume") with the status it holds, if any: it had been on its way for so
\* long when _on_status() took it, and that was so long ago.  What was typed is
\* resolved here, or left for dynrec and its machine's clock; what cannot be read
\* is refused.
CallResume(at, mode, lag, age) ==
  /\ Change /\ paused /\ scheduled = None
  /\ ~ScheduleError(config.zone, at, mode)
  /\ IF lag = None THEN age = 0 ELSE lag + age <= now
  /\ LET msg == [stamp |-> [sec |-> now - lag - age, nanosec |-> config.nanoseconds]]
         status == IF lag = None THEN None ELSE StatusFromMsg(msg)
         request == ApplySchedule(config.zone, ResolveAt(config.zone, at, status, Unit * age), mode, "",
                                  Float(OnClock(now + config.skew)))
     IN scheduled' = [time |-> request.time, mode |-> request.mode,
                      typed |-> at, word |-> mode, asked |-> now, known |-> lag # None]
  /\ UNCHANGED <<now, recording, switch, subscribed, inflight, bag, truth, config>>

\* The recorder's timer.
Fire ==
  /\ recording /\ Told("service") /\ Reached("node", now)
  /\ Set("service", FALSE)
  /\ scheduled' = None
  /\ UNCHANGED <<now, recording, due, subscribed, inflight, bag, truth, changes, config>>

Next ==
  \/ Tick \/ Pause \/ Resume \/ Stop \/ Fire \/ ResumeDue
  \/ \E i \in DOMAIN untold : Tell(i)
  \/ \E t \in Topics : Subscribe(t) \/ Unsubscribe(t) \/ Receive(t) \/ Discard(t) \/ TakeDue(t) \/ Deliver(t)
  \/ \E at \in Typed, mode \in Modes, lag \in {None} \cup 0..MaxLag, age \in 0..MaxLag :
       CallResume(at, mode, lag, age)

Spec == Init /\ [][Next]_vars

-----------------------------------------------------------------------------
(* Properties *)

\* Every event is of a stream the library knows, and a schedule has the mode asked for.
EventMsgs ==
  [stream : DOMAIN EventStreams, action : {0, 1}, topic : Topics \cup {None}, stamp : 0..MaxTime]
TypeOK ==
  /\ now \in 0..MaxTime /\ recording \in BOOLEAN /\ paused \in BOOLEAN /\ config \in Configs
  /\ subscribed \subseteq Topics
  /\ untold \in Seq([thread : {"service", "message"}, action : {0, 1}])
  /\ due = None \/ due \in [topic : Topics, resumed : BOOLEAN]
  /\ inflight \in [Topics -> {None} \cup 0..MaxTime]
  /\ bag \in [stamps : [Topics -> Seq(0..MaxTime)], events : Seq(EventMsgs)]
  /\ scheduled # None =>
       /\ scheduled.time \in [sec : Int, nanosec : Int] /\ scheduled.asked \in 0..MaxTime
       /\ scheduled.word \in DOMAIN TIME_MODES /\ ScheduledFor(scheduled.word)

\* The bag is closed and there is something in it.
Closed == ~recording /\ (bag.events # <<>> \/ \E t \in Topics : bag.stamps[t] # <<>>)
Report == Describe(bag)
SecondsIn(seconds, from, to) == Cardinality({i \in seconds : from <= i /\ i < to})
Live(t) == truth.subscribed[t] \ truth.paused

\* The seconds the report says a channel was recorded are the seconds its topic
\* was subscribed and the recorder not paused, and active those of them between
\* its first message and its last, whatever order its events and messages reached
\* the bag in; without events to go by it never says less (bag.py:47).  That is,
\* of a recording that tells of its pauses, in the order they were made, or has
\* none: two threads may tell of theirs in the other order.
MeasuredIsTheTruth ==
  Closed /\ ~truth.crossed => LET report == Report IN
    \A t \in DOMAIN report.channels : LET c == report.channels[t] IN
      CASE c.basis = "events" -> config.pauses \/ truth.paused = {} =>
                                   /\ c.recorded = SecondsIn(Live(t), 0, report.end)
                                   /\ c.active = SecondsIn(Live(t), c.first, c.last)
        [] c.basis = "span" -> c.active >= SecondsIn(Live(t), c.first, c.last)
        [] OTHER -> c.count = 1

\* The windows the report says the recorder was paused in are when it was, also
\* if it started paused, ended paused, or was resumed by a schedule, on either
\* thread, in a bag that tells of the pauses in the order they were made (bag.py:79).
PausesAreTheTruth ==
  Closed /\ ~truth.crossed /\ config.pauses => LET report == Report IN
    {i \in 0..MaxTime : \E w \in report.pauses : w[1] <= i /\ i < w[2]} = {i \in truth.paused : i < report.end}

\* A hole that all channels which have gaps to compare share, as long as the
\* threshold, in a recording that was never paused and told of no pauses out of
\* order, is reported and changes what info exits with (bag.py:83, info.py:65).
HolesAreFound ==
  Closed /\ ~truth.crossed /\ truth.paused = {} => LET report == Report
                                     several == {t \in DOMAIN report.channels : report.channels[t].count > 1} IN
    \A a \in 0..MaxTime, b \in 0..MaxTime :
      (/\ several # {} /\ b - a >= Threshold
       /\ \A t \in several :
            /\ report.channels[t].first <= a /\ b <= report.channels[t].last
            /\ \A stamp \in Range(bag.stamps[t]) : stamp <= a \/ b <= stamp)
        => InfoExit(report) = 2 /\ \E w \in report.gaps : w[1] <= a /\ b <= w[2]

\* bag.py:343: in a gap it reports every live channel stops together.  No message
\* of a channel with gaps to compare is inside a gap.
GapsHaveNoMessages ==
  Closed => LET report == Report
                several == {t \in DOMAIN report.channels : report.channels[t].count > 1} IN
    \A w \in report.gaps, t \in several : \A stamp \in Range(bag.stamps[t]) : stamp <= w[1] \/ w[2] <= stamp

\* On the recorder's clock, from the moment it was asked for.
Meant == OnClock(scheduled.asked) + scheduled.typed.time
\* A time typed as so long from now comes when it is that much later on the
\* recorder's clock, however the machine's differs, but for the time the status
\* was on its way and what becomes of it in four floats and two stamps: two
\* grains and a nanosecond, half a microsecond today (ui_node.py:108).
RelativeTimesAreTheRecorders ==
  scheduled # None /\ scheduled.known /\ scheduled.typed # None /\ scheduled.typed.form = "relative" =>
    Nanoseconds(scheduled.time) \in Meant - Unit * MaxLag - 2 * Grain - Nano .. Meant + 2 * Grain + Nano

\* Where the clock jumps over a reading, or shows it for the first of two times.
Skipped(zone, instant) ==
  Unit * zone.change <= instant /\ instant < Unit * zone.change + Unit * (zone.after - zone.before)
ShownAgain(zone, instant) ==
  Unit * zone.change - Unit * (zone.before - zone.after) <= instant /\ instant < Unit * zone.change

\* A time of day is the next instant that the clock on the wall shows it, across a
\* change of the clocks: no later than need be, but for the second time round of an
\* hour the clock repeats; off by the change only where the clock jumps over it; and
\* past already only where the clock went back over midnight, which makes tomorrow's
\* time one it has shown (schedule.py:105).
WallClockIsNext ==
  scheduled # None => LET zone == config.zone IN
  \A clock \in 0..zone.day - 1 :
    LET instant == NextWallClock(zone, clock, Unit * now)
        Shows(u) == Reading(zone, u) % Day(zone) = Unit * clock
        instants == {Unit * i : i \in now + 1 .. now + 2 * zone.day + 2}
    IN /\ instant > Unit * now \/ (ShownAgain(zone, instant) /\ zone.change <= now)
       /\ Shows(instant) \/ Skipped(zone, instant)
       /\ \A u \in instants : Shows(u) /\ u < instant => Fold(zone, u) = 1 /\ Fold(zone, Unit * now) = 0

\* Every time from the epoch on becomes a stamp with less than a second of
\* nanoseconds, at most half a nanosecond from it (schedule.py:119).
StampsAreLegal ==
  scheduled # None => \A fraction \in 0..Unit - 1 :
    LET x == Unit * now + fraction
        stamp == Split(x) IN
    /\ stamp.nanosec \in 0..Second - 1
    /\ 2 * (Nanoseconds(stamp) - x) \in -Nano..Nano
=============================================================================
