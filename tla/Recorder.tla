------------------------------ MODULE Recorder ------------------------------
(***************************************************************************)
(* The recorder around the bag (dynamic_recorder.cpp, recorder_services.cpp*)
(* and recorder_events.cpp): its lifecycle, the pause flag, schedules,     *)
(* guards, and the events that explain a recording inside it.              *)
(*                                                                         *)
(* "svc" runs one service or timer at a time, "msg" one subscription       *)
(* callback.  What a thread still has to do is a sequence of steps, each   *)
(* what it does to shared state between two points where the other thread  *)
(* can come in.  The bag is reduced to whether one is open, which, its     *)
(* stage, and what the properties speak of: the pause events in it, in     *)
(* order, and the messages in it, by their number.  An operation of the    *)
(* bag is one step here; module Bag has its lock, its errors and its order.*)
(***************************************************************************)
EXTENDS Scheduler, Sequences

CONSTANTS
  MaxCalls,      \* bound: service calls and storage checks
  MaxMessages,   \* bound: messages received
  MaxInputs,     \* bound: both together
  MaxBags,       \* bound: bags opened
  MaxRollovers   \* bound: rollovers to a new file

ASSUME RecorderAssumption ==
  /\ {MaxCalls, MaxMessages, MaxInputs, MaxBags, MaxRollovers} \subseteq Nat
  /\ Times \subseteq Nat \ {0} /\ Stamps \subseteq Nat

VARIABLES
  open, bag,        \* bag_: whether one is open, and how many were
  entries,          \* the pause events in this bag, in order
  written,          \* the messages in it
  staged,           \* staged_, which outlives the bag
  paused,           \* paused_
  pausedAfter,      \* history: how many messages there were when it was last set
  subscriptions,    \* the topics of subscriptions_
  topics_at_stop,
  stopped_for_low_disk, stopped_for_max_bag_size,
  deferred,         \* deferred_split_events_, each as the bag that rolled over
  deferred_timer,   \* deferred_timer_ is there and not cancelled
  rollovers,        \* how many rollovers there were
  todo,             \* per thread, the steps left of the callback it runs
  calls, messages,  \* how many of each there were
  recorded,         \* history: of which bag, and into which, split events went
  acted             \* history: schedules that acted, and when

bagVars       == <<open, bag, entries, written, staged>>
pauseVars     == <<paused, pausedAfter>>
selectionVars == <<subscriptions, topics_at_stop>>
stopVars      == <<stopped_for_low_disk, stopped_for_max_bag_size>>
rollVars      == <<deferred, deferred_timer, rollovers>>
boundVars     == <<calls, messages>>
vars == <<schedulerVars, bagVars, pauseVars, selectionVars, stopVars, rollVars, todo,
          boundVars, recorded, acted>>

Threads == {"svc", "msg"}
Step(do, arg) == [do |-> do, arg |-> arg]
Now == [mode |-> "now"]   \* the argument of what was not scheduled
Doing(t, do) == todo[t] # <<>> /\ Head(todo[t]).do = do
Arg(t) == Head(todo[t]).arg
Then(t, steps) == todo' = [todo EXCEPT ![t] = steps \o Tail(@)]
Done(t) == todo' = [todo EXCEPT ![t] = Tail(@)]

\* start() is on its way to open the first bag and subscribe config_.topics.
Init ==
  /\ SchedulerInit
  /\ open = FALSE /\ bag = 0 /\ entries = <<>>
  /\ written = {} /\ staged = <<>>
  /\ paused \in BOOLEAN /\ pausedAfter = 0
  /\ subscriptions = {} /\ topics_at_stop \in SUBSET Topics
  /\ stopped_for_low_disk = FALSE /\ stopped_for_max_bag_size = FALSE
  /\ deferred = <<>> /\ deferred_timer = FALSE /\ rollovers = 0
  /\ todo = [t \in Threads |-> IF t = "svc" THEN <<Step("open", Now)>> ELSE <<>>]
  /\ calls = 0 /\ messages = 0
  /\ recorded = {} /\ acted = {}

-----------------------------------------------------------------------------
(* The service thread takes its next call or timer.                        *)

Begin(steps) == todo["svc"] = <<>> /\ todo' = [todo EXCEPT !["svc"] = steps]

Stopping == <<Step("takeDeferred", Now), Step("close", Now), Step("drop", Now), Step("clear", Now)>>
Call(steps) ==
  /\ calls < MaxCalls /\ calls + messages < MaxInputs /\ calls' = calls + 1
  /\ Begin(steps)
  /\ UNCHANGED <<bagVars, pauseVars, selectionVars, stopVars, rollVars, messages, recorded, acted>>

\* The calls that need no bag; toggling reads the flag before it changes it.
CallPause == Call(<<Step("pause", Now)>>) /\ UNCHANGED schedulerVars
CallToggle == Call(<<Step(IF paused THEN "resume" ELSE "pause", Now)>>) /\ UNCHANGED schedulerVars
CallRecord == ~open /\ Call(<<Step("open", Now)>>) /\ UNCHANGED schedulerVars
CallUnsubscribe ==
  \E D \in (SUBSET Topics) \ {{}} : Call(<<Step("unsubscribe", D)>>) /\ UNCHANGED schedulerVars

\* Those refused without one.  set_topics and set_profile drop what is not
\* wanted, then add what is.
CallResume == open /\ Call(<<Step("resume", Now)>>) /\ UNCHANGED schedulerVars
CallSplit  == open /\ Call(<<Step("split", Now)>>) /\ UNCHANGED schedulerVars
CallStop   == open /\ Call(Stopping) /\ UNCHANGED schedulerVars
CallSubscribe ==
  open /\ \E D \in (SUBSET Topics) \ {{}} : Call(<<Step("subscribe", D)>>) /\ UNCHANGED schedulerVars
CallSetTopics ==
  open /\ \E D \in SUBSET Topics :
            /\ Call(<<Step("unsubscribe", subscriptions \ D), Step("subscribe", D)>>)
            /\ UNCHANGED schedulerVars

\* schedule_or_run() and handle_record() with a time to come.  A topic to track
\* is one recorded now.
CallSchedule ==
  \E k \in Kinds, mode \in Modes, at \in Times, tracking \in subscriptions \cup {AnyTopic} :
    /\ k = "record" => ~open /\ mode = "node"
    /\ k # "record" => open
    /\ mode = "node" => tracking = AnyTopic
    /\ Schedule(k, [mode |-> mode, at |-> at, tracking |-> tracking, bag |-> bag])
    /\ Call(<<>>)

\* One tick of both storage guards.
StorageTick == Call(<<Step("check_free_space", Now), Step("check_bag_size", Now)>>) /\ UNCHANGED schedulerVars

NodeTimer(k) ==
  /\ TimerFires(k)
  /\ Begin(<<Step(IF k = "record" THEN "open" ELSE k, scheduled[k])>>)
  /\ UNCHANGED <<bagVars, pauseVars, selectionVars, stopVars, rollVars, boundVars, recorded, acted>>

DeferredTimer ==
  /\ deferred_timer
  /\ Begin(<<Step("takeDeferred", Now)>>)
  /\ UNCHANGED <<schedulerVars, bagVars, pauseVars, selectionVars, stopVars, rollVars, boundVars, recorded, acted>>

-----------------------------------------------------------------------------
(* Steps of either thread.                                                 *)

\* on_rollover(), inside the writer, k times: the in-bag copy of each event
\* waits for the service thread.
\* Mutant of RollOver: a timer that was cancelled is not replaced.
RollOverTimerOnce(k) ==
  /\ rollovers + k <= MaxRollovers /\ rollovers' = rollovers + k
  /\ deferred' = deferred \o [i \in 1..k |-> bag]
  /\ deferred_timer' = (deferred_timer \/ (k > 0 /\ rollovers = 0))
RollOver(k) ==
  /\ rollovers + k <= MaxRollovers /\ rollovers' = rollovers + k
  /\ deferred' = deferred \o [i \in 1..k |-> bag]
  /\ deferred_timer' = (deferred_timer \/ k > 0)

\* flush_staged_locked() with the bag open: each thing written, n others among
\* them, may roll over.
Messages(s) == {s[i] : i \in 1..Len(s)}
Flush(n) ==
  /\ written' = written \cup Messages(staged) /\ staged' = <<>>
  /\ \E k \in 0..n + Len(staged) : RollOver(k)

\* An operation of the bag that raises busy_: it does nothing on a closed bag,
\* and ends with a flush on an open one.
Operation(n) == IF open THEN Flush(n) ELSE UNCHANGED <<written, staged, rollVars>>

\* write_event(), of a pause event or another, ahead of what is staged.
WriteEvent(t) ==
  /\ Doing(t, "event")
  /\ entries' = IF open /\ Arg(t) \in {"PAUSED", "RESUMED"} THEN Append(entries, Arg(t)) ELSE entries
  /\ Operation(1)
  /\ Done(t)
  /\ UNCHANGED <<schedulerVars, open, bag, pauseVars, selectionVars, stopVars, boundVars, recorded, acted>>

\* A schedule acts.  "bag" is the one it was asked for.
Acts(kind, s) ==
  acted' = IF s.mode = "now" THEN acted
           ELSE acted \cup {[kind |-> kind, mode |-> s.mode, for |-> s.bag, in |-> bag, open |-> open]}

\* pause() and resume(): the exchange, then the event if it changed anything.
Pause(t) ==
  /\ Doing(t, "pause")
  /\ paused' = TRUE /\ pausedAfter' = IF paused THEN pausedAfter ELSE messages
  /\ IF paused THEN Done(t) ELSE Then(t, <<Step("event", "PAUSED")>>)
  /\ UNCHANGED <<schedulerVars, bagVars, selectionVars, stopVars, rollVars, boundVars, recorded, acted>>

Resume(t) ==
  /\ Doing(t, "resume")
  /\ paused' = FALSE /\ UNCHANGED pausedAfter
  /\ Acts("resume", Arg(t))
  /\ IF paused THEN Then(t, <<Step("event", "RESUMED")>>) ELSE Done(t)
  /\ UNCHANGED <<schedulerVars, bagVars, selectionVars, stopVars, rollVars, boundVars, recorded>>

\* bag_.split(): the writer may refuse.
Split(t) ==
  /\ Doing(t, "split")
  /\ Operation(1)
  /\ Acts("split", Arg(t))
  /\ Done(t)
  /\ UNCHANGED <<schedulerVars, open, bag, entries, pauseVars, selectionVars, stopVars, boundVars, recorded>>

-----------------------------------------------------------------------------
(* Steps of the service thread: starting and stopping.                     *)

\* open() in start() and record(): a scheduled record may find the bag open, and
\* the writer may fail, though at startup that ends the process.
Open ==
  /\ Doing("svc", "open")
  /\ \/ /\ ~open /\ bag < MaxBags
        /\ open' = TRUE /\ bag' = bag + 1
        /\ entries' = <<>> /\ written' = {} /\ UNCHANGED staged
        /\ stopped_for_low_disk' = FALSE /\ stopped_for_max_bag_size' = FALSE
        /\ Then("svc", <<Step("initialPauseState", Now), Step("restore", Now)>>)
     \/ /\ open \/ bag > 0
        /\ Done("svc")
        /\ UNCHANGED <<bagVars, stopVars>>
  /\ UNCHANGED <<schedulerVars, pauseVars, selectionVars, rollVars, boundVars, recorded, acted>>

\* Mutant of InitialPauseState: a bag opened while paused does not say so.
NoInitialPauseState ==
  /\ Doing("svc", "initialPauseState")
  /\ Done("svc")
  /\ UNCHANGED <<schedulerVars, bagVars, pauseVars, selectionVars, stopVars, rollVars, boundVars, recorded, acted>>
InitialPauseState ==
  /\ Doing("svc", "initialPauseState")
  /\ IF paused THEN Then("svc", <<Step("event", "PAUSED")>>) ELSE Done("svc")
  /\ UNCHANGED <<schedulerVars, bagVars, pauseVars, selectionVars, stopVars, rollVars, boundVars, recorded, acted>>

Restore ==
  /\ Doing("svc", "restore")
  /\ topics_at_stop' = {}
  /\ Then("svc", <<Step("subscribe", topics_at_stop)>>)
  /\ UNCHANGED <<schedulerVars, bagVars, pauseVars, subscriptions, stopVars, rollVars, boundVars, recorded, acted>>

\* subscribe_batch() and the loop over unsubscribe_topic(): a topic at a time,
\* each change followed by its event.  A new one may need a channel, which is an
\* operation of the bag, and then fail all the same.
Subscribe ==
  /\ Doing("svc", "subscribe")
  /\ \/ /\ Arg("svc") = {} /\ Done("svc")
        /\ UNCHANGED <<subscriptions, written, staged, rollVars>>
     \/ \E topic \in Arg("svc") :
          LET rest == Step("subscribe", Arg("svc") \ {topic})
          IN /\ \/ UNCHANGED <<written, staged, rollVars>>
                \/ topic \notin subscriptions /\ Operation(0)
             /\ \/ /\ topic \notin subscriptions
                   /\ subscriptions' = subscriptions \cup {topic}
                   /\ Then("svc", <<Step("event", "other"), rest>>)
                \/ Then("svc", <<rest>>) /\ UNCHANGED subscriptions
  /\ UNCHANGED <<schedulerVars, open, bag, entries, pauseVars, topics_at_stop, stopVars, boundVars, recorded, acted>>

Unsubscribe ==
  /\ Doing("svc", "unsubscribe")
  /\ \/ /\ Arg("svc") \cap subscriptions = {}
        /\ Done("svc") /\ UNCHANGED subscriptions
     \/ \E topic \in Arg("svc") \cap subscriptions :
          /\ subscriptions' = subscriptions \ {topic}
          /\ Then("svc", <<Step("event", "other"), Step("unsubscribe", Arg("svc") \ {topic})>>)
  /\ UNCHANGED <<schedulerVars, bagVars, pauseVars, topics_at_stop, stopVars, rollVars, boundVars, recorded, acted>>

\* record_deferred_events(): the queue is taken and the timer cancelled, then
\* each event goes into whatever bag is open.
\* Mutant of TakeDeferred: the position of the event, not the event.
TakeDeferredByPosition ==
  /\ Doing("svc", "takeDeferred")
  /\ deferred' = <<>> /\ deferred_timer' = FALSE
  /\ Then("svc", [i \in 1..Len(deferred) |-> Step("fileSplit", i)])
  /\ UNCHANGED <<schedulerVars, bagVars, pauseVars, selectionVars, stopVars, rollovers, boundVars, recorded, acted>>
TakeDeferred ==
  /\ Doing("svc", "takeDeferred")
  /\ deferred' = <<>> /\ deferred_timer' = FALSE
  /\ Then("svc", [i \in 1..Len(deferred) |-> Step("fileSplit", deferred[i])])
  /\ UNCHANGED <<schedulerVars, bagVars, pauseVars, selectionVars, stopVars, rollovers, boundVars, recorded, acted>>

RecordFileSplit ==
  /\ Doing("svc", "fileSplit")
  /\ recorded' = recorded \cup {[of |-> Arg("svc"), in |-> IF open THEN bag ELSE 0]}
  /\ Operation(1)
  /\ Done("svc")
  /\ UNCHANGED <<schedulerVars, open, bag, entries, pauseVars, selectionVars, stopVars, boundVars, acted>>

\* close(): what is staged is written, which may roll over.
Close ==
  /\ Doing("svc", "close")
  /\ open' = FALSE
  /\ Operation(0)
  /\ Done("svc")
  /\ UNCHANGED <<schedulerVars, bag, entries, pauseVars, selectionVars, stopVars, boundVars, recorded, acted>>

Drop ==
  /\ Doing("svc", "drop")
  /\ topics_at_stop' = subscriptions /\ subscriptions' = {}
  /\ Done("svc")
  /\ UNCHANGED <<schedulerVars, bagVars, pauseVars, stopVars, rollVars, boundVars, recorded, acted>>

ClearSchedules ==
  /\ Doing("svc", "clear")
  /\ Clear
  /\ Done("svc")
  /\ UNCHANGED <<bagVars, pauseVars, selectionVars, stopVars, rollVars, boundVars, recorded, acted>>

\* check_free_space() and check_bag_size(): the event, the flag, the stop.
\* Mutant of Check: it does not look whether the bag is still open.
CheckAlways(guard) ==
  /\ Doing("svc", guard)
  /\ Done("svc") \/ Then("svc", <<Step("event", "other"), Step("stoppedFor", guard)>> \o Stopping)
  /\ UNCHANGED <<schedulerVars, bagVars, pauseVars, selectionVars, stopVars, rollVars, boundVars, recorded, acted>>
Check(guard) ==
  /\ Doing("svc", guard)
  /\ \/ Done("svc")
     \/ open /\ Then("svc", <<Step("event", "other"), Step("stoppedFor", guard)>> \o Stopping)
  /\ UNCHANGED <<schedulerVars, bagVars, pauseVars, selectionVars, stopVars, rollVars, boundVars, recorded, acted>>

StoppedFor ==
  /\ Doing("svc", "stoppedFor")
  /\ IF Arg("svc") = "check_free_space"
     THEN stopped_for_low_disk' = TRUE /\ UNCHANGED stopped_for_max_bag_size
     ELSE stopped_for_max_bag_size' = TRUE /\ UNCHANGED stopped_for_low_disk
  /\ Done("svc")
  /\ UNCHANGED <<schedulerVars, bagVars, pauseVars, selectionVars, rollVars, boundVars, recorded, acted>>

-----------------------------------------------------------------------------
(* on_message(), on the message thread: due schedules first, then the      *)
(* pause gate, then the write.                                             *)

Deliver(topic, send, recv) ==
  /\ todo["msg"] = <<>> /\ messages < MaxMessages /\ calls + messages < MaxInputs
  /\ topic \in subscriptions
  /\ messages' = messages + 1
  /\ todo' = [todo EXCEPT !["msg"] = <<Step("takeDue", <<topic, send, recv>>), Step("gate", Now)>>]
  /\ UNCHANGED <<schedulerVars, bagVars, pauseVars, selectionVars, stopVars, rollVars, calls, recorded, acted>>

TakeDueSchedules ==
  /\ Doing("msg", "takeDue")
  /\ LET a == Arg("msg")
         due == Due(a[1], a[2], a[3])
     IN /\ TakeDue(a[1], a[2], a[3])
        /\ Then("msg", (IF "resume" \in due THEN <<Step("resume", scheduled["resume"])>> ELSE <<>>)
                         \o (IF "split" \in due THEN <<Step("split", scheduled["split"])>> ELSE <<>>))
  /\ UNCHANGED <<bagVars, pauseVars, selectionVars, stopVars, rollVars, boundVars, recorded, acted>>

\* Mutant of Gate: the flag is not looked at.
NoGate ==
  /\ Doing("msg", "gate")
  /\ Then("msg", <<Step("write", Now)>>)
  /\ UNCHANGED <<schedulerVars, bagVars, pauseVars, selectionVars, stopVars, rollVars, boundVars, recorded, acted>>
Gate ==
  /\ Doing("msg", "gate")
  /\ IF paused THEN Done("msg") ELSE Then("msg", <<Step("write", Now)>>)
  /\ UNCHANGED <<schedulerVars, bagVars, pauseVars, selectionVars, stopVars, rollVars, boundVars, recorded, acted>>

\* The services thread is in an operation of the bag, or about to be.
Busy ==
  /\ open /\ todo["svc"] # <<>>
  /\ \/ Head(todo["svc"]).do \in {"event", "split", "fileSplit", "close"}
     \/ Head(todo["svc"]).do = "subscribe" /\ ~(Arg("svc") \subseteq subscriptions)

\* write(): the message is dropped on a closed bag, written behind what is
\* staged, or staged itself, where there may be no room left or the last flush
\* of a stop may drop it.
WriteMessage ==
  /\ Doing("msg", "write")
  /\ IF open
     THEN /\ written' = written \cup Messages(staged) \cup {messages} /\ staged' = <<>>
          /\ \E k \in 0..1 + Len(staged) : RollOver(k)
     ELSE UNCHANGED <<written, staged, rollVars>>
  /\ Done("msg")
  /\ UNCHANGED <<schedulerVars, open, bag, entries, pauseVars, selectionVars, stopVars, boundVars, recorded, acted>>

SeeBusy ==
  /\ Doing("msg", "write") /\ Busy
  /\ Then("msg", <<Step("stage", Now)>>)
  /\ UNCHANGED <<schedulerVars, bagVars, pauseVars, selectionVars, stopVars, rollVars, boundVars, recorded, acted>>

Stage ==
  /\ Doing("msg", "stage")
  /\ staged' \in {staged, Append(staged, messages)}
  /\ Done("msg")
  /\ UNCHANGED <<schedulerVars, open, bag, entries, written, pauseVars, selectionVars, stopVars, rollVars,
                 boundVars, recorded, acted>>

-----------------------------------------------------------------------------
Request ==
  \/ CallPause \/ CallToggle \/ CallRecord \/ CallUnsubscribe
  \/ CallResume \/ CallSplit \/ CallStop \/ CallSubscribe \/ CallSetTopics
  \/ CallSchedule \/ StorageTick

ServiceStep ==
  \/ WriteEvent("svc") \/ Pause("svc") \/ Resume("svc") \/ Split("svc")
  \/ Open \/ InitialPauseState \/ Restore \/ Subscribe \/ Unsubscribe
  \/ TakeDeferred \/ RecordFileSplit \/ Close \/ Drop \/ ClearSchedules
  \/ Check("check_free_space") \/ Check("check_bag_size") \/ StoppedFor

MessageStep ==
  \/ WriteEvent("msg") \/ Resume("msg") \/ Split("msg")
  \/ TakeDueSchedules \/ Gate \/ WriteMessage \/ SeeBusy \/ Stage

Next ==
  \/ Request \/ DeferredTimer \/ ServiceStep \/ MessageStep
  \/ \E k \in Kinds : NodeTimer(k)
  \/ \E topic \in Topics, send, recv \in Stamps : Deliver(topic, send, recv)

Spec == Init /\ [][Next]_vars
-----------------------------------------------------------------------------
(* Properties.                                                             *)

Left(t) == {todo[t][i].do : i \in 1..Len(todo[t])}
Schedules == [mode : Modes, at : Times, tracking : Topics \cup {AnyTopic}, bag : 0..MaxBags]

\* Type invariant.
StepOK(s) ==
  /\ s.do \in {"subscribe", "unsubscribe"} => s.arg \subseteq Topics
  /\ s.do = "fileSplit" => s.arg \in 1..bag
  /\ s.do = "event" => s.arg \in {"PAUSED", "RESUMED", "other"}
TypeOK ==
  /\ scheduled \in [Kinds -> Schedules \cup {NoSchedule}]
  /\ timer \in [Kinds -> BOOLEAN] /\ message_time_pending \in BOOLEAN
  /\ open \in BOOLEAN /\ bag \in 0..MaxBags
  /\ entries \in Seq({"PAUSED", "RESUMED"})
  /\ written \subseteq 0..MaxMessages /\ staged \in Seq(0..MaxMessages)
  /\ paused \in BOOLEAN /\ pausedAfter \in 0..MaxMessages
  /\ subscriptions \subseteq Topics /\ topics_at_stop \subseteq Topics
  /\ stopped_for_low_disk \in BOOLEAN /\ stopped_for_max_bag_size \in BOOLEAN
  /\ deferred \in Seq(1..bag) /\ deferred_timer \in BOOLEAN
  /\ \A t \in Threads : \A i \in 1..Len(todo[t]) : StepOK(todo[t][i])

\* A schedule in a slot can fire: take_due() looks for it (scheduler.cpp:125) or
\* its timer is armed, and an armed timer is of the schedule in its slot
\* (scheduler.cpp:90), whatever replaced what.
ScheduleIsLive ==
  \A k \in Kinds :
    /\ FiresOnMessages(scheduled[k]) => message_time_pending
    /\ timer[k] <=> scheduled[k].mode = "node"

\* A stopped recorder has no resume or split queued (scheduler.hpp:92), in any
\* order of calls, messages and timers.
StoppedHasNothingQueued ==
  ~open /\ "clear" \notin Left("svc") =>
    scheduled["resume"] = NoSchedule /\ scheduled["split"] = NoSchedule

\* A node-time schedule acts on the recording it was asked for, while it lasts.
NodeTimeActsInItsBag ==
  \A a \in acted : a.mode = "node" => a.in = a.for /\ a.open

\* No thread is about to give the bag a pause event.
Told ==
  \A t \in Threads : \A i \in 1..Len(todo[t]) :
    /\ todo[t][i].do # "initialPauseState"
    /\ todo[t][i].do = "event" => todo[t][i].arg = "other"

\* The bag says that it is paused: since some PAUSED in it there is no RESUMED.
SincePaused(i) == entries[i] = "PAUSED" /\ \A n \in i..Len(entries) : entries[n] # "RESUMED"
SaysPaused == \E i \in 1..Len(entries) : SincePaused(i)
LastTells == paused <=> SaysPaused

\* "The recorder's own transition sequence is always correct" (PauseEvent.msg):
\* in a bag PAUSED and RESUMED alternate, so between two of one there is one of
\* the other.  Violated when both threads change paused_ and tell of it in the
\* other order.
PausesAlternate ==
  \A i, j \in 1..Len(entries) :
    i < j /\ entries[j] = entries[i] => \E n \in i..j : entries[n] # entries[i]

\* Without a resume from the message thread every change of paused_ is told by
\* the thread that made it before it makes another.
OneThreadPauses == \A a \in acted : a.kind = "resume" => a.mode = "node"

\* A pause is explained in the bag it is in (PauseEvent.msg): its pause events
\* alternate and the last says whether it is paused, one opened while paused
\* included, through any stops, records and pauses of a stopped recorder.
PauseEventsTellTheState ==
  OneThreadPauses =>
    /\ PausesAlternate
    /\ open /\ Told => LastTells

\* "While paused no messages are written" (docs/services.md:250), as far as the
\* code keeps it: as long as the flag is set, every message in this bag, in the
\* stage or on its way there was delivered before the flag was last set.  Such
\* messages are still written while paused, after the PAUSED event: the one whose
\* callback had passed the gate, and what was staged, which write_event() goes
\* ahead of.  Through any stops and records: a message staged for one bag may
\* end in the next one.
OnItsWay == IF Left("msg") \cap {"write", "stage"} # {} THEN {messages} ELSE {}
PauseHoldsBack ==
  paused => \A m \in written \cup Messages(staged) \cup OnItsWay : m <= pausedAfter

\* A file-split event waiting for the service thread has a timer to wake it,
\* whichever thread rolled over while the last one was being cancelled.
NoEventStranded == deferred # <<>> => deferred_timer

\* "If both guards trip on one tick, the first stops the recording and the
\* second finds it stopped, so only one event is written"
\* (dynamic_recorder.cpp:94).
OneReasonToStop == ~(stopped_for_low_disk /\ stopped_for_max_bag_size)

\* "~/stop clears a queued resume or split_bagfile, so it cannot fire against
\* the next bag" (docs/services.md).  Violated by one the message thread has
\* taken and not yet acted on.
ActsOnlyInItsBag == \A a \in acted : a.in = a.for

\* "stop() calls it before closing, so a rollover just before a stop is still
\* explained" (dynamic_recorder.hpp:272).  Violated by one between the two.
RolloverExplainedInItsBag == \A r \in recorded : r.in = r.of
=============================================================================
