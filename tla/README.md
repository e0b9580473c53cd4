# Verification of rosbag2_dynamic_recorder

`rosbag2_dynamic_recorder` is a ROS 2 node that records topics into a rosbag2 bag and lets the selection, the pause
state, the file and the bag itself change while it records. This directory holds TLA+ modules translated from its C++
sources and from the Python library, UI node and command line around it, TLC runs on small instances, and theorems
checked by TLAPS for every instance. Paths below are relative to `src/packages/`; `services.md` is
`src/docs/services.md`.

## Inventory

| Part | Code | State | Operations |
|---|---|---|---|
| Bag | `rosbag2_dynamic_recorder/src/bag.cpp` | the writer, `mutex_`, `busy_`, `open_`, the channels, the counters, the stage | open, close, ensure_channel, write, write_event, split, take_snapshot, queries |
| Scheduler | `scheduler.cpp` | a slot and a timer for each of resume, split, record; `message_time_pending_` | schedule at node time or message time, a timer firing, take_due, clear |
| DynamicRecorder | `dynamic_recorder.cpp`, `recorder_services.cpp`, `recorder_events.cpp` | `paused_`, the subscriptions, `topics_at_stop_`, why it stopped, the deferred split events | start, stop, record, pause, resume, the services, on_message, the guards, the events |
| Topic selection | `topic_selection.cpp` | none | explicit names, patterns, types from the graph |
| LossAccounting | `loss_accounting.cpp` | atomic totals, a table per topic, a table to report | note_*, totals, topic_totals, drain, reset |
| StorageGuard | `storage_guard.cpp` | limits, a cached bag size | low_disk, bag_too_big, bag_size, reset |
| Status | `recorder_services.cpp:435` | the latched status | build, publish |
| Timings, configuration | `timings.cpp`, `recorder_config.cpp` | measurements; parameters | diagnostics; read once |
| dynrec client | `dynrec/dynrec/client.py` | callbacks, subscriptions, service clients, one executor thread | calls, on_status, on_event, wait_for |
| dynrec bag analysis | `dynrec/dynrec/bag.py` | none | interval operators, describe |
| dynrec values | `results.py`, `schedule.py`, `topics.py`, `discovery.py` | none | times and zones, events and statuses, what makes a request, which recorder |
| UI | `rosbag2_dynamic_recorder_ui/` | last status, 400 events; in the page `pending`, `state`, `busy` | state, action; poll, act, edit |
| CLI | `rosbag2_dynamic_recorder_cli/` | none | one client call per verb |

**Who runs where.** `main.cpp` spins two single-threaded executors. The *services* thread runs every service and
timer, one at a time. The *messages* thread runs every subscription callback, one at a time. They share the bag
(`mutex_`, with `busy_` and the stage beside it), the pause flag, the scheduler's slots, the subscriptions, the losses
and the deferred split events, each under a lock of its own or atomic. The locks never nest, so no step sees two of
them consistently: that is where nearly every hazard below comes from. The writer calls back *inside* the bag's lock
when it rolls over to a new file, which is why the copy of that event is deferred to the services thread. Clients see
the recorder through services and through latched topics.

**What is hard.** Two threads between any two lock acquisitions; an operation that stalls in the writer for as long as
the disk does; a stop or a record between the two halves of something else; messages that arrive during all of it;
one-shot timers against stops; schedules that replace each other; a client's timeout against a late answer; callbacks
on the one thread that could deliver anything else; two clocks, and local time on top; a report made from events that
were stamped in one order and written in another. Nothing is persisted but the bag, and no code recovers from a crash,
so the recorder has no restart to model; its clients see one go and come back, and that is modelled.

**What makes each part correct.**

- *Bag*: messages are recorded in arrival order, once; none disappears uncounted; a stop keeps what `write()` had
  returned from before it; a message never waits for a slow operation; counters, reasons and the stage belong to the
  bag they describe.
- *Scheduler*: a schedule in a slot can fire; it fires once; it acts on the recording it was asked for.
- *DynamicRecorder*: what the bag says of pauses and rollovers is what happened; a pause holds; a stopped recorder has
  nothing queued; one stop has one reason.
- *LossAccounting*: the totals are the sum of the table; nothing is reported twice or lost by a drain.
- *StorageGuard*: the threshold is the larger minimum; a size shown is the current bag's.
- *Status*: what stays latched is the latest.
- *Client*: a wait sees the current state; a callback is registered as often as somebody holds it, and one that raises
  or blocks keeps nobody else from being told, a wait included; a call is executed as often as its caller is told,
  also after its time, and ends.
- *Bag analysis*: what the report says a topic was recorded for, and when the recorder was paused, is what happened; a
  hole all topics share is reported, and what is reported is a hole.
- *Times*: a time from now is on the recorder's clock, as far as floats go; a time of day is the next one; a stamp is
  legal.

## Modules

| Module | Stands for |
|---|---|
| `Bag` | `bag.cpp` on both threads |
| `MCBag` | a small instance of it |
| `MessageLog` | what a bag promises: a first in, first out queue into a log while recording |
| `BagProofs` | theorems about `Bag`: types, the lock, the order |
| `BagAccounts` | what is counted, dropped and told of: theorems from those |
| `BagRefinement` | the theorem that `Bag` implements `MessageLog` |
| `Scheduler` | `scheduler.cpp`, as operators on its three variables |
| `Recorder` | the recorder around the bag, on both threads, extending `Scheduler` |
| `RecorderProofs` | theorems about `Recorder`: types, schedules, deferred events |
| `RecorderHistory` | what acted, why it stopped, what a bag says of its pauses: theorems from those |
| `Requests` | `discovery.py`, `topics.py`, the client's table of methods, the exit codes of `api.py`: operators |
| `Client` | `client.py` on the script's threads and the executor's, against a recorder that comes and goes |
| `MCClient` | a small instance of it |
| `ClientProofs` | theorems about `Client` |
| `Times` | `schedule.py`: operators on times, zones and stamps |
| `Results` | `results.py` and what `ui_node.py` makes of a status: operators |
| `BagReport` | `bag.py` and the exit code of `info`: operators |
| `Session` | one recording beside the bag it leaves, and a resume scheduled from the UI meanwhile |
| `MCSession` | a small instance of it: zones, configurations, what is typed |
| `ReportProofs` | theorems about the operators of `BagReport` |
| `SessionProofs` | theorems about `Session`: its types, its times, and that the report is the truth |

**Bag.** `pc` says where each thread is inside an operation and `op` which call it is in. A step is what a thread does
between two points where the other can look: taking the lock, raising `busy_`, the writer's call, clearing `busy_`,
each turn of the flush. `write()` is the message thread's own path: `Arrive`, `TryLock`, and while the lock is taken
`TryLockFor` against `SeeBusy`, then `Stage`, or under the lock `DropMessage`, `FlushFirst`, `WriteMessage`.
`SlowStep` collects the steps that run in the writer with `busy_` raised. The n-th message to reach `write()` is the
number n and an event in the log is 0, so order and conservation are statements about numbers. `log` runs over all
bags (`logStart` marks the current one), which is what lets a property see a message land in the wrong bag. The writer
may throw on any write and roll over on any write or split. History variables: `returnedBefore` (the messages whose
`write()` had returned when the last stop came), `openedAfter`, `lateStaged`, `lost`, `dropped`, `failed`, and the
records in `rollovers`.

The types in `channels_` are left out: a message finds or misses its channel. So are `unused_bag_path()` and the
status strings.

**Scheduler.** `scheduled` and `timer` hold a slot and a timer per kind. `mutex_` makes each operation atomic for the
slots; the timers are touched by the services thread only. A timer may fire at any moment once armed: how long it
takes is the environment's. `message_time_pending` is kept apart from the slots because `take_due()` reads it without
the lock.

**Recorder.** `todo[t]` is the sequence of steps thread t still has to take in the callback it runs: a service puts
its steps there, each step may put more in front (a pause that changed the flag puts the writing of its event there).
A step touches one lock's worth of shared state, so every interleaving of the two threads between them is explored.
The bag is reduced to whether one is `open`, which, the pause events in it in order (`entries`), the messages in it
(`written`) and the stage (`staged`), which outlives the bag. An operation of the bag is one step: `write_event()`
puts its event ahead of what is staged and flushes the stage after it, `close()` flushes and rolls over only while
that writes staged messages, and a message finds the bag free (`WriteMessage`) or an operation of the other thread on
it (`SeeBusy`, then `Stage`, with any of that thread's steps in between). The lock, the writer's errors and the order
of messages are `Bag`'s subject. A timer and a service exclude each other because both begin only when `todo["svc"]`
is empty, as their callback group does. `start()` is the `open` step the service thread begins with. The writer may
roll over to a new file at each thing it writes. `pausedAfter` is history: how many messages had been delivered when
the flag was last set.

Left out of `Recorder`: statuses, losses, channel types, the failure of a graph lookup (subscribing may fail, no
reason is given), snapshots (they change nothing here), and the last `stop()` of `main()`, which runs alone.

**Client.** A call is `Begin`, then `Send` or `Unavailable` while it waits for the service, then `Return` or `Expire`
while it waits for the answer, which only the executor can take (`TakeAnswer`). `wire` and `replies` are sets: they
may be served and taken in any order, and `Expire` leaves a request on its way. The executor's thread runs one thing
at a time: `TakeAnswer`, or `DeliverStatus`, which copies `_status_callbacks` into `todo`, followed by a `RunCallback`
each; everybody registers and cancels in between. A callback of the script may call a blocking method (`CallBack`):
the caller is then `Exec`, and since `todo` is not empty nothing can be taken until `Expire`. `toggle()` is two calls,
as in the code. `wait_for()` registers a callback (`WaitFor`) and drops it (`WaitEnds`).

The recorder's services are those of `recorder_services.cpp`, one request at a time, whether or not its caller still
waits. `Refuses` is what a handler checks before it changes anything; `Selects` is what becomes of the topics, of
which any subset can be had at that moment: `set_topics` and `set_profile` drop what is not wanted first, so that a
refusal for what could not be had leaves them dropped; `Does` is the rest. A status follows a change and comes every
second. Only the graph and rclpy are external. Connecting is `Discover`, one node at a time, and `Connect`, which
chooses among those found by then and takes one way or the other at the deadline. `ghost` is history: how often the
recorder did what a caller's last call asked, or part of it, also once he had given up (`runs`), what his toggle left
while nothing else has changed that (`left`), and the callbacks registered since the last status was delivered
(`late`).

**Times, Results, BagReport** have no state. A time is a number of ticks: a second has `Second` nanoseconds and a
nanosecond `Nano` ticks, fine enough for the times a Python float can hold too, which are `Grain` ticks apart. From
2004 to 2038 that is 2^-22 s, about 238 ns: `Nano` = 2^13 and `Grain` = 5^9. `Float` is where the code makes a float
of a time: a stamp that dynrec reads, the recorder's time as the UI adds it up, a time of day or from now, and what a
stamp is split from. Text is a record of what it says: how a string is matched against the formats is left out, what
each format means is not. A zone has one change of its offset, forwards by a day at most or back; `Timestamp` is
Python's rule for a reading that occurs twice or never. Windows and gaps, which the code keeps in sorted lists, are
sets of pairs: `LastOf` is where a list in order ends, which is all `merge_windows()` looks at, and a set of pairs is
what it was given in any order. Events stay a sequence, since `sorted()` keeps the order of those with one stamp.

**Session** keeps `truth`, the seconds each topic was subscribed and the recorder paused, beside `bag`, what it wrote.
A message is received (`Receive`, which gives it its stamp) and written later (`Deliver`, or `Discard` when its topic
has gone by then), so a bag holds messages written after the event that ended their topic, and events of one stamp.
The flag is set in one step and told in another (`Set` and `Tell`), by the services thread or, for a schedule that
waits for a message, by the message's: `TakeDue`, `ResumeDue`, `Tell`, `Deliver`, with the other thread's steps in
between. `untold` holds the changes not told yet in the order they were made, and `truth.crossed` notes that one was
told before an earlier one. `CallResume` is the page's button: what was typed is resolved by the UI node against a
status that was on its way for a while and has been held for a while, on another clock than the recorder's; `Fire` is
the timer that results. Once the bag is closed `Describe` is evaluated on it, and the properties compare the report
with `truth`.

## Runs

| Run | Question | Result |
|---|---|---|
| `BagMessages` | order, conservation, the stop's boundary, the stage, the counters | holds |
| `BagRollovers` | the reason a rollover is told; the bag implements `MessageLog`; a message leaves the polling loop even if the slow operation never ends | holds |
| `BagLateStaged` | what is staged after a stop is not recorded (`bag.cpp:307`) | violated |
| `BagCallbackWaits` | a recorded message never waits for a slow operation (`bag.hpp:51`) | violated |
| `Recorder` | schedules, pauses, deferred events and stops on two threads | holds |
| `RecorderSchedule` | a schedule cannot fire against the next bag (`services.md:102`) | violated |
| `RecorderPause` | the recorder's own transition sequence is always correct (`PauseEvent.msg:25`) | violated |
| `RecorderSplit` | a rollover just before a stop is explained (`dynamic_recorder.hpp:272`) | violated |
| `Client` | what a call's outcome tells, who is told of a status, that every call ends | holds |
| `ClientWatch` | the current state is evaluated immediately (`client.py:481`) | violated |
| `Session` | what the report says of subscriptions, pauses and holes; times typed at the UI | holds |
| `SessionGap` | in a reported gap every live channel stops together (`bag.py:343`) | violated |

**The seven disagreements.**

1. A message sees `busy_` during `close()` and reaches `stage()` after the last flush. It survives in the stage, since
   `open()` does not clear it, and the first flush of the next bag writes it there.
2. The callback of a message acts on due schedules first, through blocking operations of the bag: a resume event, a
   split and the status all wait for the lock a slow operation holds.
3. `on_message()` takes a due schedule from its slot and acts on it later; a stop and a record in between make it
   resume or split the next bag.
4. `pause()` and `resume()` exchange the flag and then write the event. A scheduled resume does so on the message
   thread, so a pause between its two halves leaves PAUSED, PAUSED, RESUMED in the bag of a paused recorder.
5. `stop()` writes the deferred split events and then closes. A rollover in between, by a message or by the flush of
   `close()` itself, is explained in no bag or in the next one.
6. `wait_for()` on a client that already watches the status adds its callback to the one subscription there is. The
   latched status was delivered to that subscription already, so the wait hangs until the recorder publishes again: a
   period later, or for ever where `status_publish_period` is 0 and nothing changes.
7. `unexplained_gaps()` joins intervals that touch, and consecutive gaps of one channel touch at the message between
   them. A bag whose channels all come at 1 Hz or slower is reported as one hole, messages in it and all, and `info`
   exits with 2.

The invariants of run `Recorder` say what holds beside 3 and 4: node-time schedules are safe from a stop because the
timers and the stop share a thread; without a resume from the message thread the events in a bag alternate and the
last one tells the flag; and, with it or without, as long as the flag is set only what was delivered before that is in
the bag, in the stage or on its way there. Those of run `Client` say what holds beside 6: whoever watches catches up
with the recorder again and again. Those of run `Session` say what holds beside 7, no hole is missed, and beside 4:
what the report says of pauses is the truth of every bag whose changes were told in the order they were made
(`~truth.crossed`), on whichever thread.

**Further disagreements, without a run of their own.** The properties are stated as far as the code keeps them, and
their comments say where that ends:

- *The boundary of a stop* (`bag.cpp:142-147`). "What arrived before the stop is written" fails for a message that is
  in `write()` when `close()` takes the lock: it may see `busy_`, stage itself after the last flush and be dropped.
  "Nothing arriving after it is written" fails for one staged before that flush. `StopKeepsWhatCameBefore` is about
  messages whose `write()` had returned.
- *Written while paused* (`services.md:250`). The message whose callback had passed the gate when the flag was set is
  written after it, and so is what was staged: `write_event()` puts PAUSED ahead of it. `PauseHoldsBack` says that
  these are all.
- *A bag without pause events* (`bag.py:21`, `:47`). The measured seconds then count the paused ones, where the text
  promises none or an unknown. `MeasuredIsTheTruth` asks for the events of a paused recording, and where there is only
  a span that it is not less.
- *Which recorder* (`client.py:221`, `errors.py:33`). An ambiguous choice is to raise. The poll returns as soon as it
  has found one (`client.py:184`), so a second one that turns up a moment later is never seen and the first is taken.
  No property claims otherwise: `ChooseRecorder` is right of what it is given.
- *A refused selection* (`recorder_services.cpp:185`). `set_topics` and `set_profile` may have dropped topics when
  they are refused. `errors.py:64` keeps the response for that reason, and `OutcomeTellsExecution` excepts exactly
  that.

**Bounds.** Each is a constant in a guard (`Affordable` in `Bag`; `MaxCalls`, `MaxMessages`, `MaxInputs`, `MaxBags`,
`MaxRollovers` in `Recorder`).

- `Bag`: three messages are one in `write()`, one staged and one behind it; sizes 1 and 2 against a stage of 2 bytes
  give a full stage, an oversized message and a fit; two bags give everything that can leak from one into the next;
  one event write is enough to have both threads compete for a slow operation. The splits and errors are in a run of
  their own, with two rollovers, so that a stale reason has a rollover to be told to, and one exception. More messages
  repeat these cases: the theorems have no bounds.
- `Recorder`: three calls are a schedule, a stop and a record, or a pause around two others, on top of timers and
  deferred events, which are not counted; two messages are one taking a schedule or staged and one behind it; together
  they are four (`MaxInputs`), three calls and a message or two calls and two; stamps 0 (not supplied) and 1 against
  time 1 are not due and due; two rollovers are one whose event is taken while the next one comes; two bags as above.
  One topic: nothing in the properties tells two topics apart but the set operations of the selection.
- `Client`: one thread and the executor are two callers, which is enough for each to change what the other is told of,
  to have one's request served after its wait was over, and to block the other's answer; two handles on one callback
  are what a cancel too many needs. The methods are `toggle` (two requests), `set_topics` (which can be refused by
  either side, and by the recorder before or after it dropped a topic) and, from a callback, `stop` (what a wait waits
  for). Two topics are one that is wanted and one to be dropped. A recorder found beside another makes an ambiguous
  choice; a third would not add to it, and after connecting the behaviour is followed for one of them (`Followed`).
  One abandoned request at a time is on its way; it is served before its caller turns to something else or not at all,
  since what it does later is told of by no outcome. Others pause, resume and stop the recorder but select nothing. A
  callback calls back at most once per status, with `CallbackOperations`, of a recorder that records; `close()` comes
  when the script is at rest. `_Handle.cancel()` is one step: two threads that cancel one handle at a time are not
  covered.
- `Session`: three seconds with a threshold of two leave room for a gap that is just long enough, for a longer one and
  for one that is not; two messages on each of two topics are a gap of each, and what the two share is as long as
  either, or shorter, or nothing; two changes are a window and its end, on top of a start in any state, a scheduled
  resume counting as one. A pause or resume is told in the second it took effect, before or after whatever else
  happens in it. `SessionGap` has one topic, a second more and three messages: two gaps that touch. A second has four
  nanoseconds of two ticks, and floats are two nanoseconds apart, so that every way of rounding occurs, of a float and
  of a stamp; the time from now that is typed is half a nanosecond short of a second, so that it is rounded and
  carried; a day is four seconds long, so that midnight and the change of the clocks fall in the recording. What is
  written to the bag has whole seconds for stamps, which a float holds as they are. Three configurations, both event
  streams recorded and either left out, each in a zone of its own: put forward over midnight, put back to it, and put
  back over it.
- Deadlock is checked in `Bag`, whose queries have no bound: a state without a step would be two threads waiting for
  each other. In `Recorder` every call may be used up with both threads idle, so it is not; a client that was closed
  and a bag that was reported on are the end as well.

**Fairness** (`FairSpec` of `Bag`). Weak fairness for the quick steps of a thread: a running thread goes on running.
Strong fairness for taking the lock and for the polling loop: the loop asks again every 200 us, and a lock that is
free again and again is got in the end. Nothing is assumed of a slow step: the writer may stall for ever, and
`MessageNeverWaits` must hold even so. `open()` keeps `busy_` clear while it has the lock and is treated as a quick
step: a message of a subscription left over would wait for it.

Fairness of `Client`: weak, for the recorder's publication (its timer, every second unless `status_publish_period` is
0), for the executor's delivery and its callbacks, for each caller's next step, since every wait in a call has its
timeout, and for a wait that has got what it waited for. Nothing is assumed of answers, of a `wait_for()` without a
timeout, or of anything the script or the operator of the recorder chooses to do. `EveryCallEnds` holds on the
timeouts alone; `WatchersCatchUp` needs the publication.

## Proofs

`BagProofs` proves, from `BagAssumption` alone (naturals for the bounds and sizes, a topic for every message, and an
event channel that is no topic), for any number of messages, bags, topics and errors:

- `TypeCorrect`: `Spec => []TypeOK`.
- `StageBounded`: `Spec => []StageLeftover`. It is inductive with `TypeOK`.
- `LockDisciplined`: `Spec => []LockDiscipline`: who is inside the critical section, which thread writes, and when the
  batch and the stage are empty.
- `OrderCorrect`: `Spec => []ArrivalOrder`. `ArrivalOrder` speaks of a concatenation and is not inductive: it does not
  say that a message can only be written by the message thread, nor that the stage it flushed is still empty when it
  writes its own. The inductive invariant is `BagInv`, which is `TypeOK`, `LockDiscipline` and `OrderInv`; `OrderInv`
  states the order part by part (each of log, batch, stage ordered, each before the next, all below the next number to
  arrive). `BagInv` implies `ArrivalOrder` by lemmas about order under Append, Tail and concatenation.

`BagAccounts` builds on `BaseInv` (`TypeOK`, `LockDiscipline`, `OrderInv`), from the same assumption:

- `CountersCorrect`: `Spec => []CountersDescribeThisBag`. The writer's entry and the counter move together, but the
  bag must be open when they do: `OpenWhileWriting` says who keeps it open, which is whoever holds the lock.
- `ReasonsCorrect`: `Spec => []RolloversTellTheirReason`, from `ReasonInv`: the reason is there exactly while
  `split()` is in the writer, also if the writer throws there.
- `NothingDisappears`: `Spec => []EveryMessageAccountedFor`. The order is what makes the books balance: a message that
  leaves the batch is nowhere else because batch, stage and call are disjoint, and they are because they are ordered.
  `NoEventOnItsWay` keeps the events, which are all 0, out of that.
- `StopCorrect`: `Spec => []StopKeepsWhatCameBefore`. What is dropped is what is staged when a flush finds the bag
  closed, so the invariant, `StopInv`, speaks of the stage: from the flush a close begins with to the next open, only
  what had not returned from `write()` when the close came is in it.
- `StageCorrect`: `Spec => []StageAccounting`. The byte count is stated as the end of a running total, a function from
  positions to sums that exists, rather than as a fold, about which each fact would take an induction written out for
  it.

`BagRefinement` proves `BagIsAMessageLog`: `Spec => ImplementsMessageLog`. The queue of the abstract log is the batch,
the stage and the message in `write()`, one after the other; a step of the bag that writes is `Record`, `RecordEvent`
or `Refuse`, arriving is `Offer`, a full stage or a closed bag is `GiveUp`, a flush that finds the bag closed is
`Discard`, and taking the stage as a batch or moving the message in `write()` into the stage is a stutter. The lemmas
say what head, tail and concatenation do to a queue in three parts; that the oldest is at the front of the right part
is `OrderInv` and `LockDiscipline` again.

`RecorderProofs` proves, from `RecorderAssumption` alone (naturals for the bounds and times, and 0 no time to act at),
for any topics, times, stamps, calls, messages and bags:

- `TypeCorrect`: `Spec => []TypeOK`.
- `SchedulesLive`: `Spec => []ScheduleIsLive`.
- `StoppedClean`: `Spec => []StoppedHasNothingQueued`.
- `NothingStranded`: `Spec => []NoEventStranded`.

They follow from one invariant, `RecorderInv`. The first three are not inductive alone, and its parts need each other:

- `SchedulerInv` adds `RecordOnTimer` to `ScheduleIsLive`. `update_pending()` looks at the resume and the split only,
  which is right because a record is never waited for in messages: that is `handle_record()`'s doing, not the
  scheduler's.
- `StopInv` says that every close to come has a clear() behind it, and that a stopped recorder with no clear() to come
  has nothing queued. Without the first part, a step of `Close` would break the second.
- `TodoOK` types the steps the threads still have to take, and says of a close to come that a bag was once open.
  `Close` may roll over, and `DeferredOK` needs the bag that did to exist.

Each operation of the scheduler has a lemma that it keeps `SchedulerInv`; each way a thread goes on (`ThenKeeps`,
`DoneKeeps`, `StartKeeps`) one that it keeps `TodoOK` and `StopInv` when it is given good steps; each action is then a
short proof.

`RecorderHistory` proves what `Recorder` says of its history, from `RecorderInv` and four invariants of its own. What
they have in common is that the order of the steps a thread has still to take matters, so all of them speak of `todo`:

- `QueueInv`: the step that tells of a change (a pause event, the initial state, an open) is the first a service has
  to take, and a callback ends with the gate or the write. What each step puts in front of the others keeps it so.
- `NodeTimeActsRight`: `Spec => []NodeTimeActsInItsBag`, from `ActsInv`: a schedule at node time in a slot, and a
  timer's step that is about to act on one, is of the bag there is and that bag is open, unless a `clear` is still to
  come on the services thread. A stop and a timer exclude each other, so what a timer has taken from its slot acts
  before any stop.
- `OneReason`: `Spec => []OneReasonToStop`, from `ReasonInv`: once a guard has found a reason only events come before
  it is noted, and while one is noted what is left of the tick closes the bag before the other guard looks.
- `PausesTold`: `Spec => []PauseEventsTellTheState`, from `PauseInv`. What is said in the bag and the flag differ only
  while the step that will tell of it is the next of the services thread. It is under `OneThreadPauses`, as the
  property is: run `RecorderPause` shows that it must be.
- `PauseHolds`: `Spec => []PauseHoldsBack`, whichever thread resumes. `HoldInv` adds that no message is ahead of the
  count of messages, so that setting the flag covers all that is written, staged or on its way; while it stays set the
  gate lets nothing more through, and a flush only moves what is covered.

The pause events of a bag are stated by position (a pause before this entry with no resume between them), not as the
subsequence of pause events, for the same reason as the running total.

`ClientProofs` proves, from `ClientAssumption` (the executor's thread is not a script's, callers are not `None`, the
methods exist) and `NameAssumption` (the graph is finite, what may be typed for a recorder means a node, and nodes are
not called after errors), for any threads, handles, methods, selections and graph:

- `TypeCorrect`: `Spec => []TypeOK`.
- `OutcomeCorrect`: `Spec => []OutcomeTellsExecution`, and `PendingCorrect`: `Spec => []PendingIsLive`. Neither is
  inductive: they speak of calls that are over. `FlightInv` says of each call where it can be and what has been done
  by then: one that was sent has either its one request on its way and nothing done, or its one answer, or nothing;
  what an answer says is what was done, except that a refused selection may have dropped topics (`Once`); and a call
  that was given up has either its request still on its way and nothing done, or no request (`IdleInv`).
- `ToggleCorrect`: `Spec => ToggleTellsWhatItLeft`, an action property, from `FlightInv` with `LeftInv`: what a toggle
  left is still so or forgotten, and the answer to the question after it, on its way or taken, says the same.
- `WatchCorrect`: `Spec => []NobodyLeftBehind`, from `SeenInv`: during a fan-out the script's callback, and that of
  each wait the status satisfies, is still in it or has had its status; and the script's keeps one only while it is
  registered.
- `HeldCorrect`: `Spec => []RegisteredAsHeld`. It is nearly inductive: `HeldInv` adds that finitely many handles are
  live. The work is in counting: `PlacesAppend` and `PlacesRemove` say how often something occurs in a sequence once
  one is appended or its first occurrence taken out, the latter by a bijection between the places before and after.

`SessionProofs` proves, from `TimesAssumption` (a second, a nanosecond and a float's grain have at least a tick, and
floats fall on whole seconds), `SessionAssumption` (bounds are naturals, zones are made of integers, there are
finitely many topics), `TypedAssumption` (what each form of a time says is a number) and `NoneAssumption` (`None` is
no time and no status), for any zones, skews, delays and times:

- `TypeCorrect`: `Spec => []TypeOK`. `InstantInt` follows each form a time may have through zone and calendar.
- `RelativeCorrect`: `Spec => []RelativeTimesAreTheRecorders`. The status's stamp becomes a float, the UI adds to it,
  what was typed becomes a float and a stamp, dynrec makes a float of that and a stamp again. `FloatWithin` and
  `SplitWithin` say that each is within half a grain, and half a nanosecond, of its time, before the epoch too, and
  `Drift` adds them up: two grains and a nanosecond, half a microsecond today, beside the time the status was on its
  way.
- `StampsCorrect`: `Spec => []StampsAreLegal`, from lemmas about division and rounding halves to even.
- `WallClockCorrect`: `Spec => []WallClockIsNext`, for every time of day in every zone. The arithmetic is done once
  with the offsets, the change and the day as plain integers (`NextInstant`), and `ZoneFacts` says that a zone is an
  instance of it. What the property excepts is there because the code does it: a reading the clock jumps over comes
  out off by the change, and where a clock goes back over midnight tomorrow's time is taken for the first of its two
  instants, which may be past.

They follow from `SessionInv`: types, and of the schedule what it was made from. How long a status is on its way
before it arrives is nobody's to know: `age` counts from its arrival (`ui_node.py:227`), so
`RelativeTimesAreTheRecorders` allows `MaxLag` for it.

`ReportProofs` proves what `bag.py` computes, from `BagReportAssumption` (a threshold above zero, and `None` no
stamp):

- `MergeCorrect`: `merge_windows()` covers the seconds of any finite set of windows and no others, with windows that
  neither touch nor overlap.
- `LiveSecondsCorrect`: `live_seconds()` is the number of seconds that are in a window and in no pause. The sum over
  the windows of their lengths less the pauses in them counts each second once because merged windows share none.
- `HolesReported`: a hole in every channel's gaps is in what `unexplained_gaps()` returns, whichever channel it starts
  with.
- The lemmas `Sorts`, `RunExists`, `OneMoreEvent` and `EventWindowsInside` say what the event loop does: sorted events
  that are in order already stay as they are, and one event more is one step more.

These operators are folds, and the induction theorems of the library cannot be instantiated here. The proofs use a
least counterexample instead: of the subsets (prefixes) for which the fold would be wrong one has the fewest members,
by well-foundedness of `<`, and the fold is right for that one as it is for the one smaller by a member. That the
recursive function behind a fold exists at all is proved the same way (`FoldExists`, `LoopExists`, `RunExists`). It
takes the property to be proved as a set, so each such proof is written out for its own operator.

From these `SessionProofs` derives that the report is true of the recording, for any topics, messages, changes and
delays:

- `PausesCorrect`: `Spec => []PausesAreTheTruth`.
- `MeasuredCorrect`: `Spec => []MeasuredIsTheTruth`.
- `HolesCorrect`: `Spec => []HolesAreFound`.

The three speak of a closed bag only, so the invariant behind them, `ReportInv`, says what holds while the bag is
written. Were the events read now, the loop of `_event_windows()` would have passed over, in the windows it closed and
the one it has open, exactly the seconds that topic was subscribed, or the recorder paused, so far (`Tracks`); it has
a window open exactly if the recorder is subscribed, or is where the first change of the flag that is not told yet
began (`Agrees`, `Telling`); those changes undo each other in turn and the last is what the flag says (`Alternates`);
the events are in the order of their stamps; and no stamp is later than now. Of pauses all this holds as long as no
change was told before an earlier one. A tick extends the truth and the open window alike, with nothing untold; an
event opens or closes and no second is gained or lost in that moment; a message changes neither, however late it is
written. Without the second part a topic that was never unsubscribed could end in either state; without the last but
one, `sorted()` could move an opening behind its closing. TLC checked `ReportInv` on a small instance before it was
proved.

Every invariant and every safety action property of a passing run is a theorem, and so is the refinement. Only
model-checked: the liveness properties `MessageNeverWaits`, `EveryCallEnds` and `WatchersCatchUp`, since fairness and
ENABLED are out of the prover's reach. Not proved either, and no property of a run: that `gaps` of a report has no
hole which is not one, which run `SessionGap` refutes, and what `Warnings` and the rates come to, which are single
definitions. The seven disagreements are counterexamples and need no proof.

## Not modelled, and the plan

In order; each has its hazards in `PROJECT.json`.

1. `LossAccounting`: totals against the table under `reset()`, `drain()` and a status, on two threads. No property of
   the present modules counts what was missed or lost beyond a bag's own counters.
2. `Status` on two threads: `Session` builds a status at one moment and `Client` delivers the latest; that it is read
   field by field and that an older one can be published later is left out. So are the counters in it.
3. `Subscriptions`: the channels and their types through failed subscriptions, patterns and the graph.
4. `StorageGuard`: the measurement and its cache against a new bag; the threshold as an operator.
5. The UI beyond its times: the HTTP server, the history of 400 events, the profiles, and the browser's page
   (`app.js`), whose polls, actions and edits interleave.
6. Of `client.py`: `on_event()`, which is the registration and fan-out of `on_status()` over five subscriptions, and
   `discover()`, which is connecting without a choice.

Out of scope: timings (nothing reads them), configuration (a sequential table of checks), the arguments and the
formatting of the command line, launch files, packaging, and the rendering of the page.
