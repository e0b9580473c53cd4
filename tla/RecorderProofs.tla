--------------------------- MODULE RecorderProofs ---------------------------
(***************************************************************************)
(* Theorems about Recorder for every value of its constants.               *)
(***************************************************************************)
EXTENDS Recorder, TLAPS

\* The scheduler's part of the invariant.  Only a timer waits for a record, so
\* a record never has to be looked for in a message.
SchedulerOK ==
  /\ scheduled \in [Kinds -> Schedules \cup {NoSchedule}]
  /\ timer \in [Kinds -> BOOLEAN] /\ message_time_pending \in BOOLEAN
RecordOnTimer == ~FiresOnMessages(scheduled["record"])
SchedulerInv == SchedulerOK /\ RecordOnTimer /\ ScheduleIsLive

\* What a schedule's mode says of it.
LEMMA ModeFacts ==
  /\ NoSchedule.mode = "none" /\ ~FiresOnMessages(NoSchedule)
  /\ \A s \in Schedules : s.mode \in Modes /\ s # NoSchedule
                          /\ (FiresOnMessages(s) <=> s.mode # "node")
<1>1. NoSchedule.mode = "none" /\ ~FiresOnMessages(NoSchedule)
  BY DEF NoSchedule, FiresOnMessages
<1>2. \A s \in Schedules : s.mode \in Modes /\ (FiresOnMessages(s) <=> s.mode # "node")
  BY DEF Schedules, Modes, FiresOnMessages
<1>3. \A s \in Schedules : s # NoSchedule
  BY <1>1, <1>2 DEF Modes
<1>4. QED
  BY <1>1, <1>2, <1>3

\* A new schedule replaces the old one, its timer and the flag with it.
LEMMA ScheduleKeeps ==
  ASSUME SchedulerInv, NEW k \in Kinds, NEW s \in Schedules,
         k = "record" => s.mode = "node", Schedule(k, s)
  PROVE  SchedulerInv'
<1>1. SchedulerOK'
  BY DEF SchedulerInv, SchedulerOK, Schedule, UpdatePending, Kinds
<1>2. RecordOnTimer'
  BY ModeFacts DEF SchedulerInv, SchedulerOK, RecordOnTimer, Schedule, Kinds
<1>3. ScheduleIsLive'
  <2>1. \A j \in Kinds : scheduled'[j] = (IF j = k THEN s ELSE scheduled[j])
    BY DEF SchedulerInv, SchedulerOK, Schedule
  <2>2. \A j \in Kinds : timer'[j] <=> scheduled'[j].mode = "node"
    <3> TAKE j \in Kinds
    <3>1. CASE j = k
      BY <3>1, <2>1 DEF SchedulerInv, SchedulerOK, Schedule
    <3>2. CASE j # k
      <4>1. timer'[j] = timer[j]
        BY <3>2 DEF SchedulerInv, SchedulerOK, Schedule
      <4>2. QED
        BY <4>1, <3>2, <2>1 DEF SchedulerInv, ScheduleIsLive
    <3>3. QED
      BY <3>1, <3>2
  <2>3. \A j \in Kinds : FiresOnMessages(scheduled'[j]) => message_time_pending'
    BY <1>2 DEF Schedule, UpdatePending, RecordOnTimer, Kinds
  <2>4. QED
    BY <2>2, <2>3 DEF ScheduleIsLive
<1>4. QED
  BY <1>1, <1>2, <1>3 DEF SchedulerInv

\* A timer leaves with its schedule, which no message was looked at for.
LEMMA TimerFiresKeeps ==
  ASSUME SchedulerInv, NEW k \in Kinds, TimerFires(k)
  PROVE  SchedulerInv'
<1>1. SchedulerOK'
  BY DEF SchedulerInv, SchedulerOK, TimerFires
<1>2. \A j \in Kinds : scheduled'[j] = (IF j = k THEN NoSchedule ELSE scheduled[j])
  BY DEF SchedulerInv, SchedulerOK, TimerFires
<1>3. RecordOnTimer'
  BY <1>2, ModeFacts DEF SchedulerInv, RecordOnTimer, Kinds
<1>4. \A j \in Kinds : timer'[j] <=> scheduled'[j].mode = "node"
  <2> TAKE j \in Kinds
  <2>1. CASE j = k
    BY <2>1, <1>2, ModeFacts DEF SchedulerInv, SchedulerOK, TimerFires
  <2>2. CASE j # k
    <3>1. timer'[j] = timer[j]
      BY <2>2 DEF SchedulerInv, SchedulerOK, TimerFires
    <3>2. QED
      BY <3>1, <2>2, <1>2 DEF SchedulerInv, ScheduleIsLive
  <2>3. QED
    BY <2>1, <2>2
<1>5. \A j \in Kinds : FiresOnMessages(scheduled'[j]) => message_time_pending'
  BY <1>2, ModeFacts DEF SchedulerInv, ScheduleIsLive, TimerFires
<1>6. QED
  BY <1>1, <1>3, <1>4, <1>5 DEF SchedulerInv, ScheduleIsLive

\* take_due() takes schedules no timer waits for.
LEMMA TakeDueKeeps ==
  ASSUME SchedulerInv, NEW topic, NEW send, NEW recv, TakeDue(topic, send, recv)
  PROVE  SchedulerInv'
<1>1. \A j \in Kinds : scheduled'[j] = (IF j \in Due(topic, send, recv) THEN NoSchedule ELSE scheduled[j])
  BY DEF TakeDue
<1>2. \A j \in Kinds : j \in Due(topic, send, recv) => scheduled[j].mode # "node"
  BY DEF Due, IsDue, FiresOnMessages
<1>3. SchedulerOK'
  <2>1. scheduled' \in [Kinds -> Schedules \cup {NoSchedule}]
    BY DEF SchedulerInv, SchedulerOK, TakeDue
  <2>2. timer' \in [Kinds -> BOOLEAN]
    BY DEF SchedulerInv, SchedulerOK, TakeDue
  <2>3. message_time_pending' \in BOOLEAN
    BY DEF SchedulerInv, SchedulerOK, TakeDue, UpdatePending
  <2>4. QED
    BY <2>1, <2>2, <2>3 DEF SchedulerOK
<1>4. RecordOnTimer'
  BY <1>1, ModeFacts DEF SchedulerInv, RecordOnTimer, Kinds
<1>5. \A j \in Kinds : timer'[j] <=> scheduled'[j].mode = "node"
  BY <1>1, <1>2, ModeFacts DEF SchedulerInv, ScheduleIsLive, TakeDue
<1>6. \A j \in Kinds : FiresOnMessages(scheduled'[j]) => message_time_pending'
  <2>1. CASE message_time_pending
    BY <2>1, <1>4 DEF TakeDue, UpdatePending, RecordOnTimer, Kinds
  <2>2. CASE ~message_time_pending
    BY <2>2, <1>1, ModeFacts DEF SchedulerInv, ScheduleIsLive, TakeDue
  <2>3. QED
    BY <2>1, <2>2
<1>7. QED
  BY <1>3, <1>4, <1>5, <1>6 DEF SchedulerInv, ScheduleIsLive

\* clear() leaves the record, with its timer.
LEMMA ClearKeeps ==
  ASSUME SchedulerInv, Clear
  PROVE  SchedulerInv' /\ scheduled'["resume"] = NoSchedule /\ scheduled'["split"] = NoSchedule
<1>1. SchedulerOK'
  BY DEF SchedulerInv, SchedulerOK, Clear, UpdatePending, Kinds
<1>2. /\ scheduled'["resume"] = NoSchedule /\ scheduled'["split"] = NoSchedule
      /\ scheduled'["record"] = scheduled["record"]
  BY DEF SchedulerInv, SchedulerOK, Clear, Kinds
<1>3. timer'["resume"] = FALSE /\ timer'["split"] = FALSE /\ timer'["record"] = timer["record"]
  BY DEF SchedulerInv, SchedulerOK, Clear, Kinds
<1>4. RecordOnTimer'
  BY <1>2 DEF SchedulerInv, RecordOnTimer
<1>5. ScheduleIsLive'
  <2>1. timer["record"] <=> scheduled["record"].mode = "node"
    BY DEF SchedulerInv, ScheduleIsLive, Kinds
  <2>2. QED
    BY <2>1, <1>2, <1>3, <1>4, ModeFacts DEF ScheduleIsLive, RecordOnTimer, Kinds
<1>6. QED
  BY <1>1, <1>2, <1>4, <1>5 DEF SchedulerInv
-----------------------------------------------------------------------------
(* What the threads still have to do.                                      *)

\* The steps a callback is made of, and what each can be given.
Verbs == {"open", "close", "drop", "clear", "pause", "resume", "split", "subscribe", "unsubscribe",
          "check_free_space", "check_bag_size", "stoppedFor", "event", "initialPauseState", "restore",
          "takeDeferred", "fileSplit", "takeDue", "gate", "write", "stage"}
Args == {Now, NoSchedule} \cup Schedules \cup (SUBSET Topics) \cup (Topics \X Stamps \X Stamps)
          \cup Nat \cup {"PAUSED", "RESUMED", "other", "check_free_space", "check_bag_size"}
Steps == [do : Verbs, arg : Args]

\* Beside its type, a close to come has a bag to close.
StepInv(s) == StepOK(s) /\ (s.do = "close" => bag > 0)
TodoOK ==
  /\ todo \in [Threads -> Seq(Steps)]
  /\ \A t \in Threads : \A i \in 1..Len(todo[t]) : StepInv(todo[t][i])

\* A close to come is followed by a clear(), and a stopped recorder that has no
\* clear() to come has nothing queued.
ClearFollows(q) ==
  \A i \in 1..Len(q) : q[i].do = "close" => \E j \in i + 1..Len(q) : q[j].do = "clear"
WillClear(q) == \E i \in 1..Len(q) : q[i].do = "clear"
StopInv ==
  /\ ClearFollows(todo["svc"])
  /\ ~open /\ ~WillClear(todo["svc"]) =>
       scheduled["resume"] = NoSchedule /\ scheduled["split"] = NoSchedule

\* Where the elements of a concatenation come from.
LEMMA ConcatFacts ==
  ASSUME NEW S, NEW s \in Seq(S), NEW t \in Seq(S)
  PROVE  /\ s \o t \in Seq(S) /\ Len(s \o t) = Len(s) + Len(t)
         /\ \A i \in 1..Len(s) : (s \o t)[i] = s[i]
         /\ \A i \in 1..Len(t) : (s \o t)[Len(s) + i] = t[i]
         /\ \A i \in 1..Len(s \o t) :
              \/ i \in 1..Len(s) /\ (s \o t)[i] = s[i]
              \/ i - Len(s) \in 1..Len(t) /\ (s \o t)[i] = t[i - Len(s)]
OBVIOUS

\* What is left once the head is taken.
LEMMA TailFacts ==
  ASSUME NEW S, NEW q \in Seq(S), q # <<>>
  PROVE  /\ Tail(q) \in Seq(S) /\ Len(Tail(q)) = Len(q) - 1 /\ Len(q) > 0
         /\ \A i \in 1..Len(Tail(q)) : i + 1 \in 1..Len(q) /\ Tail(q)[i] = q[i + 1]
         /\ Head(q) = q[1] /\ Head(q) \in S
OBVIOUS

\* Steps put in front keep every clear() behind its close.
LEMMA ClearFollowsConcat ==
  ASSUME NEW S, NEW s \in Seq(S), NEW t \in Seq(S), ClearFollows(s), ClearFollows(t)
  PROVE  ClearFollows(s \o t)
<1> SUFFICES ASSUME NEW i \in 1..Len(s \o t), (s \o t)[i].do = "close"
             PROVE  \E j \in i + 1..Len(s \o t) : (s \o t)[j].do = "clear"
  BY DEF ClearFollows
<1>1. CASE i \in 1..Len(s) /\ (s \o t)[i] = s[i]
  <2>1. PICK j \in i + 1..Len(s) : s[j].do = "clear"
    BY <1>1 DEF ClearFollows
  <2>2. j \in i + 1..Len(s \o t) /\ (s \o t)[j] = s[j]
    BY <1>1, <2>1, ConcatFacts
  <2>3. QED
    BY <2>1, <2>2
<1>2. CASE i - Len(s) \in 1..Len(t) /\ (s \o t)[i] = t[i - Len(s)]
  <2>1. PICK j \in (i - Len(s)) + 1..Len(t) : t[j].do = "clear"
    BY <1>2 DEF ClearFollows
  <2>2. Len(s) + j \in i + 1..Len(s \o t) /\ (s \o t)[Len(s) + j] = t[j]
    BY <1>2, <2>1, ConcatFacts
  <2>3. QED
    BY <2>1, <2>2
<1>3. QED
  BY <1>1, <1>2, ConcatFacts

\* So does taking the head, and a clear() that was not the head is still to come.
LEMMA ClearFollowsTail ==
  ASSUME NEW S, NEW q \in Seq(S), q # <<>>, ClearFollows(q)
  PROVE  /\ ClearFollows(Tail(q))
         /\ WillClear(q) /\ Head(q).do # "clear" => WillClear(Tail(q))
         /\ Head(q).do = "close" => WillClear(Tail(q))
<1>1. \A j \in 2..Len(q) : j - 1 \in 1..Len(Tail(q)) /\ Tail(q)[j - 1] = q[j]
  BY TailFacts
<1>2. ClearFollows(Tail(q))
  <2> SUFFICES ASSUME NEW i \in 1..Len(Tail(q)), Tail(q)[i].do = "close"
               PROVE  \E j \in i + 1..Len(Tail(q)) : Tail(q)[j].do = "clear"
    BY DEF ClearFollows
  <2>1. PICK j \in (i + 1) + 1..Len(q) : q[j].do = "clear"
    BY TailFacts DEF ClearFollows
  <2>2. j - 1 \in i + 1..Len(Tail(q)) /\ Tail(q)[j - 1] = q[j]
    BY <1>1, TailFacts
  <2>3. QED
    BY <2>1, <2>2
<1>3. WillClear(q) /\ Head(q).do # "clear" => WillClear(Tail(q))
  BY <1>1, TailFacts DEF WillClear
<1>4. Head(q).do = "close" => WillClear(Tail(q))
  <2> SUFFICES ASSUME Head(q).do = "close" PROVE WillClear(Tail(q))
    OBVIOUS
  <2>1. PICK j \in 1 + 1..Len(q) : q[j].do = "clear"
    BY TailFacts DEF ClearFollows
  <2>2. QED
    BY <2>1, <1>1 DEF WillClear
<1>5. QED
  BY <1>2, <1>3, <1>4

\* A clear() in either part is to come.
LEMMA WillClearConcat ==
  ASSUME NEW S, NEW s \in Seq(S), NEW t \in Seq(S), WillClear(s) \/ WillClear(t)
  PROVE  WillClear(s \o t)
<1>1. CASE WillClear(s)
  <2>1. PICK i \in 1..Len(s) : s[i].do = "clear"
    BY <1>1 DEF WillClear
  <2>2. QED
    BY <2>1, ConcatFacts DEF WillClear
<1>2. CASE WillClear(t)
  <2>1. PICK i \in 1..Len(t) : t[i].do = "clear"
    BY <1>2 DEF WillClear
  <2>2. Len(s) + i \in 1..Len(s \o t)
    BY <2>1, ConcatFacts
  <2>3. QED
    BY <2>1, <2>2, ConcatFacts DEF WillClear
<1>3. QED
  BY <1>1, <1>2
-----------------------------------------------------------------------------
(* The invariant, and what a thread's step does to it.                     *)

BagOK ==
  /\ open \in BOOLEAN /\ bag \in 0..MaxBags /\ (open => bag > 0)
  /\ entries \in Seq({"PAUSED", "RESUMED"})
ControlOK ==
  /\ paused \in BOOLEAN /\ subscriptions \subseteq Topics /\ topics_at_stop \subseteq Topics
  /\ stopped_for_low_disk \in BOOLEAN /\ stopped_for_max_bag_size \in BOOLEAN
DeferredOK == deferred \in Seq(1..bag) /\ deferred_timer \in BOOLEAN /\ NoEventStranded
RecorderInv == SchedulerInv /\ BagOK /\ ControlOK /\ DeferredOK /\ TodoOK /\ StopInv

\* Steps a thread may be given: typed, and with a clear() behind every close.
GoodSteps(s) == s \in Seq(Steps) /\ ClearFollows(s) /\ \A i \in 1..Len(s) : StepInv(s[i])
NothingQueued == scheduled["resume"] = NoSchedule /\ scheduled["split"] = NoSchedule

\* None, one or two steps that close nothing are good.
LEMMA FewGood ==
  /\ GoodSteps(<<>>)
  /\ \A a \in Steps : StepInv(a) /\ a.do # "close" => GoodSteps(<<a>>)
  /\ \A a, b \in Steps : StepInv(a) /\ StepInv(b) /\ a.do # "close" /\ b.do # "close"
                           => GoodSteps(<<a, b>>)
BY DEF GoodSteps, ClearFollows

\* Good steps one after the other are good.
LEMMA ConcatGood ==
  ASSUME NEW s, NEW t, GoodSteps(s), GoodSteps(t)
  PROVE  GoodSteps(s \o t)
<1>1. ClearFollows(s \o t)
  BY ClearFollowsConcat DEF GoodSteps
<1>2. QED
  BY <1>1, ConcatFacts DEF GoodSteps

\* The steps of stop() are good when there is a bag to close.
LEMMA StoppingGood ==
  ASSUME bag > 0
  PROVE  GoodSteps(Stopping)
<1>1. Stopping \in Seq(Steps)
  BY DEF Stopping, Step, Steps, Verbs, Args
<1>2. \A i \in 1..Len(Stopping) : StepInv(Stopping[i])
  BY DEF Stopping, Step, StepInv, StepOK
<1>3. ClearFollows(Stopping)
  BY DEF Stopping, Step, ClearFollows
<1>4. QED
  BY <1>1, <1>2, <1>3 DEF GoodSteps

\* A step stays what it is when another bag was opened.
LEMMA StepInvGrows ==
  ASSUME NEW s, StepInv(s), bag \in Nat, bag' \in Nat, bag <= bag'
  PROVE  StepInv(s)'
BY DEF StepInv, StepOK

\* So does a queue of bags that were opened.
LEMMA SeqGrows ==
  ASSUME NEW m \in Nat, NEW n \in Nat, m <= n, NEW s \in Seq(1..m)
  PROVE  s \in Seq(1..n)
<1>1. Len(s) \in Nat /\ s = [i \in 1..Len(s) |-> s[i]]
  OBVIOUS
<1>2. \A i \in 1..Len(s) : s[i] \in 1..n
  OBVIOUS
<1> DEFINE k == Len(s)
<1>3. [i \in 1..k |-> s[i]] \in Seq(1..n)
  BY <1>1, <1>2
<1>4. QED
  BY <1>1, <1>3

\* The step a thread is at.
LEMMA HeadFacts ==
  ASSUME TodoOK, NEW t \in Threads, NEW d, Doing(t, d)
  PROVE  /\ todo[t] # <<>> /\ todo[t] \in Seq(Steps)
         /\ Head(todo[t]) \in Steps /\ StepInv(Head(todo[t])) /\ Head(todo[t]).do = d
BY TailFacts DEF TodoOK, Doing

\* Leaving a step is going on with no new ones.
LEMMA DoneIsThen ==
  ASSUME TodoOK, NEW t \in Threads, todo[t] # <<>>, Done(t)
  PROVE  Then(t, <<>>)
<1>1. Tail(todo[t]) \in Seq(Steps)
  BY TailFacts DEF TodoOK
<1>2. <<>> \o Tail(todo[t]) = Tail(todo[t])
  BY <1>1
<1>3. QED
  BY <1>2 DEF Done, Then, TodoOK

\* A thread goes on with good steps: any but a clear() and a close, which have
\* lemmas of their own below, keeps what a stop owes.
LEMMA ThenTodo ==
  ASSUME TodoOK, bag \in Nat, bag' \in Nat, bag <= bag',
         NEW t \in Threads, todo[t] # <<>>, NEW s, GoodSteps(s), Then(t, s)
  PROVE  TodoOK' /\ todo' = [todo EXCEPT ![t] = s \o Tail(todo[t])]
<1> DEFINE q == s \o Tail(todo[t])
<1>1. todo' = [todo EXCEPT ![t] = q]
  BY DEF Then, TodoOK
<1>2. todo[t] \in Seq(Steps) /\ Tail(todo[t]) \in Seq(Steps) /\ s \in Seq(Steps)
  BY TailFacts DEF TodoOK, GoodSteps
<1>3. q \in Seq(Steps) /\ \A i \in 1..Len(q) : StepInv(q[i])
  <2>1. \A i \in 1..Len(Tail(todo[t])) : StepInv(Tail(todo[t])[i])
    BY TailFacts, <1>2 DEF TodoOK
  <2>2. q \in Seq(Steps)
    BY <1>2
  <2>3. ASSUME NEW i \in 1..Len(q) PROVE StepInv(q[i])
    <3>1. \/ i \in 1..Len(s) /\ q[i] = s[i]
          \/ i - Len(s) \in 1..Len(Tail(todo[t])) /\ q[i] = Tail(todo[t])[i - Len(s)]
      BY <1>2, ConcatFacts
    <3>2. QED
      BY <3>1, <2>1 DEF GoodSteps
  <2>4. QED
    BY <2>2, <2>3
<1> HIDE DEF q
<1>4. \A u \in Threads : todo'[u] \in Seq(Steps) /\ \A i \in 1..Len(todo'[u]) : StepInv(todo'[u][i])
  BY <1>1, <1>3 DEF TodoOK
<1>5. \A u \in Threads : \A i \in 1..Len(todo'[u]) : StepInv(todo[u][i])'
  BY <1>4, StepInvGrows
<1>6. todo' \in [Threads -> Seq(Steps)]
  BY <1>1, <1>3 DEF TodoOK
<1>7. QED
  BY <1>1, <1>5, <1>6 DEF TodoOK, q

\* What a stop owes is kept by every step but a clear() and a close.
LEMMA ThenStop ==
  ASSUME TodoOK, StopInv, NEW t \in Threads, todo[t] # <<>>, NEW s, GoodSteps(s),
         todo' = [todo EXCEPT ![t] = s \o Tail(todo[t])],
         t = "svc" => Head(todo[t]).do # "clear",
         open' \/ open' = open, NothingQueued => NothingQueued'
  PROVE  StopInv'
<1>1. CASE t = "svc"
  <2>1. todo'["svc"] = s \o Tail(todo["svc"]) /\ todo["svc"] \in Seq(Steps) /\ s \in Seq(Steps)
        /\ Tail(todo["svc"]) \in Seq(Steps) /\ ClearFollows(s)
    BY <1>1, TailFacts DEF TodoOK, GoodSteps, Threads
  <2>2. ClearFollows(todo'["svc"])
    BY <2>1, <1>1, ClearFollowsTail, ClearFollowsConcat DEF StopInv
  <2>3. WillClear(todo["svc"]) => WillClear(todo'["svc"])
    BY <2>1, <1>1, ClearFollowsTail, WillClearConcat DEF StopInv
  <2>4. QED
    BY <2>2, <2>3 DEF StopInv, NothingQueued
<1>2. CASE t # "svc"
  <2>1. todo'["svc"] = todo["svc"]
    BY <1>2 DEF TodoOK, Threads
  <2>2. QED
    BY <2>1 DEF StopInv, NothingQueued
<1>3. QED
  BY <1>1, <1>2

\* Both together, for a step that leaves the scheduler alone.
LEMMA ThenKeeps ==
  ASSUME RecorderInv, bag' \in Nat, bag <= bag', open' \/ open' = open,
         NEW t \in Threads, NEW d, Doing(t, d), t = "svc" => d # "clear",
         NEW s, GoodSteps(s), Then(t, s), NothingQueued => NothingQueued'
  PROVE  TodoOK' /\ StopInv'
<1>1. TodoOK /\ StopInv /\ bag \in Nat
  BY RecorderAssumption DEF RecorderInv, BagOK, RecorderAssumption
<1>2. todo[t] # <<>> /\ Head(todo[t]).do = d
  BY <1>1, HeadFacts
<1>3. TodoOK' /\ todo' = [todo EXCEPT ![t] = s \o Tail(todo[t])]
  BY <1>1, <1>2, ThenTodo
<1>4. StopInv'
  BY <1>1, <1>2, <1>3, ThenStop
<1>5. QED
  BY <1>3, <1>4

\* A step that is left keeps them.
LEMMA DoneKeeps ==
  ASSUME RecorderInv, bag' \in Nat, bag <= bag', open' \/ open' = open,
         NEW t \in Threads, NEW d, Doing(t, d), t = "svc" => d # "clear",
         Done(t), NothingQueued => NothingQueued'
  PROVE  TodoOK' /\ StopInv'
<1>1. Then(t, <<>>)
  BY HeadFacts, DoneIsThen DEF RecorderInv
<1>2. QED
  BY <1>1, FewGood, ThenKeeps

\* A thread with nothing to do begins with good steps.
LEMMA StartKeeps ==
  ASSUME RecorderInv, bag' = bag, open' = open, open \/ (NothingQueued => NothingQueued'),
         NEW t \in Threads, todo[t] = <<>>, NEW s, GoodSteps(s), todo' = [todo EXCEPT ![t] = s]
  PROVE  TodoOK' /\ StopInv'
<1>1. TodoOK /\ StopInv /\ bag \in Nat
  BY RecorderAssumption DEF RecorderInv, BagOK, RecorderAssumption
<1>2. \A u \in Threads : todo'[u] \in Seq(Steps) /\ \A i \in 1..Len(todo'[u]) : StepInv(todo'[u][i])
  BY <1>1 DEF TodoOK, GoodSteps
<1>3. \A u \in Threads : \A i \in 1..Len(todo'[u]) : StepInv(todo[u][i])'
  BY <1>1, <1>2, StepInvGrows
<1>4. TodoOK'
  BY <1>1, <1>2, <1>3 DEF TodoOK
<1>5. ClearFollows(todo'["svc"]) /\ (WillClear(todo["svc"]) => WillClear(todo'["svc"]))
  BY <1>1 DEF TodoOK, StopInv, Threads, GoodSteps, WillClear
<1>6. QED
  BY <1>1, <1>4, <1>5 DEF StopInv, NothingQueued
-----------------------------------------------------------------------------
(* Every step keeps the invariant.                                         *)

\* Parts a step leaves alone stay as they are.
LEMMA SameParts ==
  ASSUME RecorderInv
  PROVE  /\ UNCHANGED schedulerVars => SchedulerInv' /\ (NothingQueued => NothingQueued')
         /\ UNCHANGED bagVars => BagOK' /\ bag' = bag /\ open' = open
         /\ UNCHANGED <<open, bag>> => bag' = bag /\ open' = open
         /\ UNCHANGED <<pauseVars, selectionVars, stopVars>> => ControlOK'
         /\ UNCHANGED rollVars /\ bag' = bag => DeferredOK'
         /\ bag \in Nat
<1>1. UNCHANGED schedulerVars => SchedulerInv' /\ (NothingQueued => NothingQueued')
  BY DEF RecorderInv, schedulerVars, SchedulerInv, SchedulerOK, RecordOnTimer, ScheduleIsLive, NothingQueued
<1>2. UNCHANGED bagVars => BagOK' /\ bag' = bag /\ open' = open
  BY DEF RecorderInv, bagVars, BagOK
<1>3. UNCHANGED <<pauseVars, selectionVars, stopVars>> => ControlOK'
  BY DEF RecorderInv, pauseVars, selectionVars, stopVars, ControlOK
<1>4. UNCHANGED rollVars /\ bag' = bag => DeferredOK'
  BY DEF RecorderInv, rollVars, DeferredOK, NoEventStranded
<1>5. bag \in Nat
  BY RecorderAssumption DEF RecorderInv, BagOK, RecorderAssumption
<1>6. QED
  BY <1>1, <1>2, <1>3, <1>4, <1>5

\* Rollovers of a bag that was opened keep the queue and its timer.
LEMMA RollOverKeeps ==
  ASSUME RecorderInv, bag' = bag, bag > 0, NEW k \in Nat, RollOver(k)
  PROVE  DeferredOK'
<1> DEFINE more == [i \in 1..k |-> bag]
<1>1. bag \in 1..bag /\ deferred \in Seq(1..bag)
  BY SameParts DEF RecorderInv, DeferredOK
<1>2. more \in Seq(1..bag) /\ Len(more) = k
  BY <1>1
<1>3. deferred' = deferred \o more /\ deferred_timer' = (deferred_timer \/ k > 0)
  BY DEF RollOver
<1> HIDE DEF more
<1>4. deferred \o more \in Seq(1..bag)
  BY <1>1, <1>2, ConcatFacts
<1>5. deferred' # <<>> => deferred # <<>> \/ k > 0
  BY <1>1, <1>2, <1>3
<1>6. QED
  BY <1>3, <1>4, <1>5 DEF RecorderInv, DeferredOK, NoEventStranded

\* So does an operation of the bag.
LEMMA MayRollOver ==
  ASSUME RecorderInv, bag' = bag,
         \/ UNCHANGED rollVars
         \/ open /\ \E n : \E k \in 0..n : RollOver(k)
         \/ \E n : Operation(n)
  PROVE  DeferredOK'
<1>1. open => bag > 0
  BY DEF RecorderInv, BagOK
<1>2. \/ UNCHANGED rollVars
      \/ open /\ \E n : \E k \in 0..n : RollOver(k)
  BY DEF Operation, Flush
<1>3. ASSUME open, NEW n, NEW k \in 0..n, RollOver(k) PROVE DeferredOK'
  <2>1. k \in Nat
    OBVIOUS
  <2>2. QED
    BY <1>1, <1>3, <2>1, RollOverKeeps
<1>4. QED
  BY <1>2, <1>3, SameParts

\* A service call with good steps.
LEMMA CallKeeps ==
  ASSUME RecorderInv, NEW steps, GoodSteps(steps), Call(steps), UNCHANGED schedulerVars
  PROVE  RecorderInv'
<1>1. SchedulerInv' /\ (NothingQueued => NothingQueued')
  BY SameParts
<1>2. BagOK' /\ ControlOK' /\ DeferredOK' /\ bag' = bag /\ open' = open
  BY SameParts DEF Call
<1>3. TodoOK' /\ StopInv'
  BY <1>1, <1>2, StartKeeps DEF Call, Begin, Threads
<1>4. QED
  BY <1>1, <1>2, <1>3 DEF RecorderInv

\* What a step can be, for each of the verbs it is given.
LEMMA StepFacts ==
  /\ Now \in Args /\ Now \notin Schedules
  /\ \A d \in Verbs, a \in Args :
       /\ Step(d, a) \in Steps /\ Step(d, a).do = d /\ Step(d, a).arg = a
       /\ d \notin {"subscribe", "unsubscribe", "fileSplit", "event", "close"} => StepInv(Step(d, a))
       /\ d \in {"subscribe", "unsubscribe"} /\ a \in SUBSET Topics => StepInv(Step(d, a))
       /\ d = "event" /\ a \in {"PAUSED", "RESUMED", "other"} => StepInv(Step(d, a))
       /\ d = "fileSplit" /\ a \in 1..bag => StepInv(Step(d, a))
<1>1. Now \in Args
  BY DEF Args
<1>2. Now \notin Schedules
  BY DEF Now, Schedules, Modes
<1>3. QED
  BY <1>1, <1>2 DEF Step, Steps, StepInv, StepOK

\* Single steps of any verb whose argument does not matter.
LEMMA OneGood ==
  ASSUME NEW d \in Verbs, NEW a \in Args,
         \/ d \notin {"subscribe", "unsubscribe", "fileSplit", "event", "close"}
         \/ d \in {"subscribe", "unsubscribe"} /\ a \in SUBSET Topics
         \/ d = "event" /\ a \in {"PAUSED", "RESUMED", "other"}
  PROVE  GoodSteps(<<Step(d, a)>>)
BY FewGood, StepFacts

\* Two such steps.
LEMMA TwoGood ==
  ASSUME NEW s, NEW t, GoodSteps(<<s>>), GoodSteps(<<t>>)
  PROVE  GoodSteps(<<s, t>>)
<1>1. ASSUME NEW a, GoodSteps(<<a>>) PROVE a \in Steps /\ StepInv(a) /\ a.do # "close"
  BY <1>1 DEF GoodSteps, ClearFollows
<1>2. QED
  BY <1>1, FewGood

\* A service call or a timer, on an idle services thread.
LEMMA RequestStep ==
  ASSUME RecorderInv, Request \/ DeferredTimer \/ \E k \in Kinds : NodeTimer(k)
  PROVE  RecorderInv'
<1>1. CASE CallPause
  <2>1. GoodSteps(<<Step("pause", Now)>>)
    BY OneGood, StepFacts DEF Verbs
  <2>2. QED
    BY <1>1, <2>1, CallKeeps DEF CallPause
<1>2. CASE CallToggle
  <2>1. GoodSteps(<<Step(IF paused THEN "resume" ELSE "pause", Now)>>)
    BY OneGood, StepFacts DEF Verbs
  <2>2. QED
    BY <1>2, <2>1, CallKeeps DEF CallToggle
<1>3. CASE CallRecord
  <2>1. GoodSteps(<<Step("open", Now)>>)
    BY OneGood, StepFacts DEF Verbs
  <2>2. QED
    BY <1>3, <2>1, CallKeeps DEF CallRecord
<1>4. CASE CallUnsubscribe
  <2>1. PICK D \in SUBSET Topics : Call(<<Step("unsubscribe", D)>>) /\ UNCHANGED schedulerVars
    BY <1>4 DEF CallUnsubscribe
  <2>2. GoodSteps(<<Step("unsubscribe", D)>>)
    BY OneGood DEF Verbs, Args
  <2>3. QED
    BY <2>1, <2>2, CallKeeps
<1>5. CASE CallResume
  <2>1. GoodSteps(<<Step("resume", Now)>>)
    BY OneGood, StepFacts DEF Verbs
  <2>2. QED
    BY <1>5, <2>1, CallKeeps DEF CallResume
<1>6. CASE CallSplit
  <2>1. GoodSteps(<<Step("split", Now)>>)
    BY OneGood, StepFacts DEF Verbs
  <2>2. QED
    BY <1>6, <2>1, CallKeeps DEF CallSplit
<1>7. CASE CallStop
  <2>1. GoodSteps(Stopping)
    BY <1>7, StoppingGood DEF CallStop, RecorderInv, BagOK
  <2>2. QED
    BY <1>7, <2>1, CallKeeps DEF CallStop
<1>8. CASE CallSubscribe
  <2>1. PICK D \in SUBSET Topics : Call(<<Step("subscribe", D)>>) /\ UNCHANGED schedulerVars
    BY <1>8 DEF CallSubscribe
  <2>2. GoodSteps(<<Step("subscribe", D)>>)
    BY OneGood DEF Verbs, Args
  <2>3. QED
    BY <2>1, <2>2, CallKeeps
<1>9. CASE CallSetTopics
  <2>1. PICK D \in SUBSET Topics : /\ Call(<<Step("unsubscribe", subscriptions \ D), Step("subscribe", D)>>)
                                   /\ UNCHANGED schedulerVars
    BY <1>9 DEF CallSetTopics
  <2>2. subscriptions \ D \in SUBSET Topics
    BY DEF RecorderInv, ControlOK
  <2>3. GoodSteps(<<Step("unsubscribe", subscriptions \ D)>>) /\ GoodSteps(<<Step("subscribe", D)>>)
    BY <2>2, OneGood DEF Verbs, Args
  <2>4. QED
    BY <2>1, <2>3, TwoGood, CallKeeps
<1>10. CASE CallSchedule
  <2>1. PICK k \in Kinds, mode \in Modes, at \in Times, tracking \in subscriptions \cup {AnyTopic} :
          /\ k = "record" => ~open /\ mode = "node"
          /\ k # "record" => open
          /\ Schedule(k, [mode |-> mode, at |-> at, tracking |-> tracking, bag |-> bag])
          /\ Call(<<>>)
    BY <1>10 DEF CallSchedule
  <2> DEFINE s == [mode |-> mode, at |-> at, tracking |-> tracking, bag |-> bag]
  <2>2. s \in Schedules /\ s.mode = mode
    BY DEF RecorderInv, ControlOK, BagOK, Schedules
  <2>3. SchedulerInv'
    BY <2>1, <2>2, ScheduleKeeps DEF RecorderInv
  <2>4. BagOK' /\ ControlOK' /\ DeferredOK' /\ bag' = bag /\ open' = open
    BY <2>1, SameParts DEF Call
  <2>5. open \/ (NothingQueued => NothingQueued')
    BY <2>1 DEF Schedule, NothingQueued, Kinds, RecorderInv, SchedulerInv, SchedulerOK
  <2>6. TodoOK' /\ StopInv'
    BY <2>1, <2>4, <2>5, FewGood, StartKeeps DEF Call, Begin, Threads
  <2>7. QED
    BY <2>3, <2>4, <2>6 DEF RecorderInv
<1>11. CASE StorageTick
  <2>1. GoodSteps(<<Step("check_free_space", Now), Step("check_bag_size", Now)>>)
    BY OneGood, TwoGood, StepFacts DEF Verbs
  <2>2. QED
    BY <1>11, <2>1, CallKeeps DEF StorageTick
<1>12. CASE DeferredTimer
  <2>1. GoodSteps(<<Step("takeDeferred", Now)>>)
    BY OneGood, StepFacts DEF Verbs
  <2>2. SchedulerInv' /\ BagOK' /\ ControlOK' /\ DeferredOK' /\ bag' = bag /\ open' = open
        /\ (NothingQueued => NothingQueued')
    BY <1>12, SameParts DEF DeferredTimer
  <2>3. TodoOK' /\ StopInv'
    BY <1>12, <2>1, <2>2, StartKeeps DEF DeferredTimer, Begin, Threads
  <2>4. QED
    BY <2>2, <2>3 DEF RecorderInv
<1>13. CASE \E k \in Kinds : NodeTimer(k)
  <2>1. PICK k \in Kinds : NodeTimer(k)
    BY <1>13
  <2>2. scheduled[k] \in Args
    BY DEF RecorderInv, SchedulerInv, SchedulerOK, Args
  <2>3. GoodSteps(<<Step(IF k = "record" THEN "open" ELSE k, scheduled[k])>>)
    BY <2>2, OneGood DEF Verbs, Kinds
  <2>4. SchedulerInv'
    BY <2>1, TimerFiresKeeps DEF NodeTimer, RecorderInv
  <2>5. BagOK' /\ ControlOK' /\ DeferredOK' /\ bag' = bag /\ open' = open
    BY <2>1, SameParts DEF NodeTimer
  <2>6. NothingQueued => NothingQueued'
    BY <2>1 DEF NodeTimer, TimerFires, NothingQueued, Kinds, RecorderInv, SchedulerInv, SchedulerOK
  <2>7. TodoOK' /\ StopInv'
    BY <2>1, <2>3, <2>5, <2>6, StartKeeps DEF NodeTimer, Begin, Threads
  <2>8. QED
    BY <2>4, <2>5, <2>7 DEF RecorderInv
<1>14. QED
  BY <1>1, <1>2, <1>3, <1>4, <1>5, <1>6, <1>7, <1>8, <1>9, <1>10, <1>11, <1>12, <1>13 DEF Request

\* A step of either thread that may roll over, write an event or a message.
LEMMA WritingStep ==
  ASSUME RecorderInv, NEW t \in Threads, WriteEvent(t) \/ Split(t) \/ RecordFileSplit \/ WriteMessage
  PROVE  RecorderInv'
<1>1. /\ UNCHANGED <<schedulerVars, open, bag, pauseVars, selectionVars, stopVars>>
      /\ \/ UNCHANGED rollVars
         \/ open /\ \E n : \E k \in 0..n : RollOver(k)
         \/ \E n : Operation(n)
  BY DEF WriteEvent, Split, RecordFileSplit, WriteMessage
<1>2. SchedulerInv' /\ ControlOK' /\ bag' = bag /\ open' = open /\ (NothingQueued => NothingQueued')
  BY <1>1, SameParts
<1>3. DeferredOK'
  BY <1>1, <1>2, MayRollOver
<1>4. BagOK'
  <2>1. entries' \in Seq({"PAUSED", "RESUMED"})
    BY DEF RecorderInv, BagOK, WriteEvent, Split, RecordFileSplit, WriteMessage
  <2>2. QED
    BY <1>2, <2>1 DEF RecorderInv, BagOK
<1>5. PICK u \in Threads, d \in {"event", "split", "fileSplit", "write"} : Doing(u, d) /\ Done(u)
  BY DEF WriteEvent, Split, RecordFileSplit, WriteMessage, Threads
<1>6. TodoOK' /\ StopInv'
  BY <1>2, <1>5, SameParts, DoneKeeps
<1>7. QED
  BY <1>2, <1>3, <1>4, <1>6 DEF RecorderInv

\* pause() and resume() on either thread.
LEMMA PauseStep ==
  ASSUME RecorderInv, NEW t \in Threads, Pause(t) \/ Resume(t)
  PROVE  RecorderInv'
<1>1. UNCHANGED <<schedulerVars, bagVars, selectionVars, stopVars, rollVars>> /\ paused' \in BOOLEAN
  BY DEF Pause, Resume
<1>2. SchedulerInv' /\ BagOK' /\ DeferredOK' /\ bag' = bag /\ open' = open
      /\ (NothingQueued => NothingQueued')
  BY <1>1, SameParts
<1>3. ControlOK'
  BY <1>1 DEF RecorderInv, ControlOK, selectionVars, stopVars
<1>4. PICK d \in {"pause", "resume"}, e \in {"PAUSED", "RESUMED"} :
        Doing(t, d) /\ (Done(t) \/ Then(t, <<Step("event", e)>>))
  BY DEF Pause, Resume
<1>5. GoodSteps(<<Step("event", e)>>)
  BY OneGood DEF Verbs, Args
<1>6. TodoOK' /\ StopInv'
  BY <1>2, <1>4, <1>5, SameParts, DoneKeeps, ThenKeeps
<1>7. QED
  BY <1>2, <1>3, <1>6 DEF RecorderInv

\* Starting a recording.
LEMMA OpenStep ==
  ASSUME RecorderInv, Open \/ InitialPauseState \/ Restore
  PROVE  RecorderInv'
<1>1. SchedulerInv' /\ (NothingQueued => NothingQueued')
  BY SameParts DEF Open, InitialPauseState, Restore
<1>2. "svc" \in Threads
  BY DEF Threads
<1>3. CASE Open
  <2>1. CASE ~open /\ bag < MaxBags /\ open' = TRUE /\ bag' = bag + 1 /\ entries' = <<>>
             /\ stopped_for_low_disk' = FALSE /\ stopped_for_max_bag_size' = FALSE
             /\ Then("svc", <<Step("initialPauseState", Now), Step("restore", Now)>>)
    <3>1. bag \in Nat /\ bag' \in Nat /\ bag <= bag' /\ BagOK'
      BY <2>1, SameParts, RecorderAssumption DEF RecorderInv, BagOK, RecorderAssumption
    <3>2. ControlOK'
      BY <1>3, <2>1 DEF Open, RecorderInv, ControlOK, selectionVars, pauseVars
    <3>3. DeferredOK'
      <4>1. deferred' = deferred /\ deferred_timer' = deferred_timer
        BY <1>3 DEF Open, rollVars
      <4>3. deferred \in Seq(1..bag')
        BY <3>1, SeqGrows DEF RecorderInv, DeferredOK
      <4>4. QED
        BY <4>1, <4>3 DEF RecorderInv, DeferredOK, NoEventStranded
    <3>4. GoodSteps(<<Step("initialPauseState", Now), Step("restore", Now)>>)
      BY OneGood, TwoGood, StepFacts DEF Verbs
    <3>5. Doing("svc", "open")
      BY <1>3 DEF Open
    <3>6. TodoOK' /\ StopInv'
      BY <1>1, <1>2, <2>1, <3>1, <3>4, <3>5, ThenKeeps
    <3>7. QED
      BY <1>1, <3>1, <3>2, <3>3, <3>6 DEF RecorderInv
  <2>2. CASE Done("svc") /\ UNCHANGED <<bagVars, stopVars>>
    <3>1. BagOK' /\ ControlOK' /\ DeferredOK' /\ bag' = bag /\ open' = open /\ bag \in Nat
      BY <1>3, <2>2, SameParts DEF Open
    <3>2. TodoOK' /\ StopInv'
      BY <1>1, <1>2, <1>3, <2>2, <3>1, DoneKeeps DEF Open
    <3>3. QED
      BY <1>1, <3>1, <3>2 DEF RecorderInv
  <2>3. QED
    BY <1>3, <2>1, <2>2 DEF Open
<1>4. CASE InitialPauseState
  <2>1. BagOK' /\ ControlOK' /\ DeferredOK' /\ bag' = bag /\ open' = open /\ bag \in Nat
    BY <1>4, SameParts DEF InitialPauseState
  <2>2. GoodSteps(<<Step("event", "PAUSED")>>)
    BY OneGood DEF Verbs, Args
  <2>3. TodoOK' /\ StopInv'
    BY <1>1, <1>2, <1>4, <2>1, <2>2, DoneKeeps, ThenKeeps DEF InitialPauseState
  <2>4. QED
    BY <1>1, <2>1, <2>3 DEF RecorderInv
<1>5. CASE Restore
  <2>1. BagOK' /\ DeferredOK' /\ bag' = bag /\ open' = open /\ bag \in Nat
    BY <1>5, SameParts DEF Restore
  <2>2. ControlOK' /\ topics_at_stop \in SUBSET Topics
    BY <1>5 DEF Restore, RecorderInv, ControlOK, stopVars, pauseVars
  <2>3. GoodSteps(<<Step("subscribe", topics_at_stop)>>)
    BY <2>2, OneGood DEF Verbs, Args
  <2>4. TodoOK' /\ StopInv'
    BY <1>1, <1>2, <1>5, <2>1, <2>3, ThenKeeps DEF Restore
  <2>5. QED
    BY <1>1, <2>1, <2>2, <2>4 DEF RecorderInv
<1>6. QED
  BY <1>3, <1>4, <1>5

\* A topic subscribed or unsubscribed.
LEMMA SelectionStep ==
  ASSUME RecorderInv, Subscribe \/ Unsubscribe
  PROVE  RecorderInv'
<1>1. SchedulerInv' /\ BagOK' /\ DeferredOK' /\ bag' = bag /\ open' = open /\ bag \in Nat
      /\ (NothingQueued => NothingQueued')
  <2>1. CASE Unsubscribe
    BY <2>1, SameParts DEF Unsubscribe
  <2>2. CASE Subscribe
    <3>1. UNCHANGED rollVars \/ \E n : Operation(n)
      BY <2>2 DEF Subscribe
    <3>2. UNCHANGED <<schedulerVars, open, bag, entries>>
      BY <2>2 DEF Subscribe
    <3>3. BagOK'
      BY <3>2 DEF RecorderInv, BagOK
    <3>4. QED
      BY <3>1, <3>2, <3>3, SameParts, MayRollOver
  <2>3. QED
    BY <2>1, <2>2
<1>2. PICK d \in {"subscribe", "unsubscribe"} : Doing("svc", d) /\ IF d = "subscribe" THEN Subscribe ELSE Unsubscribe
  BY DEF Subscribe, Unsubscribe
<1>3. Arg("svc") \in SUBSET Topics /\ "svc" \in Threads
  BY <1>2, HeadFacts DEF RecorderInv, Arg, StepInv, StepOK, Threads
<1>4. ControlOK'
  BY <1>2, <1>3 DEF Subscribe, Unsubscribe, RecorderInv, ControlOK, stopVars, pauseVars
<1>5. GoodSteps(<<Step("event", "other")>>)
  BY OneGood DEF Verbs, Args
<1>6. \A topic : GoodSteps(<<Step(d, Arg("svc") \ {topic})>>)
  BY <1>3, OneGood DEF Verbs, Args
<1>7. \/ Done("svc")
      \/ \E topic : \/ Then("svc", <<Step("event", "other"), Step(d, Arg("svc") \ {topic})>>)
                    \/ Then("svc", <<Step(d, Arg("svc") \ {topic})>>)
  BY <1>2 DEF Subscribe, Unsubscribe
<1>8. \/ Done("svc")
      \/ \E steps : GoodSteps(steps) /\ Then("svc", steps)
  BY <1>5, <1>6, <1>7, TwoGood
<1>9. TodoOK' /\ StopInv'
  <2>1. CASE Done("svc")
    BY <1>1, <1>2, <1>3, <2>1, DoneKeeps
  <2>2. CASE \E steps : GoodSteps(steps) /\ Then("svc", steps)
    BY <1>1, <1>2, <1>3, <2>2, ThenKeeps
  <2>3. QED
    BY <1>8, <2>1, <2>2
<1>10. QED
  BY <1>1, <1>4, <1>9 DEF RecorderInv

\* Stopping: the events that wait, the bag, its topics and its schedules.
LEMMA StopStep ==
  ASSUME RecorderInv, TakeDeferred \/ Close \/ Drop \/ ClearSchedules
  PROVE  RecorderInv'
<1>1. "svc" \in Threads /\ bag \in Nat
  BY SameParts DEF Threads
<1>2. CASE TakeDeferred
  <2>1. SchedulerInv' /\ BagOK' /\ ControlOK' /\ bag' = bag /\ open' = open
        /\ (NothingQueued => NothingQueued')
    BY <1>2, SameParts DEF TakeDeferred
  <2>2. DeferredOK'
    <3>1. deferred' = <<>> /\ deferred_timer' = FALSE
      BY <1>2 DEF TakeDeferred
    <3>2. <<>> \in Seq(1..bag')
      OBVIOUS
    <3>3. QED
      BY <3>1, <3>2 DEF DeferredOK, NoEventStranded
  <2> DEFINE steps == [i \in 1..Len(deferred) |-> Step("fileSplit", deferred[i])]
  <2>3. GoodSteps(steps)
    <3>1. \A i \in 1..Len(deferred) : deferred[i] \in 1..bag /\ deferred[i] \in Args
      <4>1. deferred \in Seq(1..bag)
        BY DEF RecorderInv, DeferredOK
      <4>2. \A n \in 1..bag : n \in Args
        <5>1. \A n \in 1..bag : n \in Nat
          BY <1>1
        <5>2. QED
          BY <5>1, Zenon DEF Args
      <4>3. \A i \in 1..Len(deferred) : deferred[i] \in 1..bag
        BY <4>1, <1>1
      <4>4. QED
        BY <4>2, <4>3
    <3>2. \A i \in 1..Len(deferred) :
            steps[i] \in Steps /\ steps[i].do = "fileSplit" /\ StepInv(steps[i])
      BY <3>1, StepFacts DEF Verbs
    <3>3. Len(deferred) \in Nat
      BY DEF RecorderInv, DeferredOK
    <3>4. steps \in Seq(Steps) /\ Len(steps) = Len(deferred)
      BY <3>2, <3>3
    <3>5. QED
      BY <3>2, <3>4 DEF GoodSteps, ClearFollows
  <2>4. Doing("svc", "takeDeferred") /\ Then("svc", steps)
    BY <1>2 DEF TakeDeferred
  <2> HIDE DEF steps
  <2>5. TodoOK' /\ StopInv'
    BY <1>1, <2>1, <2>3, <2>4, ThenKeeps
  <2>6. QED
    BY <2>1, <2>2, <2>5 DEF RecorderInv
<1>3. CASE Close
  <2>1. TodoOK /\ StopInv /\ BagOK /\ Doing("svc", "close") /\ Done("svc") /\ bag' = bag /\ open' = FALSE
    BY <1>3 DEF Close, RecorderInv
  <2>2. todo["svc"] # <<>> /\ todo["svc"] \in Seq(Steps) /\ Head(todo["svc"]).do = "close" /\ bag > 0
    BY <1>1, <2>1, HeadFacts DEF StepInv
  <2>3. Then("svc", <<>>) /\ GoodSteps(<<>>)
    BY <1>1, <2>1, <2>2, DoneIsThen, FewGood
  <2>4. TodoOK'
    BY <1>1, <2>1, <2>2, <2>3, ThenTodo
  <2>5. todo'["svc"] = Tail(todo["svc"])
    BY <2>1, <1>1 DEF Done, TodoOK
  <2>6. StopInv'
    BY <2>1, <2>2, <2>5, ClearFollowsTail DEF StopInv
  <2>7. DeferredOK'
    BY <1>3, <2>1, MayRollOver DEF Close
  <2>8. SchedulerInv' /\ ControlOK'
    BY <1>3, SameParts DEF Close
  <2>9. BagOK'
    BY <1>3 DEF Close, RecorderInv, BagOK
  <2>10. QED
    BY <2>4, <2>6, <2>7, <2>8, <2>9 DEF RecorderInv
<1>4. CASE Drop
  <2>1. SchedulerInv' /\ BagOK' /\ DeferredOK' /\ bag' = bag /\ open' = open
        /\ (NothingQueued => NothingQueued')
    BY <1>4, SameParts DEF Drop
  <2>2. ControlOK'
    BY <1>4 DEF Drop, RecorderInv, ControlOK, stopVars, pauseVars
  <2>3. TodoOK' /\ StopInv'
    BY <1>1, <1>4, <2>1, DoneKeeps DEF Drop
  <2>4. QED
    BY <2>1, <2>2, <2>3 DEF RecorderInv
<1>5. CASE ClearSchedules
  <2>1. SchedulerInv' /\ NothingQueued'
    BY <1>5, ClearKeeps DEF ClearSchedules, RecorderInv, NothingQueued
  <2>2. BagOK' /\ ControlOK' /\ DeferredOK' /\ bag' = bag /\ open' = open
    BY <1>5, SameParts DEF ClearSchedules
  <2>3. TodoOK /\ StopInv /\ Doing("svc", "clear") /\ Done("svc")
    BY <1>5 DEF ClearSchedules, RecorderInv
  <2>4. todo["svc"] # <<>> /\ todo["svc"] \in Seq(Steps)
    BY <1>1, <2>3, HeadFacts
  <2>5. Then("svc", <<>>) /\ GoodSteps(<<>>)
    BY <1>1, <2>3, <2>4, DoneIsThen, FewGood
  <2>6. TodoOK'
    BY <1>1, <2>2, <2>3, <2>4, <2>5, ThenTodo
  <2>7. todo'["svc"] = Tail(todo["svc"])
    BY <2>3, <1>1 DEF Done, TodoOK
  <2>8. StopInv'
    BY <2>1, <2>3, <2>4, <2>7, ClearFollowsTail DEF StopInv, NothingQueued
  <2>9. QED
    BY <2>1, <2>2, <2>6, <2>8 DEF RecorderInv
<1>6. QED
  BY <1>2, <1>3, <1>4, <1>5

\* A storage guard that finds its limit crossed stops the recording.
LEMMA GuardStep ==
  ASSUME RecorderInv, Check("check_free_space") \/ Check("check_bag_size") \/ StoppedFor
  PROVE  RecorderInv'
<1>1. "svc" \in Threads /\ bag \in Nat
  BY SameParts DEF Threads
<1>2. SchedulerInv' /\ BagOK' /\ DeferredOK' /\ bag' = bag /\ open' = open
      /\ (NothingQueued => NothingQueued')
  BY SameParts DEF Check, StoppedFor
<1>3. ControlOK'
  BY DEF Check, StoppedFor, RecorderInv, ControlOK, selectionVars, stopVars, pauseVars
<1>4. CASE StoppedFor
  <2>1. Doing("svc", "stoppedFor") /\ Done("svc")
    BY <1>4 DEF StoppedFor
  <2>2. TodoOK' /\ StopInv'
    BY <1>1, <1>2, <2>1, DoneKeeps
  <2>3. QED
    BY <1>2, <1>3, <2>2 DEF RecorderInv
<1>5. ASSUME NEW guard \in {"check_free_space", "check_bag_size"}, Check(guard)
      PROVE  RecorderInv'
  <2>1. GoodSteps(<<Step("event", "other")>>) /\ GoodSteps(<<Step("stoppedFor", guard)>>)
    BY OneGood DEF Verbs, Args
  <2>2. GoodSteps(<<Step("event", "other"), Step("stoppedFor", guard)>>)
    BY <2>1, TwoGood
  <2>3. open => GoodSteps(<<Step("event", "other"), Step("stoppedFor", guard)>> \o Stopping)
    BY <2>2, StoppingGood, ConcatGood DEF RecorderInv, BagOK
  <2>4. Doing("svc", guard) /\ guard # "clear"
    BY <1>5 DEF Check
  <2>5. \/ Done("svc")
        \/ \E steps : GoodSteps(steps) /\ Then("svc", steps)
    BY <1>5, <2>3 DEF Check
  <2>6. TodoOK' /\ StopInv'
    <3>1. CASE Done("svc")
      BY <1>1, <1>2, <2>4, <3>1, DoneKeeps
    <3>2. CASE \E steps : GoodSteps(steps) /\ Then("svc", steps)
      BY <1>1, <1>2, <2>4, <3>2, ThenKeeps
    <3>3. QED
      BY <2>5, <3>1, <3>2
  <2>7. QED
    BY <1>2, <1>3, <2>6 DEF RecorderInv
<1>6. QED
  BY <1>4, <1>5

\* A message comes in, and takes the schedules that are due for it.
LEMMA MessageArrives ==
  ASSUME RecorderInv, NEW topic \in Topics, NEW send \in Stamps, NEW recv \in Stamps,
         Deliver(topic, send, recv)
  PROVE  RecorderInv'
<1>1. "msg" \in Threads /\ "msg" # "svc"
  BY DEF Threads
<1>2. SchedulerInv' /\ BagOK' /\ ControlOK' /\ DeferredOK' /\ bag' = bag /\ open' = open
      /\ (NothingQueued => NothingQueued')
  BY SameParts DEF Deliver
<1>3. GoodSteps(<<Step("takeDue", <<topic, send, recv>>)>>) /\ GoodSteps(<<Step("gate", Now)>>)
  <2>1. <<topic, send, recv>> \in Args
    BY DEF Args
  <2>2. QED
    BY <2>1, OneGood, StepFacts DEF Verbs
<1>4. GoodSteps(<<Step("takeDue", <<topic, send, recv>>), Step("gate", Now)>>)
  BY <1>3, TwoGood
<1>5. TodoOK' /\ StopInv'
  BY <1>1, <1>2, <1>4, StartKeeps DEF Deliver
<1>6. QED
  BY <1>2, <1>5 DEF RecorderInv

\* on_message()'s steps.
LEMMA MessageGoesOn ==
  ASSUME RecorderInv, TakeDueSchedules \/ Gate \/ SeeBusy \/ Stage
  PROVE  RecorderInv'
<1>1. "msg" \in Threads /\ "msg" # "svc" /\ bag \in Nat
  BY SameParts DEF Threads
<1>2. BagOK' /\ ControlOK' /\ DeferredOK' /\ bag' = bag /\ open' = open
  <2>1. UNCHANGED <<open, bag, entries, pauseVars, selectionVars, stopVars, rollVars>>
    BY DEF TakeDueSchedules, Gate, SeeBusy, Stage, bagVars
  <2>2. BagOK'
    BY <2>1 DEF RecorderInv, BagOK
  <2>3. QED
    BY <2>1, <2>2, SameParts
<1>3. CASE Gate
  <2>1. SchedulerInv' /\ (NothingQueued => NothingQueued')
    BY <1>3, SameParts DEF Gate
  <2>2. GoodSteps(<<Step("write", Now)>>)
    BY OneGood, StepFacts DEF Verbs
  <2>3. TodoOK' /\ StopInv'
    BY <1>1, <1>2, <1>3, <2>1, <2>2, DoneKeeps, ThenKeeps DEF Gate
  <2>4. QED
    BY <1>2, <2>1, <2>3 DEF RecorderInv
<1>4. CASE TakeDueSchedules
  <2> DEFINE a == Arg("msg")
             due == Due(a[1], a[2], a[3])
             one == IF "resume" \in due THEN <<Step("resume", scheduled["resume"])>> ELSE <<>>
             two == IF "split" \in due THEN <<Step("split", scheduled["split"])>> ELSE <<>>
  <2>1. Doing("msg", "takeDue") /\ TakeDue(a[1], a[2], a[3]) /\ Then("msg", one \o two)
    BY <1>4 DEF TakeDueSchedules
  <2>2. scheduled["resume"] \in Args /\ scheduled["split"] \in Args
    BY DEF RecorderInv, SchedulerInv, SchedulerOK, Args, Kinds
  <2>3. GoodSteps(one) /\ GoodSteps(two)
    BY <2>2, OneGood, FewGood DEF Verbs
  <2> HIDE DEF one, two, due, a
  <2>4. GoodSteps(one \o two)
    BY <2>3, ConcatGood
  <2>5. SchedulerInv'
    BY <2>1, TakeDueKeeps DEF RecorderInv
  <2>6. NothingQueued => NothingQueued'
    BY <2>1 DEF TakeDue, NothingQueued, Kinds
  <2>7. TodoOK' /\ StopInv'
    BY <1>1, <1>2, <2>1, <2>4, <2>6, ThenKeeps
  <2>8. QED
    BY <1>2, <2>5, <2>7 DEF RecorderInv
<1>5. CASE SeeBusy
  <2>1. SchedulerInv' /\ (NothingQueued => NothingQueued')
    BY <1>5, SameParts DEF SeeBusy
  <2>2. GoodSteps(<<Step("stage", Now)>>)
    BY OneGood, StepFacts DEF Verbs
  <2>3. TodoOK' /\ StopInv'
    BY <1>1, <1>2, <1>5, <2>1, <2>2, ThenKeeps DEF SeeBusy
  <2>4. QED
    BY <1>2, <2>1, <2>3 DEF RecorderInv
<1>6. CASE Stage
  <2>1. SchedulerInv' /\ (NothingQueued => NothingQueued')
    BY <1>6, SameParts DEF Stage
  <2>2. TodoOK' /\ StopInv'
    BY <1>1, <1>2, <1>6, <2>1, DoneKeeps DEF Stage
  <2>3. QED
    BY <1>2, <2>1, <2>2 DEF RecorderInv
<1>7. QED
  BY <1>3, <1>4, <1>5, <1>6
-----------------------------------------------------------------------------
(* The theorems.                                                           *)

\* The recorder starts in the invariant.
LEMMA InitInv == Init => RecorderInv
<1> SUFFICES ASSUME Init PROVE RecorderInv
  OBVIOUS
<1>1. SchedulerInv
  <2>1. SchedulerOK
    BY DEF Init, SchedulerInit, SchedulerOK
  <2>2. \A k \in Kinds : scheduled[k] = NoSchedule /\ timer[k] = FALSE
    BY DEF Init, SchedulerInit
  <2>3. "record" \in Kinds
    BY DEF Kinds
  <2>4. QED
    BY <2>1, <2>2, <2>3, ModeFacts DEF SchedulerInv, RecordOnTimer, ScheduleIsLive
<1>2. BagOK /\ ControlOK /\ DeferredOK
  <2>1. BagOK
    <3>1. MaxBags \in Nat
      BY RecorderAssumption DEF RecorderAssumption
    <3>2. 0 \in 0..MaxBags /\ <<>> \in Seq({"PAUSED", "RESUMED"})
      BY <3>1
    <3>3. QED
      BY <3>2 DEF Init, BagOK
  <2>2. ControlOK
    BY DEF Init, ControlOK
  <2>3. deferred = <<>> /\ deferred_timer = FALSE /\ <<>> \in Seq(1..bag)
    BY DEF Init
  <2>4. QED
    BY <2>1, <2>2, <2>3 DEF DeferredOK, NoEventStranded
<1>3. GoodSteps(<<Step("open", Now)>>) /\ GoodSteps(<<>>)
  BY OneGood, FewGood, StepFacts DEF Verbs
<1>4. TodoOK
  BY <1>3 DEF Init, TodoOK, GoodSteps
<1>5. StopInv
  <2>1. scheduled["resume"] = NoSchedule /\ scheduled["split"] = NoSchedule
    BY DEF Init, SchedulerInit, Kinds
  <2>2. todo["svc"] = <<Step("open", Now)>>
    BY DEF Init, Threads
  <2>3. QED
    BY <1>3, <2>1, <2>2 DEF StopInv, GoodSteps
<1>6. QED
  BY <1>1, <1>2, <1>4, <1>5 DEF RecorderInv

\* Every step keeps it.
LEMMA StepKeepsInv == RecorderInv /\ [Next]_vars => RecorderInv'
<1> SUFFICES ASSUME RecorderInv, [Next]_vars PROVE RecorderInv'
  OBVIOUS
<1> "svc" \in Threads /\ "msg" \in Threads
  BY DEF Threads
<1>1. CASE Request \/ DeferredTimer \/ \E k \in Kinds : NodeTimer(k)
  BY <1>1, RequestStep
<1>2. CASE ServiceStep
  BY <1>2, WritingStep, PauseStep, OpenStep, SelectionStep, StopStep, GuardStep DEF ServiceStep
<1>3. CASE MessageStep
  BY <1>3, WritingStep, PauseStep, MessageGoesOn DEF MessageStep
<1>4. CASE \E topic \in Topics, send, recv \in Stamps : Deliver(topic, send, recv)
  BY <1>4, MessageArrives
<1>5. CASE UNCHANGED vars
  <2>1. SchedulerInv' /\ BagOK' /\ ControlOK' /\ DeferredOK' /\ todo' = todo /\ bag' = bag
        /\ open' = open /\ scheduled' = scheduled
    BY <1>5, SameParts DEF vars, schedulerVars
  <2>2. TodoOK' /\ StopInv'
    BY <2>1 DEF RecorderInv, TodoOK, StopInv, StepInv, StepOK
  <2>3. QED
    BY <2>1, <2>2 DEF RecorderInv
<1>6. QED
  BY <1>1, <1>2, <1>3, <1>4, <1>5 DEF Next

\* So it always holds.
LEMMA InvHolds == Spec => []RecorderInv
BY InitInv, StepKeepsInv, PTL DEF Spec

\* The messages in the bag, in the stage and at the last pause are some that
\* came.
Numbers == 0..MaxMessages
Counted ==
  /\ messages \in Numbers /\ pausedAfter \in Numbers
  /\ written \subseteq Numbers /\ staged \in Seq(Numbers)

\* What is in a sequence, and what one more element makes of it.
LEMMA MessagesOf ==
  ASSUME NEW S, NEW s \in Seq(S), NEW m \in S
  PROVE  Messages(s) \subseteq S /\ Append(s, m) \in Seq(S)
BY DEF Messages

LEMMA EmptyOf == <<>> \in Seq(Numbers)
OBVIOUS

\* Every operation of the bag and every message keeps them so.
LEMMA CountedStep == Counted /\ [Next]_vars => Counted'
<1> SUFFICES ASSUME Counted, [Next]_vars PROVE Counted'
  OBVIOUS
<1>1. ASSUME NEW n, Operation(n), UNCHANGED <<messages, pausedAfter>> PROVE Counted'
  <2>1. Messages(staged) \subseteq Numbers
    BY MessagesOf DEF Counted
  <2>2. \/ written' = written \cup Messages(staged) /\ staged' = <<>>
        \/ UNCHANGED <<written, staged>>
    BY <1>1 DEF Operation, Flush
  <2>3. written' \subseteq Numbers
    BY <2>1, <2>2 DEF Counted
  <2>4. staged' \in Seq(Numbers)
    BY <2>2, EmptyOf DEF Counted
  <2>5. QED
    BY <1>1, <2>3, <2>4 DEF Counted
<1>2. CASE UNCHANGED <<messages, pausedAfter, written, staged>>
  BY <1>2 DEF Counted
<1>3. CASE Request \/ DeferredTimer \/ \E k \in Kinds : NodeTimer(k)
  BY <1>2, <1>3 DEF Request, CallPause, CallToggle, CallRecord, CallUnsubscribe, CallResume, CallSplit, CallStop,
       CallSubscribe, CallSetTopics, CallSchedule, StorageTick, Call, DeferredTimer, NodeTimer, bagVars, pauseVars,
       boundVars
<1>4. ASSUME NEW t \in Threads, WriteEvent(t) \/ Split(t) \/ Close \/ RecordFileSplit PROVE Counted'
  BY <1>1, <1>4 DEF WriteEvent, Split, Close, RecordFileSplit, boundVars, pauseVars
<1>5. CASE Subscribe
  BY <1>1, <1>2, <1>5 DEF Subscribe, boundVars, pauseVars
<1>6. ASSUME NEW t \in Threads, Pause(t) \/ Resume(t) PROVE Counted'
  BY <1>6 DEF Pause, Resume, bagVars, boundVars, Counted
<1>7. CASE Open
  BY <1>7 DEF Open, bagVars, boundVars, pauseVars, Counted
<1>8. CASE InitialPauseState \/ Restore \/ Unsubscribe \/ TakeDeferred \/ Drop \/ ClearSchedules
             \/ Check("check_free_space") \/ Check("check_bag_size") \/ StoppedFor
  BY <1>2, <1>8 DEF InitialPauseState, Restore, Unsubscribe, TakeDeferred, Drop, ClearSchedules, Check, StoppedFor,
       bagVars, boundVars, pauseVars
<1>9. CASE WriteMessage
  <2>1. Messages(staged) \subseteq Numbers
    BY MessagesOf DEF Counted
  <2>2. \/ written' = written \cup Messages(staged) \cup {messages} /\ staged' = <<>>
        \/ UNCHANGED <<written, staged>>
    BY <1>9 DEF WriteMessage
  <2>3. UNCHANGED <<messages, pausedAfter>>
    BY <1>9 DEF WriteMessage, boundVars, pauseVars
  <2>4. written' \subseteq Numbers
    BY <2>1, <2>2 DEF Counted
  <2>5. staged' \in Seq(Numbers)
    BY <2>2, EmptyOf DEF Counted
  <2>6. QED
    BY <2>3, <2>4, <2>5 DEF Counted
<1>10. CASE TakeDueSchedules \/ Gate \/ SeeBusy
  BY <1>2, <1>10 DEF TakeDueSchedules, Gate, SeeBusy, bagVars, boundVars, pauseVars
<1>11. CASE Stage
  <2>1. Append(staged, messages) \in Seq(Numbers)
    BY MessagesOf DEF Counted
  <2>2. QED
    BY <1>11, <2>1 DEF Stage, boundVars, pauseVars, Counted
<1>12. ASSUME NEW topic, NEW send, NEW recv, Deliver(topic, send, recv) PROVE Counted'
  BY <1>12, RecorderAssumption DEF Deliver, bagVars, pauseVars, Counted, RecorderAssumption, Numbers
<1>13. CASE UNCHANGED vars
  BY <1>2, <1>13 DEF vars, bagVars, pauseVars, boundVars
<1>14. QED
  BY <1>3, <1>4, <1>5, <1>6, <1>7, <1>8, <1>9, <1>10, <1>11, <1>12, <1>13
     DEF Next, ServiceStep, MessageStep, Threads

\* So they always are.
LEMMA CountedHolds == Spec => []Counted
<1>1. Init => Counted
  BY RecorderAssumption DEF Init, Counted, RecorderAssumption, Numbers
<1>2. QED
  BY <1>1, CountedStep, PTL DEF Spec

\* Every variable keeps its type: above all, the bag a waiting file-split event
\* is of was opened (dynamic_recorder.cpp on_rollover()).
THEOREM TypeCorrect == Spec => []TypeOK
<1>1. RecorderInv /\ Counted => TypeOK
  BY DEF RecorderInv, SchedulerInv, SchedulerOK, BagOK, ControlOK, DeferredOK, TodoOK, StepInv, Counted, Numbers, TypeOK
<1>2. QED
  BY <1>1, InvHolds, CountedHolds, PTL

\* A schedule in a slot can always fire, whatever calls, timers and messages
\* replaced, took and cleared what (scheduler.cpp:80-140).
THEOREM SchedulesLive == Spec => []ScheduleIsLive
<1>1. RecorderInv => ScheduleIsLive
  BY DEF RecorderInv, SchedulerInv
<1>2. QED
  BY <1>1, InvHolds, PTL

\* Once stop() is over nothing is queued, and nothing can be until a bag is open
\* again (scheduler.hpp:92).
THEOREM StoppedClean == Spec => []StoppedHasNothingQueued
<1>1. RecorderInv => StoppedHasNothingQueued
  <2> SUFFICES ASSUME RecorderInv, ~open, "clear" \notin Left("svc")
               PROVE  scheduled["resume"] = NoSchedule /\ scheduled["split"] = NoSchedule
    BY DEF StoppedHasNothingQueued
  <2>1. ~WillClear(todo["svc"])
    BY DEF Left, WillClear
  <2>2. QED
    BY <2>1 DEF RecorderInv, StopInv
<1>2. QED
  BY <1>1, InvHolds, PTL

\* A file-split event in the queue has a timer that will take it, whichever
\* thread rolled over (dynamic_recorder.cpp on_rollover(), record_deferred_events()).
THEOREM NothingStranded == Spec => []NoEventStranded
<1>1. RecorderInv => NoEventStranded
  BY DEF RecorderInv, DeferredOK
<1>2. QED
  BY <1>1, InvHolds, PTL
=============================================================================
