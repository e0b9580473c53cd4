-------------------------- MODULE RecorderHistory --------------------------
(***************************************************************************)
(* What the recorder says of its own past, for every value of Recorder's   *)
(* constants: which recording a schedule acted on, why the recording was   *)
(* stopped, and when it was paused.                                        *)
(***************************************************************************)
EXTENDS RecorderProofs

-----------------------------------------------------------------------------
(* The order of what the threads still have to do.                         *)

\* A step that neither acts on the recording's state nor tells of it.
Quiet(s) ==
  /\ s.do \notin {"open", "resume", "split", "pause", "initialPauseState"}
  /\ s.do = "event" => s.arg = "other"
AllQuiet(q) == \A i \in 1..Len(q) : Quiet(q[i])
RestQuiet(q) == \A i \in 2..Len(q) : Quiet(q[i])

\* Steps a callback can be given before its last: what is scheduled for messages.
MessageTimed(s) == s.do \in {"resume", "split"} => s.arg.mode \in {"publish", "receive"}
LastSteps == {"gate", "write", "stage"}
BeforeLast(q) == \A i \in 1..Len(q) : MessageTimed(q[i]) /\ q[i].do \notin LastSteps

\* The service thread does the telling step at once, and opens a bag in a call of
\* its own; a callback ends with the gate, the write or the staging.
CallbackInv(q) ==
  \A i \in 1..Len(q) : MessageTimed(q[i]) /\ (q[i].do \in LastSteps => i = Len(q))
QueueInv ==
  /\ RestQuiet(todo["svc"])
  /\ Doing("svc", "open") => Len(todo["svc"]) = 1
  /\ CallbackInv(todo["msg"])

\* Steps in front of quiet ones.
LEMMA QuietConcat ==
  ASSUME NEW S, NEW s \in Seq(S), NEW t \in Seq(S), AllQuiet(t)
  PROVE  /\ AllQuiet(s) => AllQuiet(s \o t)
         /\ RestQuiet(s) => RestQuiet(s \o t)
         /\ s # <<>> => s \o t # <<>> /\ Head(s \o t) = Head(s)
         /\ s = <<>> => s \o t = t
<1>1. ASSUME AllQuiet(s) PROVE AllQuiet(s \o t)
  BY <1>1, ConcatFacts DEF AllQuiet
<1>2. ASSUME RestQuiet(s) PROVE RestQuiet(s \o t)
  <2> SUFFICES ASSUME NEW i \in 2..Len(s \o t) PROVE Quiet((s \o t)[i])
    BY DEF RestQuiet
  <2>1. \/ i \in 1..Len(s) /\ (s \o t)[i] = s[i]
        \/ i - Len(s) \in 1..Len(t) /\ (s \o t)[i] = t[i - Len(s)]
    BY ConcatFacts
  <2>2. QED
    BY <1>2, <2>1 DEF AllQuiet, RestQuiet
<1>3. QED
  BY <1>1, <1>2

\* What is left once the first step is taken.
LEMMA QuietTail ==
  ASSUME NEW S, NEW q \in Seq(S), q # <<>>, RestQuiet(q)
  PROVE  Tail(q) \in Seq(S) /\ AllQuiet(Tail(q))
BY TailFacts DEF AllQuiet, RestQuiet

\* The queues once a thread goes on with steps, or with none.
LEMMA QueueAfter ==
  ASSUME TodoOK, NEW t \in Threads, NEW d, Doing(t, d), NEW s \in Seq(Steps),
         Then(t, s) \/ (Done(t) /\ s = <<>>)
  PROVE  /\ todo[t] # <<>> /\ todo[t] \in Seq(Steps) /\ Tail(todo[t]) \in Seq(Steps)
         /\ todo'[t] = s \o Tail(todo[t])
         /\ \A u \in Threads \ {t} : todo'[u] = todo[u]
<1>1. todo[t] # <<>> /\ todo[t] \in Seq(Steps) /\ Tail(todo[t]) \in Seq(Steps)
  BY HeadFacts, TailFacts
<1>2. CASE Then(t, s)
  BY <1>1, <1>2 DEF Then, TodoOK
<1>3. CASE Done(t) /\ s = <<>>
  BY <1>1, <1>3 DEF Done, TodoOK
<1>4. QED
  BY <1>1, <1>2, <1>3

\* A quiet step of the service thread is followed by quiet ones, none of them a
\* guard's.
Guards == {"check_free_space", "check_bag_size", "stoppedFor"}
NoGuards(q) == \A i \in 1..Len(q) : q[i].do \notin Guards
Telling == {"pause", "resume", "initialPauseState", "open"}

LEMMA QuietGoesOn ==
  ASSUME RecorderInv, ServiceStep, NEW d \in Verbs \ (Telling \cup {"check_free_space", "check_bag_size"}),
         Doing("svc", d)
  PROVE  \E s \in Seq(Steps) : AllQuiet(s) /\ NoGuards(s) /\ (Then("svc", s) \/ (Done("svc") /\ s = <<>>))
<1>0. TodoOK /\ "svc" \in Threads
  BY DEF RecorderInv, Threads
<1>1. <<>> \in Seq(Steps) /\ AllQuiet(<<>>) /\ NoGuards(<<>>)
  BY DEF AllQuiet, NoGuards
<1>2. CASE Done("svc")
  BY <1>1, <1>2
<1>3. CASE Restore
  <2> DEFINE r == Step("subscribe", topics_at_stop)
  <2>1. r \in Steps /\ r.do = "subscribe"
    BY StepFacts DEF RecorderInv, ControlOK, Args, Verbs
  <2>2. Then("svc", <<r>>)
    BY <1>3 DEF Restore
  <2> HIDE DEF r
  <2>3. <<r>> \in Seq(Steps) /\ AllQuiet(<<r>>) /\ NoGuards(<<r>>)
    BY <2>1 DEF AllQuiet, Quiet, NoGuards, Guards
  <2>4. QED
    BY <2>2, <2>3
<1>4. CASE Subscribe \/ Unsubscribe
  <2>1. PICK e \in {"subscribe", "unsubscribe"} : Doing("svc", e) /\ IF e = "subscribe" THEN Subscribe ELSE Unsubscribe
    BY <1>4 DEF Subscribe, Unsubscribe
  <2>2. Arg("svc") \in SUBSET Topics
    BY <1>0, <2>1, HeadFacts DEF Arg, StepInv, StepOK
  <2>3. Step("event", "other") \in Steps /\ Quiet(Step("event", "other")) /\ Step("event", "other").do = "event"
    BY StepFacts DEF Verbs, Args, Quiet
  <2>4. \A topic : LET r == Step(e, Arg("svc") \ {topic}) IN r \in Steps /\ Quiet(r) /\ r.do = e
    BY <2>2, StepFacts DEF Verbs, Args, Quiet
  <2>5. \/ Done("svc")
        \/ \E topic : LET r == Step(e, Arg("svc") \ {topic})
                      IN Then("svc", <<Step("event", "other"), r>>) \/ Then("svc", <<r>>)
    BY <2>1 DEF Subscribe, Unsubscribe
  <2>6. CASE Done("svc")
    BY <1>2, <2>6
  <2>7. ASSUME NEW topic, LET r == Step(e, Arg("svc") \ {topic})
                          IN Then("svc", <<Step("event", "other"), r>>) \/ Then("svc", <<r>>)
        PROVE  \E s \in Seq(Steps) : AllQuiet(s) /\ NoGuards(s) /\ Then("svc", s)
    <3> DEFINE r == Step(e, Arg("svc") \ {topic})
    <3>1. r \in Steps /\ Quiet(r) /\ r.do \notin Guards
      BY <2>4 DEF Guards
    <3>2. Then("svc", <<Step("event", "other"), r>>) \/ Then("svc", <<r>>)
      BY <2>7
    <3> HIDE DEF r
    <3>3. <<r>> \in Seq(Steps) /\ AllQuiet(<<r>>) /\ NoGuards(<<r>>)
      BY <3>1 DEF AllQuiet, NoGuards
    <3> DEFINE v == Step("event", "other")
    <3>4. v \in Steps /\ Quiet(v) /\ v.do \notin Guards
      BY <2>3 DEF Guards
    <3> HIDE DEF v
    <3>5. <<v, r>> \in Seq(Steps) /\ AllQuiet(<<v, r>>) /\ NoGuards(<<v, r>>)
      BY <3>1, <3>4 DEF AllQuiet, NoGuards
    <3>6. QED
      BY <3>2, <3>3, <3>5 DEF v
  <2>8. QED
    BY <2>5, <2>6, <2>7
<1>5. CASE TakeDeferred
  <2> DEFINE steps == [i \in 1..Len(deferred) |-> Step("fileSplit", deferred[i])]
  <2>1. deferred \in Seq(1..bag) /\ bag \in Nat /\ Len(deferred) \in Nat
    BY SameParts DEF RecorderInv, DeferredOK
  <2>2. \A n \in 1..bag : n \in Args
    <3>1. \A n \in 1..bag : n \in Nat
      BY <2>1
    <3>2. QED
      BY <3>1, Zenon DEF Args
  <2>3. \A i \in 1..Len(deferred) : steps[i] \in Steps /\ steps[i].do = "fileSplit"
    <3>1. \A i \in 1..Len(deferred) : deferred[i] \in Args
      BY <2>1, <2>2
    <3>2. QED
      BY <3>1, StepFacts DEF Verbs
  <2>4. steps \in Seq(Steps) /\ Len(steps) = Len(deferred)
    BY <2>1, <2>3
  <2>5. Then("svc", steps)
    BY <1>5 DEF TakeDeferred
  <2> HIDE DEF steps
  <2>6. AllQuiet(steps) /\ NoGuards(steps)
    BY <2>3, <2>4 DEF AllQuiet, Quiet, NoGuards, Guards
  <2>7. QED
    BY <2>4, <2>5, <2>6
<1>6. QED
  BY <1>2, <1>3, <1>4, <1>5 DEF ServiceStep, WriteEvent, Pause, Resume, Split, Open, InitialPauseState,
     RecordFileSplit, Close, Drop, ClearSchedules, Check, StoppedFor, Doing, Telling

\* What a call or a timer gives the service thread to do: it tells of nothing yet,
\* opens a bag alone, and resumes or splits now or for the timer that fired.
LEMMA BeginsWith ==
  ASSUME RecorderInv, Request \/ DeferredTimer \/ \E k \in Kinds : NodeTimer(k)
  PROVE  /\ todo["svc"] = <<>> /\ todo'["msg"] = todo["msg"]
         /\ UNCHANGED <<bagVars, pauseVars, stopVars, acted>>
         /\ LET q == todo'["svc"]
            IN /\ RestQuiet(q) /\ q \in Seq(Steps) /\ \A i \in 1..Len(q) : q[i].do # "stoppedFor"
               /\ q # <<>> =>
                    /\ Head(q).do \notin {"event", "initialPauseState"}
                    /\ Head(q).do = "open" => Len(q) = 1
                    /\ Head(q).do \in {"resume", "split"} =>
                         \/ Head(q).arg = Now
                         \/ \E k \in Kinds : NodeTimer(k) /\ Head(q).arg = scheduled[k] /\ Head(q).do = k
<1> DEFINE q == todo'["svc"]
<1>0. "svc" \in Threads /\ "msg" \in Threads /\ TodoOK
  BY DEF Threads, RecorderInv
<1>1. q \in Seq(Steps)
  BY <1>0, RequestStep DEF RecorderInv, TodoOK
<1>2. UNCHANGED <<bagVars, pauseVars, stopVars, acted>>
  BY DEF Request, CallPause, CallToggle, CallRecord, CallUnsubscribe, CallResume, CallSplit, CallStop, CallSubscribe,
         CallSetTopics, CallSchedule, StorageTick, Call, DeferredTimer, NodeTimer
<1>3. \/ \E a : q = <<Step("pause", Now)>> \/ q = <<Step("resume", Now)>> \/ q = <<Step("open", a)>>
               \/ q = <<Step("split", Now)>> \/ q = <<Step("unsubscribe", a)>> \/ q = <<Step("subscribe", a)>>
               \/ q = <<Step("takeDeferred", Now)>>
      \/ \E a, b : q = <<Step("unsubscribe", a), Step("subscribe", b)>>
      \/ q = <<>> \/ q = Stopping \/ q = <<Step("check_free_space", Now), Step("check_bag_size", Now)>>
      \/ \E k \in {"resume", "split"} : NodeTimer(k) /\ q = <<Step(k, scheduled[k])>>
  BY <1>0 DEF Request, CallPause, CallToggle, CallRecord, CallUnsubscribe, CallResume, CallSplit, CallStop,
              CallSubscribe, CallSetTopics, CallSchedule, StorageTick, Call, DeferredTimer, NodeTimer, Begin,
              Kinds, TodoOK
<1>4. todo["svc"] = <<>> /\ todo'["msg"] = todo["msg"]
  BY <1>0 DEF Request, CallPause, CallToggle, CallRecord, CallUnsubscribe, CallResume, CallSplit, CallStop,
              CallSubscribe, CallSetTopics, CallSchedule, StorageTick, Call, DeferredTimer, NodeTimer, Begin, TodoOK
<1> HIDE DEF q
<1>5. /\ RestQuiet(q) /\ \A i \in 1..Len(q) : q[i].do # "stoppedFor"
      /\ q # <<>> =>
           /\ Head(q).do \notin {"event", "initialPauseState"}
           /\ Head(q).do = "open" => Len(q) = 1
           /\ Head(q).do \in {"resume", "split"} =>
                \/ Head(q).arg = Now
                \/ \E k \in Kinds : NodeTimer(k) /\ Head(q).arg = scheduled[k] /\ Head(q).do = k
  BY <1>1, <1>3 DEF RestQuiet, Quiet, Step, Stopping, Kinds
<1>6. QED
  BY <1>1, <1>2, <1>4, <1>5 DEF q

\* Two steps put before others.
LEMMA TwoBefore ==
  ASSUME NEW S, NEW a \in Seq(S), NEW b \in Seq(S), Len(a) > 1, Len(a) < 3, Len(b) > 1
  PROVE  /\ a \o b \in Seq(S) /\ Len(a \o b) > 3 /\ (a \o b)[1] = a[1] /\ (a \o b)[2] = a[2]
         /\ (a \o b)[3] = b[1] /\ (a \o b)[4] = b[2]
OBVIOUS

\* What else the service thread goes on with.
LEMMA TellingGoesOn ==
  /\ \A d \in {"event", "initialPauseState", "restore", "stoppedFor"}, a \in Args :
       <<Step(d, a)>> \in Seq(Steps) /\ RestQuiet(<<Step(d, a)>>) /\ Head(<<Step(d, a)>>) = Step(d, a)
  /\ LET s == <<Step("initialPauseState", Now), Step("restore", Now)>>
     IN s \in Seq(Steps) /\ RestQuiet(s) /\ Head(s) = Step("initialPauseState", Now) /\ NoGuards(s)
  /\ \A guard \in {"check_free_space", "check_bag_size"} :
       LET s == <<Step("event", "other"), Step("stoppedFor", guard)>> \o Stopping
       IN /\ s \in Seq(Steps) /\ AllQuiet(s) /\ Len(s) > 3
          /\ s[1].do = "event" /\ s[2].do = "stoppedFor" /\ s[3].do = "takeDeferred" /\ s[4].do = "close"
          /\ \A i \in 1..Len(s) : s[i].do = "stoppedFor" => i = 2
<1>1. \A d \in Verbs, a \in Args : Step(d, a) \in Steps /\ Step(d, a).do = d /\ Step(d, a).arg = a
  BY StepFacts
<1>2. Now \in Args
  BY StepFacts
<1>3. ASSUME NEW d \in {"event", "initialPauseState", "restore", "stoppedFor"}, NEW a \in Args
      PROVE  <<Step(d, a)>> \in Seq(Steps) /\ RestQuiet(<<Step(d, a)>>) /\ Head(<<Step(d, a)>>) = Step(d, a)
  BY <1>1 DEF Verbs, RestQuiet
<1>4. LET s == <<Step("initialPauseState", Now), Step("restore", Now)>>
      IN s \in Seq(Steps) /\ RestQuiet(s) /\ Head(s) = Step("initialPauseState", Now) /\ NoGuards(s)
  BY <1>1, <1>2 DEF Verbs, RestQuiet, Quiet, NoGuards, Guards
<1>5. ASSUME NEW guard \in {"check_free_space", "check_bag_size"}
      PROVE  LET s == <<Step("event", "other"), Step("stoppedFor", guard)>> \o Stopping
             IN /\ s \in Seq(Steps) /\ AllQuiet(s) /\ Len(s) > 3
                /\ s[1].do = "event" /\ s[2].do = "stoppedFor" /\ s[3].do = "takeDeferred" /\ s[4].do = "close"
                /\ \A i \in 1..Len(s) : s[i].do = "stoppedFor" => i = 2
  <2> DEFINE front == <<Step("event", "other"), Step("stoppedFor", guard)>>
             s == front \o Stopping
  <2>1. /\ front \in Seq(Steps) /\ Len(front) > 1 /\ Len(front) < 3 /\ AllQuiet(front)
        /\ front[1].do = "event" /\ front[2].do = "stoppedFor"
    BY <1>1 DEF Verbs, Args, AllQuiet, Quiet
  <2>2. /\ Stopping \in Seq(Steps) /\ Len(Stopping) > 1 /\ AllQuiet(Stopping)
        /\ Stopping[1].do = "takeDeferred" /\ Stopping[2].do = "close"
        /\ \A i \in 1..Len(Stopping) : Stopping[i].do # "stoppedFor"
    BY <1>1, <1>2 DEF Stopping, Verbs, AllQuiet, Quiet
  <2> HIDE DEF front
  <2>3. /\ s \in Seq(Steps) /\ Len(s) > 3 /\ s[1] = front[1] /\ s[2] = front[2]
        /\ s[3] = Stopping[1] /\ s[4] = Stopping[2]
    BY <2>1, <2>2, TwoBefore
  <2>4. AllQuiet(s)
    BY <2>1, <2>2, QuietConcat
  <2>5. \A i \in 1..Len(s) : s[i].do = "stoppedFor" => i = 2
    <3> SUFFICES ASSUME NEW i \in 1..Len(s), s[i].do = "stoppedFor" PROVE i = 2
      OBVIOUS
    <3>1. i \in 1..Len(front) /\ s[i] = front[i]
      BY <2>1, <2>2, ConcatFacts
    <3>2. QED
      BY <2>1, <3>1
  <2> HIDE DEF s
  <2>6. QED
    BY <2>1, <2>2, <2>3, <2>4, <2>5 DEF s, front
<1>6. QED
  BY <1>3, <1>4, <1>5

\* Whatever the service thread does, what it goes on with is quiet but for the
\* first step, which opens nothing and acts on nothing.
LEMMA ServiceGoesOn ==
  ASSUME RecorderInv, ServiceStep
  PROVE  \E s \in Seq(Steps) :
           /\ Then("svc", s) \/ (Done("svc") /\ s = <<>>)
           /\ RestQuiet(s) /\ (s # <<>> => Head(s).do \notin {"open", "resume", "split"})
<1>1. PICK d \in Verbs : Doing("svc", d) /\ d = Head(todo["svc"]).do
  <2>1. \E d \in Verbs : Doing("svc", d)
    BY DEF ServiceStep, WriteEvent, Pause, Resume, Split, Open, InitialPauseState, Restore, Subscribe, Unsubscribe,
           TakeDeferred, RecordFileSplit, Close, Drop, ClearSchedules, Check, StoppedFor, Verbs
  <2>2. QED
    BY <2>1 DEF Doing
<1>2. CASE d \in Verbs \ (Telling \cup {"check_free_space", "check_bag_size"})
  <2>1. PICK s \in Seq(Steps) : AllQuiet(s) /\ NoGuards(s) /\ (Then("svc", s) \/ (Done("svc") /\ s = <<>>))
    BY <1>1, <1>2, QuietGoesOn
  <2>2. RestQuiet(s) /\ (s # <<>> => Head(s).do \notin {"open", "resume", "split"})
    BY <2>1 DEF AllQuiet, RestQuiet, Quiet
  <2>3. QED
    BY <2>1, <2>2
<1>3. CASE Done("svc")
  <2>1. <<>> \in Seq(Steps) /\ RestQuiet(<<>>)
    BY DEF RestQuiet
  <2>2. QED
    BY <1>3, <2>1
<1>4. ASSUME NEW e \in {"PAUSED", "RESUMED"}, Then("svc", <<Step("event", e)>>)
      PROVE  \E s \in Seq(Steps) :
               Then("svc", s) /\ RestQuiet(s) /\ Head(s).do \notin {"open", "resume", "split"}
  <2> DEFINE r == Step("event", e)
  <2>1. r \in Steps /\ r.do = "event"
    BY StepFacts DEF Verbs, Args
  <2>2. Then("svc", <<r>>)
    BY <1>4
  <2> HIDE DEF r
  <2>3. <<r>> \in Seq(Steps) /\ RestQuiet(<<r>>) /\ Head(<<r>>) = r
    BY <2>1 DEF RestQuiet
  <2>4. QED
    BY <2>1, <2>2, <2>3
<1>5. ASSUME Then("svc", <<Step("initialPauseState", Now), Step("restore", Now)>>)
      PROVE  \E s \in Seq(Steps) :
               Then("svc", s) /\ RestQuiet(s) /\ Head(s).do \notin {"open", "resume", "split"}
  <2> DEFINE s == <<Step("initialPauseState", Now), Step("restore", Now)>>
  <2>1. s \in Seq(Steps) /\ RestQuiet(s) /\ Head(s) = Step("initialPauseState", Now)
    BY TellingGoesOn
  <2>2. Step("initialPauseState", Now).do = "initialPauseState"
    BY StepFacts DEF Verbs
  <2>3. Then("svc", s)
    BY <1>5
  <2> HIDE DEF s
  <2>4. QED
    BY <2>1, <2>2, <2>3
<1>6. ASSUME NEW guard \in {"check_free_space", "check_bag_size"},
             Then("svc", <<Step("event", "other"), Step("stoppedFor", guard)>> \o Stopping)
      PROVE  \E s \in Seq(Steps) :
               Then("svc", s) /\ RestQuiet(s) /\ Head(s).do \notin {"open", "resume", "split"}
  <2> DEFINE s == <<Step("event", "other"), Step("stoppedFor", guard)>> \o Stopping
  <2>1. s \in Seq(Steps) /\ AllQuiet(s) /\ Len(s) > 3
    BY TellingGoesOn
  <2>2. Then("svc", s)
    BY <1>6
  <2> HIDE DEF s
  <2>3. RestQuiet(s) /\ Head(s).do \notin {"open", "resume", "split"}
    BY <2>1 DEF AllQuiet, RestQuiet, Quiet
  <2>4. QED
    BY <2>1, <2>2, <2>3
<1>7. CASE Then("svc", <<Step("event", "PAUSED")>>) \/ Then("svc", <<Step("event", "RESUMED")>>)
  BY <1>4, <1>7
<1>8. d \notin Verbs \ (Telling \cup {"check_free_space", "check_bag_size"}) =>
        \/ Done("svc")
        \/ \E e \in {"PAUSED", "RESUMED"} : Then("svc", <<Step("event", e)>>)
        \/ Then("svc", <<Step("initialPauseState", Now), Step("restore", Now)>>)
        \/ \E guard \in {"check_free_space", "check_bag_size"} :
             Then("svc", <<Step("event", "other"), Step("stoppedFor", guard)>> \o Stopping)
  BY <1>1 DEF ServiceStep, WriteEvent, Pause, Resume, Split, Open, InitialPauseState, Restore, Subscribe, Unsubscribe,
         TakeDeferred, RecordFileSplit, Close, Drop, ClearSchedules, Check, StoppedFor, Telling, Doing
<1>9. QED
  BY <1>2, <1>3, <1>5, <1>6, <1>7, <1>8

\* So the service thread's queue keeps its order.
LEMMA ServiceQueue ==
  ASSUME RecorderInv, QueueInv, ServiceStep
  PROVE  /\ RestQuiet(todo'["svc"]) /\ todo'["msg"] = todo["msg"]
         /\ todo'["svc"] # <<>> => Head(todo'["svc"]).do \notin {"open", "resume", "split"}
<1>0. TodoOK /\ "svc" \in Threads /\ "msg" \in Threads \ {"svc"}
  BY DEF RecorderInv, Threads
<1>1. PICK s \in Seq(Steps) :
        /\ Then("svc", s) \/ (Done("svc") /\ s = <<>>)
        /\ RestQuiet(s) /\ (s # <<>> => Head(s).do \notin {"open", "resume", "split"})
  BY ServiceGoesOn
<1>2. \E d : Doing("svc", d)
  BY DEF ServiceStep, WriteEvent, Pause, Resume, Split, Open, InitialPauseState, Restore, Subscribe, Unsubscribe,
         TakeDeferred, RecordFileSplit, Close, Drop, ClearSchedules, Check, StoppedFor
<1> DEFINE q == todo["svc"]
<1>3. /\ q # <<>> /\ q \in Seq(Steps) /\ Tail(q) \in Seq(Steps)
      /\ todo'["svc"] = s \o Tail(q) /\ todo'["msg"] = todo["msg"]
  BY <1>0, <1>1, <1>2, QueueAfter
<1>4. AllQuiet(Tail(q))
  BY <1>3, QuietTail DEF QueueInv
<1>5. RestQuiet(todo'["svc"])
  BY <1>1, <1>3, <1>4, QuietConcat
<1>6. CASE s = <<>>
  <2>1. todo'["svc"] = Tail(q)
    BY <1>3, <1>4, <1>6, QuietConcat
  <2>2. Tail(q) # <<>> => Quiet(Head(Tail(q)))
    BY <1>3, <1>4 DEF AllQuiet
  <2>3. QED
    BY <1>3, <1>5, <2>1, <2>2 DEF Quiet
<1>7. CASE s # <<>>
  BY <1>1, <1>3, <1>4, <1>5, <1>7, QuietConcat
<1>8. QED
  BY <1>6, <1>7

\* A callback's steps: what is put before them, and what is left of them.
LEMMA CallbackFacts ==
  ASSUME NEW S, NEW s \in Seq(S), NEW q \in Seq(S), q # <<>>, CallbackInv(q)
  PROVE  /\ CallbackInv(Tail(q))
         /\ Head(q).do \in LastSteps => Tail(q) = <<>>
         /\ BeforeLast(s) => CallbackInv(s \o Tail(q))
<1> DEFINE t == Tail(q)
<1>1. /\ t \in Seq(S) /\ Len(t) = Len(q) - 1 /\ Len(q) > 0 /\ Head(q) = q[1]
      /\ \A i \in 1..Len(t) : i + 1 \in 1..Len(q) /\ t[i] = q[i + 1]
  BY TailFacts
<1>2. Len(q) \in Nat /\ Len(t) \in Nat /\ Len(s) \in Nat
  BY <1>1
<1> HIDE DEF t
<1>3. Head(q).do \in LastSteps => t = <<>>
  <2> SUFFICES ASSUME Head(q).do \in LastSteps PROVE t = <<>>
    OBVIOUS
  <2>1. 1 \in 1..Len(q) /\ q[1].do \in LastSteps
    BY <1>1, <1>2
  <2>2. 1 = Len(q)
    BY <2>1, Zenon DEF CallbackInv
  <2>3. Len(t) < 1
    BY <1>1, <1>2, <2>2
  <2>4. QED
    BY <1>1, <2>3
<1>4. CallbackInv(t)
  <2> SUFFICES ASSUME NEW i \in 1..Len(t)
               PROVE  MessageTimed(t[i]) /\ (t[i].do \in LastSteps => i = Len(t))
    BY DEF CallbackInv
  <2>1. i + 1 \in 1..Len(q) /\ t[i] = q[i + 1]
    BY <1>1
  <2>2. MessageTimed(q[i + 1]) /\ (q[i + 1].do \in LastSteps => i + 1 = Len(q))
    BY <2>1 DEF CallbackInv
  <2>3. i + 1 = Len(q) => i = Len(t)
    BY <1>1, <1>2
  <2>4. QED
    BY <2>1, <2>2, <2>3
<1>5. ASSUME BeforeLast(s) PROVE CallbackInv(s \o t)
  <2> DEFINE both == s \o t
  <2>1. /\ Len(both) = Len(s) + Len(t)
        /\ \A i \in 1..Len(both) :
             \/ i \in 1..Len(s) /\ both[i] = s[i]
             \/ i - Len(s) \in 1..Len(t) /\ both[i] = t[i - Len(s)]
    BY <1>1, ConcatFacts
  <2> HIDE DEF both
  <2>2. ASSUME NEW i \in 1..Len(both)
        PROVE  MessageTimed(both[i]) /\ (both[i].do \in LastSteps => i = Len(both))
    <3>1. CASE i \in 1..Len(s) /\ both[i] = s[i]
      BY <1>5, <3>1 DEF BeforeLast
    <3>2. CASE i - Len(s) \in 1..Len(t) /\ both[i] = t[i - Len(s)]
      <4>1. MessageTimed(t[i - Len(s)]) /\ (t[i - Len(s)].do \in LastSteps => i - Len(s) = Len(t))
        BY <1>4, <3>2 DEF CallbackInv
      <4>2. i - Len(s) = Len(t) => i = Len(both)
        BY <1>2, <2>1
      <4>3. QED
        BY <3>2, <4>1, <4>2
    <3>3. QED
      BY <2>1, <3>1, <3>2
  <2>3. QED
    BY <2>2 DEF CallbackInv, both
<1>6. QED
  BY <1>3, <1>4, <1>5 DEF t

\* What a message makes due are resumes and splits scheduled for messages.
DueSteps(s) == \A i \in 1..Len(s) : s[i].do \in {"resume", "split"} /\ s[i].arg.mode \in {"publish", "receive"}

LEMMA TakesDue ==
  ASSUME RecorderInv, TakeDueSchedules
  PROVE  Doing("msg", "takeDue") /\ \E s \in Seq(Steps) : Then("msg", s) /\ DueSteps(s)
<1> DEFINE a == Arg("msg")
           due == Due(a[1], a[2], a[3])
           one == IF "resume" \in due THEN <<Step("resume", scheduled["resume"])>> ELSE <<>>
           two == IF "split" \in due THEN <<Step("split", scheduled["split"])>> ELSE <<>>
<1>1. Doing("msg", "takeDue") /\ Then("msg", one \o two)
  BY DEF TakeDueSchedules
<1>2. \A k \in {"resume", "split"} :
        /\ Step(k, scheduled[k]) \in Steps /\ Step(k, scheduled[k]).do = k
        /\ Step(k, scheduled[k]).arg = scheduled[k]
  BY StepFacts DEF RecorderInv, SchedulerInv, SchedulerOK, Args, Kinds, Verbs
<1>3. \A k \in {"resume", "split"} : k \in due => scheduled[k].mode \in {"publish", "receive"}
  BY DEF Due, IsDue, FiresOnMessages
<1>4. /\ one \in Seq(Steps)
      /\ \A i \in 1..Len(one) : one[i].do = "resume" /\ one[i].arg.mode \in {"publish", "receive"}
  <2>1. CASE "resume" \in due
    <3> DEFINE r == Step("resume", scheduled["resume"])
    <3>1. r \in Steps /\ r.do = "resume" /\ r.arg.mode \in {"publish", "receive"}
      BY <1>2, <1>3, <2>1
    <3>2. one = <<r>>
      BY <2>1
    <3> HIDE DEF r, one
    <3>3. QED
      BY <3>1, <3>2
  <2>2. CASE "resume" \notin due
    BY <2>2
  <2>3. QED
    BY <2>1, <2>2
<1>5. /\ two \in Seq(Steps)
      /\ \A i \in 1..Len(two) : two[i].do = "split" /\ two[i].arg.mode \in {"publish", "receive"}
  <2>1. CASE "split" \in due
    <3> DEFINE r == Step("split", scheduled["split"])
    <3>1. r \in Steps /\ r.do = "split" /\ r.arg.mode \in {"publish", "receive"}
      BY <1>2, <1>3, <2>1
    <3>2. two = <<r>>
      BY <2>1
    <3> HIDE DEF r, two
    <3>3. QED
      BY <3>1, <3>2
  <2>2. CASE "split" \notin due
    BY <2>2
  <2>3. QED
    BY <2>1, <2>2
<1> HIDE DEF one, two
<1> DEFINE both == one \o two
<1>6. /\ both \in Seq(Steps)
      /\ \A i \in 1..Len(both) :
           \/ i \in 1..Len(one) /\ both[i] = one[i]
           \/ i - Len(one) \in 1..Len(two) /\ both[i] = two[i - Len(one)]
  BY <1>4, <1>5, ConcatFacts
<1> HIDE DEF both
<1>7. DueSteps(both)
  BY <1>4, <1>5, <1>6 DEF DueSteps
<1>8. QED
  BY <1>1, <1>6, <1>7 DEF both

\* So do the callback's.
LEMMA CallbackQueue ==
  ASSUME RecorderInv, QueueInv, MessageStep
  PROVE  CallbackInv(todo'["msg"]) /\ todo'["svc"] = todo["svc"]
<1>0. TodoOK /\ "msg" \in Threads /\ "svc" \in Threads \ {"msg"} /\ CallbackInv(todo["msg"])
  BY DEF RecorderInv, QueueInv, Threads
<1> DEFINE q == todo["msg"]
<1>1. <<>> \in Seq(Steps)
  OBVIOUS
<1>2. ASSUME NEW d, Doing("msg", d), Done("msg") PROVE CallbackInv(todo'["msg"]) /\ todo'["svc"] = todo["svc"]
  <2>1. /\ q # <<>> /\ q \in Seq(Steps) /\ Tail(q) \in Seq(Steps)
        /\ todo'["msg"] = <<>> \o Tail(q) /\ todo'["svc"] = todo["svc"]
    BY <1>0, <1>1, <1>2, QueueAfter
  <2>2. <<>> \o Tail(q) = Tail(q)
    BY <2>1
  <2>3. QED
    BY <1>0, <2>1, <2>2, CallbackFacts
<1>3. ASSUME NEW d, Doing("msg", d), NEW s \in Seq(Steps), Then("msg", s), BeforeLast(s)
      PROVE  CallbackInv(todo'["msg"]) /\ todo'["svc"] = todo["svc"]
  <2>1. /\ q # <<>> /\ q \in Seq(Steps) /\ todo'["msg"] = s \o Tail(q) /\ todo'["svc"] = todo["svc"]
    BY <1>0, <1>3, QueueAfter
  <2>2. QED
    BY <1>0, <1>3, <2>1, CallbackFacts
<1>4. CASE WriteEvent("msg") \/ Split("msg") \/ WriteMessage \/ Stage
  BY <1>2, <1>4 DEF WriteEvent, Split, WriteMessage, Stage
<1>5. CASE Resume("msg")
  <2>1. Step("event", "RESUMED") \in Steps /\ Step("event", "RESUMED").do = "event"
    BY StepFacts DEF Verbs, Args
  <2> DEFINE r == Step("event", "RESUMED")
  <2>2. Done("msg") \/ Then("msg", <<r>>)
    BY <1>5 DEF Resume
  <2> HIDE DEF r
  <2>3. <<r>> \in Seq(Steps) /\ BeforeLast(<<r>>)
    BY <2>1 DEF r, BeforeLast, MessageTimed, LastSteps
  <2>4. QED
    BY <1>2, <1>3, <1>5, <2>2, <2>3 DEF Resume
<1>6. ASSUME NEW d \in LastSteps, Doing("msg", d), NEW w \in LastSteps, Then("msg", <<Step(w, Now)>>)
      PROVE  CallbackInv(todo'["msg"]) /\ todo'["svc"] = todo["svc"]
  <2> DEFINE r == Step(w, Now)
  <2>1. r \in Steps /\ r.do = w
    BY StepFacts DEF Verbs, LastSteps
  <2>2. Then("msg", <<r>>)
    BY <1>6
  <2> HIDE DEF r
  <2>3. <<r>> \in Seq(Steps)
    BY <2>1
  <2>4. /\ q # <<>> /\ q \in Seq(Steps) /\ todo'["msg"] = <<r>> \o Tail(q) /\ todo'["svc"] = todo["svc"]
    BY <1>0, <1>6, <2>2, <2>3, QueueAfter
  <2>5. Tail(q) = <<>>
    BY <1>0, <1>6, <2>4, CallbackFacts DEF Doing
  <2>6. <<r>> \o <<>> = <<r>>
    BY <2>3
  <2>7. CallbackInv(<<r>>)
    BY <2>1 DEF CallbackInv, MessageTimed, LastSteps
  <2>8. QED
    BY <2>4, <2>5, <2>6, <2>7
<1>9. CASE Gate \/ SeeBusy
  BY <1>2, <1>6, <1>9 DEF Gate, SeeBusy, LastSteps
<1>7. CASE TakeDueSchedules
  <2>1. PICK s \in Seq(Steps) : Then("msg", s) /\ DueSteps(s)
    BY <1>7, TakesDue
  <2>2. BeforeLast(s)
    BY <2>1 DEF DueSteps, BeforeLast, MessageTimed, LastSteps
  <2>3. QED
    BY <1>3, <1>7, <2>1, <2>2, TakesDue
<1>8. QED
  BY <1>4, <1>5, <1>7, <1>9 DEF MessageStep

\* Every step keeps the order of the queues.
LEMMA QueueStep == RecorderInv /\ QueueInv /\ [Next]_vars => QueueInv'
<1> SUFFICES ASSUME RecorderInv, QueueInv, [Next]_vars PROVE QueueInv'
  OBVIOUS
<1>1. CASE Request \/ DeferredTimer \/ \E k \in Kinds : NodeTimer(k)
  <2> DEFINE q == todo'["svc"]
  <2>1. RestQuiet(q) /\ (q # <<>> /\ Head(q).do = "open" => Len(q) = 1) /\ todo'["msg"] = todo["msg"]
    BY <1>1, BeginsWith
  <2>2. QED
    BY <2>1 DEF QueueInv, Doing
<1>2. CASE ServiceStep
  BY <1>2, ServiceQueue DEF QueueInv, Doing
<1>3. CASE MessageStep
  BY <1>3, CallbackQueue DEF QueueInv, Doing
<1>4. ASSUME NEW topic \in Topics, NEW send \in Stamps, NEW recv \in Stamps, Deliver(topic, send, recv)
      PROVE  QueueInv'
  <2>1. todo'["svc"] = todo["svc"]
        /\ todo'["msg"] = <<Step("takeDue", <<topic, send, recv>>), Step("gate", Now)>>
    BY <1>4 DEF Deliver, RecorderInv, TodoOK, Threads
  <2> DEFINE a == Step("takeDue", <<topic, send, recv>>)
             b == Step("gate", Now)
  <2>2. a.do = "takeDue" /\ b.do = "gate"
    BY DEF Step
  <2> HIDE DEF a, b
  <2>3. CallbackInv(<<a, b>>)
    BY <2>2 DEF CallbackInv, MessageTimed, LastSteps
  <2>4. QED
    BY <2>1, <2>3 DEF QueueInv, Doing, a, b
<1>5. CASE UNCHANGED vars
  BY <1>5 DEF vars, QueueInv, Doing
<1>6. QED
  BY <1>1, <1>2, <1>3, <1>4, <1>5 DEF Next

\* The recorder starts with that order.
LEMMA QueueInit == Init => QueueInv
<1> SUFFICES ASSUME Init PROVE QueueInv
  OBVIOUS
<1>1. todo["svc"] = <<Step("open", Now)>> /\ todo["msg"] = <<>>
  BY DEF Init, Threads
<1>2. QED
  BY <1>1 DEF QueueInv, RestQuiet, CallbackInv, Doing

\* A clear() to come is still to come after any step but itself.
LEMMA StillClears ==
  ASSUME RecorderInv, ServiceStep, Head(todo["svc"]).do # "clear", WillClear(todo["svc"])
  PROVE  WillClear(todo'["svc"])
<1>1. PICK s \in Seq(Steps) : Then("svc", s) \/ (Done("svc") /\ s = <<>>)
  BY ServiceGoesOn
<1>2. \E d : Doing("svc", d)
  BY DEF ServiceStep, WriteEvent, Pause, Resume, Split, Open, InitialPauseState, Restore, Subscribe, Unsubscribe,
         TakeDeferred, RecordFileSplit, Close, Drop, ClearSchedules, Check, StoppedFor
<1> DEFINE q == todo["svc"]
<1>3. q # <<>> /\ q \in Seq(Steps) /\ Tail(q) \in Seq(Steps) /\ todo'["svc"] = s \o Tail(q)
  BY <1>1, <1>2, QueueAfter DEF RecorderInv, Threads
<1>4. WillClear(Tail(q))
  BY <1>3, ClearFollowsTail DEF RecorderInv, StopInv
<1>5. QED
  BY <1>3, <1>4, WillClearConcat
-----------------------------------------------------------------------------
(* Schedules act on the recording they were asked for.                     *)

\* A schedule of node time is of the recording there is, from the call until its
\* timer's callback acts, but for a stop that has not come to its clear() yet.
ActsInv ==
  /\ \A d \in {"resume", "split"} :
       Doing("svc", d) /\ Arg("svc").mode = "node" => open /\ Arg("svc").bag = bag
  /\ \A k \in {"resume", "split"} :
       scheduled[k].mode = "node" /\ ~WillClear(todo["svc"]) => open /\ scheduled[k].bag = bag

\* What acts, acts now, for a message, or for a timer of this recording.
LEMMA ActsKeeps ==
  ASSUME NodeTimeActsInItsBag, NEW kind, NEW s, Acts(kind, s), open \in BOOLEAN,
         s.mode = "node" => open /\ s.bag = bag
  PROVE  NodeTimeActsInItsBag'
BY DEF NodeTimeActsInItsBag, Acts

\* A call or a timer: what it schedules is of this bag, and what its timer acts
\* on was.
LEMMA ActsBegins ==
  ASSUME RecorderInv, ActsInv, Request \/ DeferredTimer \/ \E k \in Kinds : NodeTimer(k)
  PROVE  ActsInv'
<1> DEFINE q == todo'["svc"]
<1>1. todo["svc"] = <<>> /\ UNCHANGED <<open, bag>>
  BY BeginsWith DEF bagVars
<1>2. \A k \in {"resume", "split"} : scheduled[k].mode = "node" => open /\ scheduled[k].bag = bag
  BY <1>1 DEF ActsInv, WillClear
<1>3. ASSUME NEW d \in {"resume", "split"}, Doing("svc", d)', Arg("svc")'.mode = "node"
      PROVE  open /\ Arg("svc")'.bag = bag
  <2>1. q # <<>> /\ Head(q).do = d /\ Head(q).arg = Arg("svc")'
    BY <1>3 DEF Doing, Arg
  <2>2. Head(q).arg = Now \/ \E k \in Kinds : NodeTimer(k) /\ Head(q).arg = scheduled[k] /\ Head(q).do = k
    BY <2>1, BeginsWith
  <2>3. Now.mode # "node"
    BY DEF Now
  <2>4. PICK k \in Kinds : Arg("svc")' = scheduled[k] /\ d = k
    BY <1>3, <2>1, <2>2, <2>3
  <2>5. QED
    BY <1>2, <1>3, <2>4
<1>4. ASSUME NEW k \in {"resume", "split"}, scheduled'[k].mode = "node"
      PROVE  open /\ scheduled'[k].bag = bag
  <2>1. CASE scheduled'[k] = scheduled[k]
    BY <1>2, <1>4, <2>1
  <2>2. CASE CallSchedule /\ scheduled'[k] # scheduled[k]
    <3>1. PICK j \in Kinds, mode \in Modes, at \in Times, tracking \in subscriptions \cup {AnyTopic} :
            /\ j # "record" => open
            /\ Schedule(j, [mode |-> mode, at |-> at, tracking |-> tracking, bag |-> bag])
      BY <2>2 DEF CallSchedule
    <3>2. scheduled'[k] = IF j = k THEN [mode |-> mode, at |-> at, tracking |-> tracking, bag |-> bag]
                                   ELSE scheduled[k]
      BY <3>1 DEF Schedule, RecorderInv, SchedulerInv, SchedulerOK, Kinds
    <3>3. QED
      BY <2>2, <3>1, <3>2
  <2>3. CASE \E j \in Kinds : NodeTimer(j) /\ scheduled'[k] # scheduled[k]
    <3>1. scheduled'[k] = NoSchedule
      BY <2>3 DEF NodeTimer, TimerFires, RecorderInv, SchedulerInv, SchedulerOK, Kinds
    <3>2. QED
      BY <1>4, <3>1 DEF NoSchedule
  <2>4. scheduled' = scheduled \/ CallSchedule \/ \E j \in Kinds : NodeTimer(j)
    BY DEF Request, CallPause, CallToggle, CallRecord, CallUnsubscribe, CallResume, CallSplit, CallStop, CallSubscribe,
           CallSetTopics, StorageTick, DeferredTimer, schedulerVars
  <2>5. QED
    BY <2>1, <2>2, <2>3, <2>4
<1>5. QED
  BY <1>1, <1>3, <1>4 DEF ActsInv

\* The service thread: only an open, a close and a clear() touch what a schedule
\* is judged by, and each leaves none of node time behind.
LEMMA ActsServiceStep ==
  ASSUME RecorderInv, QueueInv, ActsInv, ServiceStep
  PROVE  ActsInv'
<1>1. todo'["svc"] # <<>> => Head(todo'["svc"]).do \notin {"resume", "split"}
  BY ServiceQueue
<1>2. ASSUME NEW k \in {"resume", "split"}, scheduled'[k].mode = "node", ~WillClear(todo'["svc"])
      PROVE  open' /\ scheduled'[k].bag = bag'
  <2>1. CASE UNCHANGED <<open, bag, scheduled>> /\ Head(todo["svc"]).do # "clear"
    <3>1. ~WillClear(todo["svc"])
      BY <1>2, <2>1, StillClears
    <3>2. QED
      BY <1>2, <2>1, <3>1 DEF ActsInv
  <2>2. CASE ClearSchedules
    <3>1. scheduled'[k] = NoSchedule
      BY <2>2, ClearKeeps DEF ClearSchedules, RecorderInv
    <3>2. QED
      BY <1>2, <3>1 DEF NoSchedule
  <2>3. CASE Close
    <3>1. todo["svc"] # <<>> /\ todo["svc"] \in Seq(Steps) /\ Head(todo["svc"]).do = "close"
      BY <2>3, HeadFacts DEF Close, RecorderInv, Threads
    <3>2. todo'["svc"] = Tail(todo["svc"])
      BY <2>3 DEF Close, Done, RecorderInv, TodoOK, Threads
    <3>3. QED
      BY <1>2, <3>1, <3>2, ClearFollowsTail DEF RecorderInv, StopInv
  <2>4. CASE Open /\ ~open
    <3>1. Len(todo["svc"]) = 1 /\ Head(todo["svc"]).do = "open" /\ Head(todo["svc"]) = todo["svc"][1]
      BY <2>4, HeadFacts, TailFacts DEF Open, QueueInv, RecorderInv, Threads
    <3>2. ~WillClear(todo["svc"])
      BY <3>1 DEF WillClear
    <3>3. scheduled[k] = NoSchedule
      BY <2>4, <3>2 DEF RecorderInv, StopInv
    <3>4. scheduled' = scheduled
      BY <2>4 DEF Open, schedulerVars
    <3>5. QED
      BY <1>2, <3>3, <3>4 DEF NoSchedule
  <2>5. \/ UNCHANGED <<open, bag, scheduled>> /\ Head(todo["svc"]).do # "clear"
        \/ ClearSchedules \/ Close \/ (Open /\ ~open)
    BY DEF ServiceStep, WriteEvent, Pause, Resume, Split, Open, InitialPauseState, Restore, Subscribe, Unsubscribe,
           TakeDeferred, RecordFileSplit, Drop, Check, StoppedFor, Doing, bagVars, schedulerVars
  <2>6. QED
    BY <2>1, <2>2, <2>3, <2>4, <2>5
<1>3. QED
  BY <1>1, <1>2 DEF ActsInv, Doing

\* Every step keeps it, and what acted.
LEMMA ActsStep ==
  RecorderInv /\ QueueInv /\ ActsInv /\ NodeTimeActsInItsBag /\ [Next]_vars => ActsInv' /\ NodeTimeActsInItsBag'
<1> SUFFICES ASSUME RecorderInv, QueueInv, ActsInv, NodeTimeActsInItsBag, [Next]_vars
             PROVE  ActsInv' /\ NodeTimeActsInItsBag'
  OBVIOUS
<1>0. open \in BOOLEAN /\ "svc" \in Threads /\ "msg" \in Threads
  BY DEF RecorderInv, BagOK, Threads
<1>1. CASE Request \/ DeferredTimer \/ \E k \in Kinds : NodeTimer(k)
  <2>1. acted' = acted
    BY <1>1, BeginsWith
  <2>2. QED
    BY <1>1, <2>1, ActsBegins DEF NodeTimeActsInItsBag
<1>2. CASE ServiceStep
  <2>1. CASE acted' = acted
    BY <1>2, <2>1, ActsServiceStep DEF NodeTimeActsInItsBag
  <2>2. CASE Resume("svc") \/ Split("svc")
    <3>1. PICK d \in {"resume", "split"} : Doing("svc", d) /\ Acts(d, Arg("svc"))
      BY <2>2 DEF Resume, Split
    <3>2. Arg("svc").mode = "node" => open /\ Arg("svc").bag = bag
      BY <3>1 DEF ActsInv
    <3>3. QED
      BY <1>0, <1>2, <3>1, <3>2, ActsKeeps, ActsServiceStep
  <2>3. QED
    BY <1>2, <2>1, <2>2 DEF ServiceStep, WriteEvent, Pause, Open, InitialPauseState, Restore, Subscribe, Unsubscribe,
       TakeDeferred, RecordFileSplit, Close, Drop, ClearSchedules, Check, StoppedFor
<1>3. CASE MessageStep
  <2>1. todo'["svc"] = todo["svc"] /\ UNCHANGED <<open, bag>>
    BY <1>3, CallbackQueue DEF MessageStep, WriteEvent, Resume, Split, TakeDueSchedules, Gate, WriteMessage, SeeBusy, Stage, bagVars
  <2>2. \A k \in {"resume", "split"} : scheduled'[k] \in {scheduled[k], NoSchedule}
    BY <1>3 DEF MessageStep, WriteEvent, Resume, Split, TakeDueSchedules, TakeDue, Gate, WriteMessage, SeeBusy, Stage, schedulerVars,
                Kinds
  <2>3. ActsInv'
    BY <2>1, <2>2 DEF ActsInv, NoSchedule, Doing, Arg
  <2>4. NodeTimeActsInItsBag'
    <3>1. CASE acted' = acted
      BY <2>1, <3>1 DEF NodeTimeActsInItsBag
    <3>2. CASE Resume("msg") \/ Split("msg")
      <4>1. PICK d \in {"resume", "split"} : Doing("msg", d) /\ Acts(d, Arg("msg"))
        BY <3>2 DEF Resume, Split
      <4>2. /\ todo["msg"] # <<>> /\ todo["msg"] \in Seq(Steps)
            /\ Head(todo["msg"]) = todo["msg"][1] /\ Head(todo["msg"]).do = d /\ 1 \in 1..Len(todo["msg"])
        BY <1>0, <4>1, HeadFacts, TailFacts DEF RecorderInv
      <4>3. Arg("msg").mode # "node"
        BY <4>2 DEF QueueInv, CallbackInv, MessageTimed, Arg
      <4>4. QED
        BY <1>0, <4>1, <4>3, ActsKeeps
    <3>3. QED
      BY <1>3, <3>1, <3>2 DEF MessageStep, WriteEvent, TakeDueSchedules, Gate, WriteMessage, SeeBusy, Stage
  <2>5. QED
    BY <2>3, <2>4
<1>4. ASSUME NEW topic \in Topics, NEW send \in Stamps, NEW recv \in Stamps, Deliver(topic, send, recv)
      PROVE  ActsInv' /\ NodeTimeActsInItsBag'
  <2>1. todo'["svc"] = todo["svc"] /\ UNCHANGED <<open, bag, scheduled, acted>>
    BY <1>4 DEF Deliver, RecorderInv, TodoOK, Threads, bagVars, schedulerVars
  <2>2. QED
    BY <2>1 DEF ActsInv, NodeTimeActsInItsBag, Doing, Arg
<1>5. CASE UNCHANGED vars
  BY <1>5 DEF vars, ActsInv, NodeTimeActsInItsBag, Doing, Arg, bagVars, schedulerVars
<1>6. QED
  BY <1>1, <1>2, <1>3, <1>4, <1>5 DEF Next

\* The recorder starts with nothing scheduled and nothing acted on.
LEMMA ActsInit == Init => ActsInv /\ NodeTimeActsInItsBag
<1> SUFFICES ASSUME Init PROVE ActsInv /\ NodeTimeActsInItsBag
  OBVIOUS
<1>1. todo["svc"] = <<Step("open", Now)>> /\ \A k \in Kinds : scheduled[k] = NoSchedule
  BY DEF Init, SchedulerInit, Threads
<1>2. ActsInv
  BY <1>1 DEF ActsInv, Doing, Step, NoSchedule, Kinds
<1>3. QED
  BY <1>2 DEF Init, NodeTimeActsInItsBag

\* A schedule of node time acts on the recording it was asked for, while it is
\* open: stop() clears what is queued on the thread the timers run on
\* (scheduler.hpp:92, dynamic_recorder.cpp stop()), whatever calls, messages and
\* rollovers come between.
THEOREM NodeTimeActsRight == Spec => []NodeTimeActsInItsBag
<1>1. Init => RecorderInv /\ QueueInv /\ ActsInv /\ NodeTimeActsInItsBag
  BY InitInv, QueueInit, ActsInit
<1>2. /\ RecorderInv /\ QueueInv /\ ActsInv /\ NodeTimeActsInItsBag /\ [Next]_vars
      => (RecorderInv /\ QueueInv /\ ActsInv /\ NodeTimeActsInItsBag)'
  BY StepKeepsInv, QueueStep, ActsStep
<1>3. QED
  BY <1>1, <1>2, PTL DEF Spec
-----------------------------------------------------------------------------
(* One guard stops the recording.                                          *)

\* A guard that stops the recording closes it before another looks, and until
\* then neither finds a reason: what is left closes the bag before any guard, or,
\* before the reason is noted, does so right after it.
NoStopLeft(q) == \A i \in 1..Len(q) : q[i].do # "stoppedFor"
ClosesBefore(q, from) ==
  \E j \in from..Len(q) : q[j].do = "close" /\ \A i \in from..j - 1 : q[i].do \notin Guards
StopFollows(q) ==
  \A i \in 1..Len(q) : q[i].do = "stoppedFor" =>
    (\A h \in 1..i - 1 : q[h].do = "event") /\ ClosesBefore(q, i + 1)
ReasonInv ==
  /\ StopFollows(todo["svc"])
  /\ stopped_for_low_disk \/ stopped_for_max_bag_size =>
       NoStopLeft(todo["svc"]) /\ (open => ClosesBefore(todo["svc"], 1))

\* Steps in front of what closes the bag, none of them a guard's.
LEMMA ClosesConcat ==
  ASSUME NEW S, NEW s \in Seq(S), NEW t \in Seq(S), NoGuards(s), ClosesBefore(t, 1)
  PROVE  ClosesBefore(s \o t, 1)
<1>1. PICK j \in 1..Len(t) : t[j].do = "close" /\ \A i \in 1..j - 1 : t[i].do \notin Guards
  BY DEF ClosesBefore
<1> DEFINE both == s \o t
           k == Len(s) + j
<1>2. /\ Len(both) = Len(s) + Len(t) /\ Len(s) \in Nat /\ Len(t) \in Nat
      /\ \A i \in 1..Len(t) : both[Len(s) + i] = t[i]
      /\ \A i \in 1..Len(both) :
           \/ i \in 1..Len(s) /\ both[i] = s[i]
           \/ i - Len(s) \in 1..Len(t) /\ both[i] = t[i - Len(s)]
  BY ConcatFacts
<1> HIDE DEF both
<1>3. k \in 1..Len(both) /\ both[k].do = "close"
  BY <1>1, <1>2
<1>4. ASSUME NEW i \in 1..k - 1 PROVE both[i].do \notin Guards
  <2>1. i \in 1..Len(both)
    BY <1>2, <1>3
  <2>2. CASE i \in 1..Len(s) /\ both[i] = s[i]
    BY <2>2 DEF NoGuards
  <2>3. CASE i - Len(s) \in 1..Len(t) /\ both[i] = t[i - Len(s)]
    <3>1. i - Len(s) \in 1..j - 1
      BY <1>2, <2>3
    <3>2. QED
      BY <1>1, <2>3, <3>1
  <2>4. QED
    BY <1>2, <2>1, <2>2, <2>3
<1>5. QED
  BY <1>3, <1>4 DEF ClosesBefore, both

\* The first step taken, what closes the bag after it is still there.
LEMMA ClosesTail ==
  ASSUME NEW S, NEW q \in Seq(S), q # <<>>, ClosesBefore(q, 2) \/ (ClosesBefore(q, 1) /\ Head(q).do # "close")
  PROVE  ClosesBefore(Tail(q), 1)
<1> DEFINE t == Tail(q)
<1>1. /\ t \in Seq(S) /\ Len(t) = Len(q) - 1 /\ Len(q) > 0 /\ Head(q) = q[1]
      /\ \A i \in 1..Len(t) : i + 1 \in 1..Len(q) /\ t[i] = q[i + 1]
  BY TailFacts
<1>2. Len(q) \in Nat
  OBVIOUS
<1> HIDE DEF t
<1>3. PICK j \in 2..Len(q) : q[j].do = "close" /\ \A i \in 2..j - 1 : q[i].do \notin Guards
  <2>1. CASE ClosesBefore(q, 2)
    BY <2>1 DEF ClosesBefore
  <2>2. CASE ClosesBefore(q, 1) /\ Head(q).do # "close"
    <3>1. PICK j \in 1..Len(q) : q[j].do = "close" /\ \A i \in 1..j - 1 : q[i].do \notin Guards
      BY <2>2 DEF ClosesBefore
    <3>2. j \in 2..Len(q)
      BY <1>1, <1>2, <2>2, <3>1
    <3>3. QED
      BY <3>1, <3>2
  <2>3. QED
    BY <2>1, <2>2
<1>4. j - 1 \in 1..Len(t) /\ t[j - 1].do = "close"
  BY <1>1, <1>2, <1>3
<1>5. ASSUME NEW i \in 1..(j - 1) - 1 PROVE t[i].do \notin Guards
  <2>1. i \in 1..Len(t) /\ i + 1 \in 2..j - 1
    BY <1>1, <1>2, <1>3
  <2>2. QED
    BY <1>1, <1>3, <2>1
<1>6. QED
  BY <1>4, <1>5 DEF ClosesBefore, t

\* While a reason is still to be noted only events come before it.
LEMMA StopTail ==
  ASSUME NEW S, NEW q \in Seq(S), q # <<>>, StopFollows(q)
  PROVE  /\ Head(q).do # "event" => NoStopLeft(Tail(q))
         /\ NoStopLeft(q) => NoStopLeft(Tail(q))
         /\ StopFollows(Tail(q))
         /\ Head(q).do = "stoppedFor" => ~NoStopLeft(q) /\ ClosesBefore(Tail(q), 1)
<1> DEFINE t == Tail(q)
<1>1. /\ t \in Seq(S) /\ Len(t) = Len(q) - 1 /\ Len(q) > 0 /\ Head(q) = q[1]
      /\ \A i \in 1..Len(t) : i + 1 \in 1..Len(q) /\ t[i] = q[i + 1]
  BY TailFacts
<1>2. Len(q) \in Nat /\ 1 \in 1..Len(q)
  BY <1>1
<1>3. Head(q).do = "stoppedFor" => ~NoStopLeft(q) /\ ClosesBefore(t, 1)
  <2> SUFFICES ASSUME Head(q).do = "stoppedFor" PROVE ~NoStopLeft(q) /\ ClosesBefore(t, 1)
    OBVIOUS
  <2>1. ClosesBefore(q, 1 + 1) /\ ~NoStopLeft(q)
    BY <1>1, <1>2 DEF StopFollows, NoStopLeft
  <2>2. ClosesBefore(q, 2)
    BY <2>1
  <2>3. QED
    BY <2>1, <2>2, ClosesTail
<1> HIDE DEF t
<1>4. Head(q).do # "event" => NoStopLeft(t)
  <2> SUFFICES ASSUME NEW i \in 1..Len(t), t[i].do = "stoppedFor" PROVE Head(q).do = "event"
    BY DEF NoStopLeft
  <2>1. i + 1 \in 1..Len(q) /\ q[i + 1].do = "stoppedFor"
    BY <1>1
  <2>2. \A h \in 1..(i + 1) - 1 : q[h].do = "event"
    BY <2>1 DEF StopFollows
  <2>3. 1 \in 1..(i + 1) - 1
    OBVIOUS
  <2>4. QED
    BY <1>1, <2>2, <2>3
<1>5. NoStopLeft(q) => NoStopLeft(t)
  BY <1>1 DEF NoStopLeft
<1>6. StopFollows(t)
  <2> SUFFICES ASSUME NEW i \in 1..Len(t), t[i].do = "stoppedFor"
               PROVE  (\A h \in 1..i - 1 : t[h].do = "event") /\ ClosesBefore(t, i + 1)
    BY DEF StopFollows
  <2>1. i + 1 \in 1..Len(q) /\ q[i + 1].do = "stoppedFor"
    BY <1>1
  <2>2. (\A h \in 1..(i + 1) - 1 : q[h].do = "event") /\ ClosesBefore(q, (i + 1) + 1)
    BY <2>1 DEF StopFollows
  <2>3. ASSUME NEW h \in 1..i - 1 PROVE t[h].do = "event"
    <3>1. h \in 1..Len(t) /\ h + 1 \in 1..(i + 1) - 1
      BY <1>1, <1>2
    <3>2. QED
      BY <1>1, <2>2, <3>1
  <2>4. PICK j \in (i + 1) + 1..Len(q) : q[j].do = "close" /\ \A h \in (i + 1) + 1..j - 1 : q[h].do \notin Guards
    BY <2>2 DEF ClosesBefore
  <2>5. j - 1 \in i + 1..Len(t) /\ t[j - 1].do = "close"
    BY <1>1, <1>2, <2>4
  <2>6. ASSUME NEW h \in i + 1..(j - 1) - 1 PROVE t[h].do \notin Guards
    <3>1. h \in 1..Len(t) /\ h + 1 \in (i + 1) + 1..j - 1
      BY <1>1, <1>2, <2>4
    <3>2. QED
      BY <1>1, <2>4, <3>1
  <2>7. QED
    BY <2>3, <2>5, <2>6 DEF ClosesBefore
<1>7. QED
  BY <1>3, <1>4, <1>5, <1>6 DEF t

\* What a thread goes on with, put before what is left.
LEMMA StopConcat ==
  ASSUME NEW S, NEW s \in Seq(S), NEW t \in Seq(S), NoGuards(s), NoStopLeft(t)
  PROVE  NoStopLeft(s \o t) /\ StopFollows(s \o t)
<1>1. NoStopLeft(s)
  BY DEF NoGuards, NoStopLeft, Guards
<1>2. NoStopLeft(s \o t)
  BY <1>1, ConcatFacts DEF NoStopLeft
<1>3. QED
  BY <1>2 DEF NoStopLeft, StopFollows

\* A guard apart, the service thread goes on with no guard's steps, and after an
\* event with none.
LEMMA NoGuardGoesOn ==
  ASSUME RecorderInv, ServiceStep
  PROVE  \/ \E guard \in {"check_free_space", "check_bag_size"} :
              Check(guard) /\ open /\ Then("svc", <<Step("event", "other"), Step("stoppedFor", guard)>> \o Stopping)
         \/ \E s \in Seq(Steps) :
              /\ NoGuards(s) /\ (Then("svc", s) \/ (Done("svc") /\ s = <<>>))
              /\ Head(todo["svc"]).do = "event" => s = <<>>
<1>0. <<>> \in Seq(Steps) /\ NoGuards(<<>>)
  BY DEF NoGuards
<1>1. CASE Done("svc")
  BY <1>0, <1>1
<1>2. CASE Pause("svc") \/ Resume("svc") \/ InitialPauseState
  <2>1. Doing("svc", "pause") \/ Doing("svc", "resume") \/ Doing("svc", "initialPauseState")
    BY <1>2 DEF Pause, Resume, InitialPauseState
  <2>2. Done("svc") \/ \E e \in {"PAUSED", "RESUMED"} : Then("svc", <<Step("event", e)>>)
    BY <1>2 DEF Pause, Resume, InitialPauseState
  <2>3. ASSUME NEW e \in {"PAUSED", "RESUMED"}, Then("svc", <<Step("event", e)>>)
        PROVE  \E s \in Seq(Steps) : NoGuards(s) /\ Then("svc", s)
    <3> DEFINE r == Step("event", e)
    <3>1. r \in Steps /\ r.do = "event" /\ Then("svc", <<r>>)
      BY <2>3, StepFacts DEF Verbs, Args
    <3> HIDE DEF r
    <3>2. <<r>> \in Seq(Steps) /\ NoGuards(<<r>>)
      BY <3>1 DEF NoGuards, Guards
    <3>3. QED
      BY <3>1, <3>2
  <2>4. QED
    BY <1>1, <2>1, <2>2, <2>3 DEF Doing
<1>3. CASE Open
  <2> DEFINE s == <<Step("initialPauseState", Now), Step("restore", Now)>>
  <2>1. s \in Seq(Steps) /\ NoGuards(s)
    BY TellingGoesOn
  <2>2. (Done("svc") \/ Then("svc", s)) /\ Head(todo["svc"]).do = "open"
    BY <1>3 DEF Open, Doing
  <2> HIDE DEF s
  <2>3. QED
    BY <1>1, <2>1, <2>2
<1>4. CASE Check("check_free_space") \/ Check("check_bag_size")
  BY <1>1, <1>4 DEF Check
<1>5. CASE \/ Restore \/ Subscribe \/ Unsubscribe \/ TakeDeferred
  <2>1. PICK d \in Verbs \ (Telling \cup {"check_free_space", "check_bag_size"}) : Doing("svc", d) /\ d # "event"
    BY <1>5 DEF Restore, Subscribe, Unsubscribe, TakeDeferred, Verbs, Telling
  <2>2. PICK s \in Seq(Steps) : NoGuards(s) /\ (Then("svc", s) \/ (Done("svc") /\ s = <<>>))
    BY <2>1, QuietGoesOn
  <2>3. QED
    BY <2>1, <2>2 DEF Doing
<1>6. QED
  BY <1>1, <1>2, <1>3, <1>4, <1>5 DEF ServiceStep, WriteEvent, Split, RecordFileSplit, Close, Drop, ClearSchedules,
     StoppedFor

\* A guard that stops the recording finds no other reason: what is left would
\* have closed the bag before it could look.
LEMMA ReasonGuard ==
  ASSUME RecorderInv, ReasonInv, OneReasonToStop, NEW guard \in {"check_free_space", "check_bag_size"},
         Check(guard), open, Then("svc", <<Step("event", "other"), Step("stoppedFor", guard)>> \o Stopping)
  PROVE  ReasonInv' /\ OneReasonToStop'
<1> DEFINE q == todo["svc"]
           t == Tail(q)
           s == <<Step("event", "other"), Step("stoppedFor", guard)>> \o Stopping
<1>0. TodoOK /\ "svc" \in Threads /\ StopFollows(q)
  BY DEF RecorderInv, Threads, ReasonInv
<1>1. Doing("svc", guard) /\ UNCHANGED <<stopVars, open>> /\ Then("svc", s)
  BY DEF Check, bagVars
<1>2. /\ s \in Seq(Steps) /\ Len(s) > 3
      /\ s[1].do = "event" /\ s[2].do = "stoppedFor" /\ s[3].do = "takeDeferred" /\ s[4].do = "close"
      /\ \A i \in 1..Len(s) : s[i].do = "stoppedFor" => i = 2
  BY TellingGoesOn
<1> HIDE DEF s
<1>3. q # <<>> /\ q \in Seq(Steps) /\ t \in Seq(Steps) /\ todo'["svc"] = s \o t /\ Head(q).do = guard
  BY <1>0, <1>1, <1>2, QueueAfter DEF Doing
<1>4. ~(stopped_for_low_disk \/ stopped_for_max_bag_size)
  <2> SUFFICES ASSUME ClosesBefore(q, 1) PROVE FALSE
    BY DEF ReasonInv
  <2>1. PICK j \in 1..Len(q) : q[j].do = "close" /\ \A i \in 1..j - 1 : q[i].do \notin Guards
    BY DEF ClosesBefore
  <2>2. q[1].do = guard
    BY <1>3, TailFacts
  <2>3. j # 1
    BY <2>1, <2>2
  <2>4. 1 \in 1..j - 1
    BY <2>1, <2>3
  <2>5. QED
    BY <2>1, <2>2, <2>4 DEF Guards
<1>5. NoStopLeft(t)
  BY <1>0, <1>3, StopTail
<1> DEFINE both == s \o t
<1>6. /\ Len(both) > 3 /\ both[1] = s[1] /\ both[2] = s[2] /\ both[3] = s[3] /\ both[4] = s[4] /\ Len(both) \in Nat
      /\ \A i \in 1..Len(both) :
           \/ i \in 1..Len(s) /\ both[i] = s[i]
           \/ i - Len(s) \in 1..Len(t) /\ both[i] = t[i - Len(s)]
  BY <1>2, <1>3, ConcatFacts
<1> HIDE DEF both, t
<1>7. StopFollows(both)
  <2> SUFFICES ASSUME NEW i \in 1..Len(both), both[i].do = "stoppedFor"
               PROVE  (\A h \in 1..i - 1 : both[h].do = "event") /\ ClosesBefore(both, i + 1)
    BY DEF StopFollows
  <2>1. i = 2
    BY <1>2, <1>5, <1>6 DEF NoStopLeft
  <2>2. both[1].do = "event"
    BY <1>2, <1>6
  <2>3. both[4].do = "close" /\ both[3].do \notin Guards
    BY <1>2, <1>6 DEF Guards
  <2>4. 4 \in 3..Len(both) /\ \A h \in 3..4 - 1 : h = 3
    BY <1>6
  <2>5. ClosesBefore(both, 3)
    BY <2>3, <2>4 DEF ClosesBefore
  <2>6. \A h \in 1..2 - 1 : h = 1
    OBVIOUS
  <2>7. QED
    BY <2>1, <2>2, <2>5, <2>6
<1>8. QED
  BY <1>1, <1>3, <1>4, <1>7 DEF ReasonInv, OneReasonToStop, stopVars, both

\* The service thread.
LEMMA ReasonServiceStep ==
  ASSUME RecorderInv, ReasonInv, OneReasonToStop, ServiceStep
  PROVE  ReasonInv' /\ OneReasonToStop'
<1> DEFINE q == todo["svc"]
           t == Tail(q)
<1>0. TodoOK /\ "svc" \in Threads /\ StopFollows(q)
  BY DEF RecorderInv, Threads, ReasonInv
<1>1. SUFFICES ASSUME NEW s \in Seq(Steps), NoGuards(s), Then("svc", s) \/ (Done("svc") /\ s = <<>>),
                      Head(q).do = "event" => s = <<>>
               PROVE  ReasonInv' /\ OneReasonToStop'
  BY NoGuardGoesOn, ReasonGuard
<1>2. \E d : Doing("svc", d)
  BY DEF ServiceStep, WriteEvent, Pause, Resume, Split, Open, InitialPauseState, Restore, Subscribe, Unsubscribe,
         TakeDeferred, RecordFileSplit, Close, Drop, ClearSchedules, Check, StoppedFor
<1>3. q # <<>> /\ q \in Seq(Steps) /\ t \in Seq(Steps) /\ todo'["svc"] = s \o t
  BY <1>0, <1>1, <1>2, QueueAfter
<1>4. StopFollows(todo'["svc"])
  <2>1. CASE Head(q).do = "event"
    <3>1. todo'["svc"] = t
      BY <1>1, <1>3, <2>1
    <3>2. QED
      BY <1>0, <1>3, <3>1, StopTail
  <2>2. CASE Head(q).do # "event"
    BY <1>0, <1>1, <1>3, <2>2, StopTail, StopConcat
  <2>3. QED
    BY <2>1, <2>2
<1>5. CASE StoppedFor
  <2>1. todo'["svc"] = t /\ Head(q).do = "stoppedFor" /\ open' = open
    BY <1>0, <1>5 DEF StoppedFor, Done, TodoOK, Doing, bagVars
  <2>2. ~stopped_for_low_disk /\ ~stopped_for_max_bag_size
    BY <1>0, <1>3, <2>1, StopTail DEF ReasonInv
  <2>3. OneReasonToStop'
    BY <1>5, <2>2 DEF StoppedFor, OneReasonToStop
  <2>4. NoStopLeft(t) /\ ClosesBefore(t, 1)
    BY <1>0, <1>3, <2>1, StopTail
  <2>5. QED
    BY <1>4, <2>1, <2>3, <2>4 DEF ReasonInv
<1>6. CASE Open /\ ~open /\ open'
  <2>1. ~stopped_for_low_disk' /\ ~stopped_for_max_bag_size'
    BY <1>6 DEF Open, bagVars
  <2>2. QED
    BY <1>4, <2>1 DEF ReasonInv, OneReasonToStop
<1>7. CASE UNCHANGED stopVars /\ (open' => open /\ Head(q).do # "close")
  <2>1. OneReasonToStop'
    BY <1>7 DEF OneReasonToStop, stopVars
  <2>2. ASSUME stopped_for_low_disk \/ stopped_for_max_bag_size
        PROVE  NoStopLeft(s \o t) /\ (open' => ClosesBefore(s \o t, 1))
    <3>1. NoStopLeft(q) /\ (open' => ClosesBefore(q, 1) /\ Head(q).do # "close")
      BY <1>7, <2>2 DEF ReasonInv
    <3>2. NoStopLeft(t) /\ (open' => ClosesBefore(t, 1))
      BY <1>0, <1>3, <3>1, StopTail, ClosesTail
    <3>3. QED
      BY <1>1, <1>3, <3>2, StopConcat, ClosesConcat
  <2>3. QED
    BY <1>3, <1>4, <1>7, <2>1, <2>2 DEF ReasonInv, stopVars
<1>8. StoppedFor \/ (Open /\ ~open /\ open') \/ (UNCHANGED stopVars /\ (open' => open /\ Head(q).do # "close"))
  BY DEF ServiceStep, WriteEvent, Pause, Resume, Split, Open, InitialPauseState, Restore, Subscribe, Unsubscribe,
         TakeDeferred, RecordFileSplit, Close, Drop, ClearSchedules, Check, Doing, bagVars, stopVars
<1>9. QED
  BY <1>5, <1>6, <1>7, <1>8

\* Every step keeps it.
LEMMA ReasonStep ==
  RecorderInv /\ ReasonInv /\ OneReasonToStop /\ QueueInv /\ [Next]_vars => ReasonInv' /\ OneReasonToStop'
<1> SUFFICES ASSUME RecorderInv, ReasonInv, OneReasonToStop, QueueInv, [Next]_vars
             PROVE  ReasonInv' /\ OneReasonToStop'
  OBVIOUS
<1>1. CASE Request \/ DeferredTimer \/ \E k \in Kinds : NodeTimer(k)
  <2>1. /\ todo["svc"] = <<>> /\ UNCHANGED <<bagVars, stopVars>>
        /\ \A i \in 1..Len(todo'["svc"]) : todo'["svc"][i].do # "stoppedFor"
    BY <1>1, BeginsWith
  <2>2. open => ~stopped_for_low_disk /\ ~stopped_for_max_bag_size
    BY <2>1 DEF ReasonInv, ClosesBefore
  <2>3. QED
    BY <2>1, <2>2 DEF ReasonInv, StopFollows, NoStopLeft, OneReasonToStop, bagVars, stopVars
<1>2. CASE ServiceStep
  BY <1>2, ReasonServiceStep
<1>3. CASE MessageStep
  <2>1. todo'["svc"] = todo["svc"] /\ UNCHANGED <<open, stopVars>>
    BY <1>3, CallbackQueue DEF MessageStep, WriteEvent, Resume, Split, TakeDueSchedules, Gate, WriteMessage, SeeBusy, Stage, bagVars
  <2>2. QED
    BY <2>1 DEF ReasonInv, OneReasonToStop, stopVars
<1>4. ASSUME NEW topic \in Topics, NEW send \in Stamps, NEW recv \in Stamps, Deliver(topic, send, recv)
      PROVE  ReasonInv' /\ OneReasonToStop'
  <2>1. todo'["svc"] = todo["svc"] /\ UNCHANGED <<open, stopVars>>
    BY <1>4 DEF Deliver, RecorderInv, TodoOK, Threads, bagVars
  <2>2. QED
    BY <2>1 DEF ReasonInv, OneReasonToStop, stopVars
<1>5. CASE UNCHANGED vars
  BY <1>5 DEF vars, ReasonInv, OneReasonToStop, bagVars, stopVars
<1>6. QED
  BY <1>1, <1>2, <1>3, <1>4, <1>5 DEF Next

\* The recorder starts with no reason to stop.
LEMMA ReasonInit == Init => ReasonInv /\ OneReasonToStop
<1> SUFFICES ASSUME Init PROVE ReasonInv /\ OneReasonToStop
  OBVIOUS
<1>1. todo["svc"] = <<Step("open", Now)>> /\ Step("open", Now).do = "open"
  BY DEF Init, Threads, Step
<1>2. QED
  BY <1>1 DEF Init, ReasonInv, StopFollows, OneReasonToStop

\* "If both guards trip on one tick, the first stops the recording and the second
\* finds it stopped" (dynamic_recorder.cpp:94): at most one reason is ever noted,
\* across ticks, records and what the other thread does in between.
THEOREM OneReason == Spec => []OneReasonToStop
<1>1. Init => RecorderInv /\ QueueInv /\ ReasonInv /\ OneReasonToStop
  BY InitInv, QueueInit, ReasonInit
<1>2. /\ RecorderInv /\ QueueInv /\ ReasonInv /\ OneReasonToStop /\ [Next]_vars
      => (RecorderInv /\ QueueInv /\ ReasonInv /\ OneReasonToStop)'
  BY StepKeepsInv, QueueStep, ReasonStep
<1>3. QED
  BY <1>1, <1>2, PTL DEF Spec
-----------------------------------------------------------------------------
(* A bag tells when it was paused.                                         *)

\* One more entry leaves the others as they are.
LEMMA OneMore ==
  ASSUME entries \in Seq({"PAUSED", "RESUMED"}), NEW x \in {"PAUSED", "RESUMED"},
         entries' = Append(entries, x), NEW k, k = Len(entries)
  PROVE  /\ k \in Nat /\ Len(entries') = k + 1
         /\ \A i \in 1..k : entries'[i] = entries[i]
         /\ entries'[k + 1] = x
         /\ \A i \in 1..k : SincePaused(i)' <=> SincePaused(i) /\ x # "RESUMED"
         /\ \A i : i = k + 1 => (SincePaused(i)' <=> x = "PAUSED")
<1>1. /\ k \in Nat /\ Len(entries') = k + 1 /\ entries'[k + 1] = x
      /\ \A i \in 1..k : entries'[i] = entries[i]
  OBVIOUS
<1>2. ASSUME NEW i \in 1..k PROVE SincePaused(i)' <=> SincePaused(i) /\ x # "RESUMED"
  <2>1. \A n \in i..k + 1 : n \in i..k \/ n = k + 1
    BY <1>1
  <2>2. \A n \in i..k : entries'[n] = entries[n] /\ n \in i..k + 1
    BY <1>1
  <2>3. k + 1 \in i..k + 1
    BY <1>1
  <2>4. QED
    BY <1>1, <2>1, <2>2, <2>3 DEF SincePaused
<1>3. ASSUME NEW i, i = k + 1 PROVE SincePaused(i)' <=> x = "PAUSED"
  <2>1. \A n \in k + 1..k + 1 : n = k + 1
    BY <1>1
  <2>2. QED
    BY <1>1, <1>3, <2>1 DEF SincePaused
<1>4. QED
  BY <1>1, <1>2, <1>3

\* An entry that is not what the bag says already keeps the pauses alternating.
LEMMA AlternatesOn ==
  ASSUME entries \in Seq({"PAUSED", "RESUMED"}), NEW x \in {"PAUSED", "RESUMED"},
         entries' = Append(entries, x), PausesAlternate,
         \A i \in 1..Len(entries) : entries[i] = x => \E n \in i..Len(entries) : entries[n] # x
  PROVE  PausesAlternate'
<1> DEFINE k == Len(entries)
<1>1. /\ k \in Nat /\ Len(entries') = k + 1 /\ entries'[k + 1] = x
      /\ \A i \in 1..k : entries'[i] = entries[i]
  BY OneMore
<1> SUFFICES ASSUME NEW i \in 1..k + 1, NEW j \in 1..k + 1,
                    i < j, entries'[j] = entries'[i]
             PROVE  \E n \in i..j : entries'[n] # entries'[i]
  BY <1>1 DEF PausesAlternate
<1>2. i \in 1..k /\ entries'[i] = entries[i]
  BY <1>1
<1>3. CASE j \in 1..k
  <2>1. PICK n \in i..j : entries[n] # entries[i]
    BY <1>1, <1>2, <1>3 DEF PausesAlternate
  <2>2. n \in 1..k
    BY <1>1, <1>2, <1>3
  <2>3. QED
    BY <1>1, <1>2, <2>1, <2>2
<1>4. CASE j = k + 1
  <2>1. PICK n \in i..k : entries[n] # x
    BY <1>1, <1>2, <1>4
  <2>2. n \in 1..k /\ n \in i..j
    BY <1>1, <1>2, <1>4
  <2>3. QED
    BY <1>1, <1>2, <1>4, <2>1, <2>2
<1>5. QED
  BY <1>1, <1>3, <1>4

\* A pause written where none is said begins one.
LEMMA OneMorePause ==
  ASSUME entries \in Seq({"PAUSED", "RESUMED"}), entries' = Append(entries, "PAUSED"), PausesAlternate,
         ~SaysPaused
  PROVE  SaysPaused' /\ PausesAlternate'
<1>0. PICK k : k = Len(entries)
  OBVIOUS
<1>1. /\ k \in Nat /\ Len(entries') = k + 1
      /\ \A i \in 1..k : entries'[i] = entries[i] /\ (SincePaused(i)' <=> SincePaused(i))
      /\ \A i : i = k + 1 => SincePaused(i)'
  BY <1>0, OneMore
<1>2. \A i \in 1..k : ~SincePaused(i)
  BY <1>0 DEF SaysPaused
<1>3. PausesAlternate'
  <2>1. \A i \in 1..k : entries[i] = "PAUSED" => \E n \in i..k : entries[n] = "RESUMED"
    BY <1>0, <1>2 DEF SincePaused
  <2>2. QED
    BY <1>0, <2>1, AlternatesOn
<1>4. k + 1 \in 1..k + 1 /\ \A i \in 1..k + 1 : i \in 1..k \/ i = k + 1
  BY <1>1
<1>5. SaysPaused'
  BY <1>1, <1>4 DEF SaysPaused
<1>6. QED
  BY <1>3, <1>5

\* A resume written where a pause is said ends it.
LEMMA OneMoreResume ==
  ASSUME entries \in Seq({"PAUSED", "RESUMED"}), entries' = Append(entries, "RESUMED"), PausesAlternate,
         SaysPaused
  PROVE  ~SaysPaused' /\ PausesAlternate'
<1>0. PICK k : k = Len(entries)
  OBVIOUS
<1>1. /\ k \in Nat /\ Len(entries') = k + 1
      /\ \A i \in 1..k : ~SincePaused(i)'
      /\ \A i : i = k + 1 => ~SincePaused(i)'
  BY <1>0, OneMore
<1>2. PICK p \in 1..k : entries[p] = "PAUSED" /\ \A n \in p..k : entries[n] # "RESUMED"
  BY <1>0 DEF SaysPaused, SincePaused
<1>3. \A i \in 1..k : entries[i] = "RESUMED" => p \in i..k
  BY <1>1, <1>2
<1>4. PausesAlternate'
  BY <1>0, <1>2, <1>3, AlternatesOn
<1>5. \A i \in 1..k + 1 : i \in 1..k \/ i = k + 1
  BY <1>1
<1>6. ~SaysPaused'
  BY <1>1, <1>5 DEF SaysPaused
<1>7. QED
  BY <1>4, <1>6

\* While one thread pauses: the flag and what the bag says of it differ only
\* until the step that tells of it, which is the next of the service thread.
Pending(do, arg) == Doing("svc", do) /\ Arg("svc") = arg
Tells ==
  Doing("svc", "initialPauseState") \/ Pending("event", "PAUSED") \/ Pending("event", "RESUMED")
EventLeft(q) == \E i \in 1..Len(q) : q[i].do = "event"
PauseFacts ==
  /\ ~EventLeft(todo["msg"])
  /\ Doing("svc", "initialPauseState") => open /\ ~SaysPaused
  /\ Pending("event", "PAUSED") => paused /\ (open => ~SaysPaused)
  /\ Pending("event", "RESUMED") => ~paused /\ (open => SaysPaused)
  /\ open => Tells \/ LastTells
  /\ PausesAlternate
PauseInv == OneThreadPauses => PauseFacts

\* Schedules that acted stay.
LEMMA OneThreadStays == OneThreadPauses' /\ acted \subseteq acted' => OneThreadPauses
BY DEF OneThreadPauses

\* A step that changes neither the flag nor the bag, and after which as before
\* nothing is to be told.
LEMMA SilentStep ==
  ASSUME PauseFacts, ~Tells, ~Tells', UNCHANGED <<entries, paused>>, open' => open,
         todo'["msg"] = todo["msg"]
  PROVE  PauseFacts'
<1>1. /\ SaysPaused' <=> SaysPaused
      /\ PausesAlternate' <=> PausesAlternate
  BY DEF SaysPaused, SincePaused, PausesAlternate
<1>2. LastTells' <=> LastTells
  BY <1>1 DEF LastTells
<1>3. open' => LastTells'
  BY <1>2 DEF PauseFacts
<1>4. ~Doing("svc", "initialPauseState")' /\ ~Pending("event", "PAUSED")' /\ ~Pending("event", "RESUMED")'
  BY DEF Tells
<1>5. QED
  BY <1>1, <1>3, <1>4 DEF PauseFacts

\* A step of the callback that gives the bag no pause event.
LEMMA CallbackSilent ==
  ASSUME PauseFacts, UNCHANGED <<open, entries, paused>>, todo'["svc"] = todo["svc"],
         ~EventLeft(todo'["msg"])
  PROVE  PauseFacts'
<1>1. /\ SaysPaused' <=> SaysPaused
      /\ PausesAlternate' <=> PausesAlternate
      /\ \A d : Doing("svc", d)' <=> Doing("svc", d)
      /\ \A d, a : Pending(d, a)' <=> Pending(d, a)
  BY DEF SaysPaused, SincePaused, PausesAlternate, Doing, Pending, Arg
<1>2. (LastTells' <=> LastTells) /\ (Tells' <=> Tells)
  BY <1>1 DEF LastTells, Tells
<1>3. QED
  BY <1>1, <1>2 DEF PauseFacts

\* What is left of a thread's steps was left before.
LEMMA StillLeft ==
  ASSUME NEW S, NEW q \in Seq(S), q # <<>>
  PROVE  /\ EventLeft(Tail(q)) => EventLeft(q)
         /\ Head(q).do = "event" => EventLeft(q)
<1>1. 1 \in 1..Len(q) /\ Head(q) = q[1]
  BY TailFacts
<1>2. \A i \in 1..Len(Tail(q)) : i + 1 \in 1..Len(q) /\ Tail(q)[i] = q[i + 1]
  BY TailFacts
<1>3. QED
  BY <1>1, <1>2 DEF EventLeft

\* While one thread pauses, a callback keeps it.
LEMMA PauseMessageStep ==
  ASSUME RecorderInv, QueueInv, PauseFacts, OneThreadPauses', MessageStep
  PROVE  PauseFacts'
<1> DEFINE q == todo["msg"]
           t == Tail(q)
<1>0. TodoOK /\ "msg" \in Threads /\ todo'["svc"] = todo["svc"] /\ CallbackInv(q)
      /\ entries \in Seq({"PAUSED", "RESUMED"})
  BY CallbackQueue DEF RecorderInv, QueueInv, Threads, BagOK
<1>1. \E d : Doing("msg", d)
  BY DEF MessageStep, WriteEvent, Resume, Split, TakeDueSchedules, Gate, WriteMessage, SeeBusy, Stage
<1>2. q # <<>> /\ q \in Seq(Steps)
  BY <1>0, <1>1, HeadFacts
<1>3. ~EventLeft(q) /\ ~EventLeft(t)
  BY <1>2, StillLeft DEF PauseFacts
<1>4. Done("msg") => todo'["msg"] = t
  BY <1>0 DEF Done, TodoOK
<1>5. CASE Split("msg")
  BY <1>0, <1>3, <1>4, <1>5, CallbackSilent DEF Split, bagVars, pauseVars
<1>6. ~WriteEvent("msg")
  BY <1>2, <1>3, StillLeft DEF WriteEvent, Doing
<1>7. ~Resume("msg")
  <2> SUFFICES ASSUME Resume("msg") PROVE FALSE
    OBVIOUS
  <2>1. Head(q) = q[1] /\ Head(q).do = "resume" /\ 1 \in 1..Len(q)
    BY <1>2, TailFacts DEF Resume, Doing
  <2>2. Arg("msg").mode \in {"publish", "receive"}
    BY <1>0, <2>1 DEF CallbackInv, MessageTimed, Arg
  <2> DEFINE r == [kind |-> "resume", mode |-> Arg("msg").mode, for |-> Arg("msg").bag, in |-> bag, open |-> open]
  <2>3. r \in acted'
    BY <2>2 DEF Resume, Acts
  <2>4. r.kind = "resume" /\ r.mode # "node"
    BY <2>2
  <2> HIDE DEF r
  <2>5. QED
    BY <2>3, <2>4 DEF OneThreadPauses
<1>8. CASE TakeDueSchedules
  <2>1. PICK s \in Seq(Steps) : Then("msg", s) /\ DueSteps(s)
    BY <1>8, TakesDue
  <2>2. todo'["msg"] = s \o t /\ t \in Seq(Steps)
    BY <1>0, <1>1, <2>1, QueueAfter
  <2> HIDE DEF t
  <2>3. \A i \in 1..Len(s \o t) :
          \/ (s \o t)[i].do \in {"resume", "split"}
          \/ i - Len(s) \in 1..Len(t) /\ (s \o t)[i] = t[i - Len(s)]
    BY <2>1, <2>2, ConcatFacts DEF DueSteps
  <2>4. ~EventLeft(s \o t)
    BY <1>3, <2>3 DEF EventLeft
  <2>5. UNCHANGED <<open, entries, paused>>
    BY <1>8 DEF TakeDueSchedules, bagVars, pauseVars
  <2>6. QED
    BY <1>0, <1>3, <2>2, <2>4, <2>5, CallbackSilent
<1>9. CASE Gate \/ WriteMessage \/ SeeBusy \/ Stage
  <2>1. UNCHANGED <<open, entries, paused>>
    BY <1>9 DEF Gate, WriteMessage, SeeBusy, Stage, bagVars, pauseVars
  <2>2. CASE Done("msg")
    BY <1>0, <1>3, <1>4, <2>1, <2>2, CallbackSilent
  <2>3. ASSUME NEW w \in LastSteps, Then("msg", <<Step(w, Now)>>) PROVE PauseFacts'
    <3> DEFINE r == Step(w, Now)
    <3>1. r \in Steps /\ r.do = w /\ Then("msg", <<r>>)
      BY <2>3, StepFacts DEF Verbs, LastSteps
    <3> HIDE DEF r
    <3>2. <<r>> \in Seq(Steps)
      BY <3>1
    <3>3. todo'["msg"] = <<r>> \o t
      BY <1>0, <1>1, <3>1, <3>2, QueueAfter
    <3>4. t = <<>>
      BY <1>0, <1>1, <1>2, <1>9, CallbackFacts DEF Gate, WriteMessage, SeeBusy, Stage, Doing, LastSteps
    <3>5. <<r>> \o <<>> = <<r>>
      BY <3>2
    <3>6. ~EventLeft(<<r>>)
      BY <3>1 DEF EventLeft, LastSteps
    <3>7. QED
      BY <1>0, <2>1, <3>3, <3>4, <3>5, <3>6, CallbackSilent
  <2>4. QED
    BY <1>9, <2>2, <2>3 DEF Gate, WriteMessage, SeeBusy, Stage, LastSteps
<1>10. QED
  BY <1>5, <1>6, <1>7, <1>8, <1>9 DEF MessageStep

\* Quiet steps tell of nothing.
LEMMA QuietTells ==
  ASSUME todo'["svc"] \in Seq(Steps), AllQuiet(todo'["svc"])
  PROVE  ~Tells'
<1> DEFINE q == todo'["svc"]
<1>1. q # <<>> => Quiet(Head(q))
  BY DEF AllQuiet
<1>2. QED
  BY <1>1 DEF Tells, Pending, Doing, Arg, Quiet

\* The step a thread goes on with is the next.
LEMMA GoesOnWith ==
  ASSUME TodoOK, NEW d, Doing("svc", d), NEW r \in Steps, Then("svc", <<r>>)
  PROVE  todo'["svc"] # <<>> /\ Head(todo'["svc"]) = r
<1>1. <<r>> \in Seq(Steps) /\ <<r>> # <<>> /\ Head(<<r>>) = r
  OBVIOUS
<1>2. Tail(todo["svc"]) \in Seq(Steps) /\ todo'["svc"] = <<r>> \o Tail(todo["svc"])
  BY <1>1, QueueAfter DEF Threads
<1>3. QED
  BY <1>1, <1>2

\* After which of its steps the service thread has something to tell.
LEMMA ServiceTells ==
  ASSUME RecorderInv, QueueInv, ServiceStep
  PROVE  \/ ~Tells'
         \/ Open /\ ~open /\ Doing("svc", "initialPauseState")' /\ open' /\ entries' = <<>>
         \/ Pause("svc") /\ ~paused /\ Pending("event", "PAUSED")'
         \/ Resume("svc") /\ paused /\ Pending("event", "RESUMED")'
         \/ InitialPauseState /\ paused /\ Pending("event", "PAUSED")'
<1> DEFINE q == todo["svc"]
           t == Tail(q)
<1>0. TodoOK /\ "svc" \in Threads
  BY DEF RecorderInv, Threads
<1>1. PICK d \in Verbs : Doing("svc", d)
  BY DEF ServiceStep, WriteEvent, Pause, Resume, Split, Open, InitialPauseState, Restore, Subscribe, Unsubscribe,
         TakeDeferred, RecordFileSplit, Close, Drop, ClearSchedules, Check, StoppedFor, Verbs
<1>2. q # <<>> /\ q \in Seq(Steps)
  BY <1>0, <1>1, HeadFacts
<1>3. t \in Seq(Steps) /\ AllQuiet(t)
  BY <1>2, QuietTail DEF QueueInv
<1>4. ASSUME NEW s \in Seq(Steps), AllQuiet(s), Then("svc", s) \/ (Done("svc") /\ s = <<>>)
      PROVE  ~Tells'
  <2>1. todo'["svc"] = s \o t
    BY <1>0, <1>1, <1>4, QueueAfter
  <2>2. s \o t \in Seq(Steps) /\ AllQuiet(s \o t)
    BY <1>3, <1>4, QuietConcat, ConcatFacts
  <2>3. QED
    BY <2>1, <2>2, QuietTells
<1>5. CASE Done("svc")
  <2>1. <<>> \in Seq(Steps) /\ AllQuiet(<<>>)
    BY DEF AllQuiet
  <2>2. QED
    BY <1>4, <1>5, <2>1
<1>6. ASSUME NEW e \in {"PAUSED", "RESUMED"}, Then("svc", <<Step("event", e)>>)
      PROVE  Pending("event", e)'
  <2>1. Step("event", e) \in Steps /\ Step("event", e).do = "event" /\ Step("event", e).arg = e
    BY StepFacts DEF Verbs, Args
  <2>2. todo'["svc"] # <<>> /\ Head(todo'["svc"]) = Step("event", e)
    BY <1>0, <1>1, <1>6, <2>1, GoesOnWith
  <2>3. QED
    BY <2>1, <2>2 DEF Pending, Doing, Arg
<1>7. CASE Pause("svc")
  BY <1>5, <1>6, <1>7 DEF Pause
<1>8. CASE Resume("svc")
  BY <1>5, <1>6, <1>8 DEF Resume
<1>9. CASE InitialPauseState
  BY <1>5, <1>6, <1>9 DEF InitialPauseState
<1>10. CASE Open
  <2>1. CASE Done("svc")
    BY <1>5, <2>1
  <2>2. CASE ~Done("svc")
    <3> DEFINE s == <<Step("initialPauseState", Now), Step("restore", Now)>>
    <3>1. s \in Seq(Steps) /\ Head(s).do = "initialPauseState"
      BY TellingGoesOn, StepFacts DEF Verbs
    <3>2. s # <<>>
      OBVIOUS
    <3>3. Then("svc", s) /\ ~open /\ open' /\ entries' = <<>>
      BY <1>10, <2>2 DEF Open
    <3> HIDE DEF s
    <3>4. todo'["svc"] = s \o t
      BY <1>0, <1>1, <3>1, <3>3, QueueAfter
    <3>5. s \o t # <<>> /\ Head(s \o t) = Head(s)
      BY <1>3, <3>1, <3>2, QuietConcat
    <3>6. QED
      BY <1>10, <3>1, <3>3, <3>4, <3>5 DEF Doing
  <2>3. QED
    BY <2>1, <2>2
<1>11. CASE Check("check_free_space") \/ Check("check_bag_size")
  <2>1. PICK guard \in {"check_free_space", "check_bag_size"} : Check(guard)
    BY <1>11
  <2> DEFINE s == <<Step("event", "other"), Step("stoppedFor", guard)>> \o Stopping
  <2>2. s \in Seq(Steps) /\ AllQuiet(s)
    BY TellingGoesOn
  <2>3. Done("svc") \/ Then("svc", s)
    BY <2>1 DEF Check
  <2> HIDE DEF s
  <2>4. QED
    BY <1>4, <1>5, <2>2, <2>3
<1>12. CASE Restore \/ Subscribe \/ Unsubscribe \/ TakeDeferred
  <2>1. PICK e \in Verbs \ (Telling \cup {"check_free_space", "check_bag_size"}) : Doing("svc", e)
    BY <1>12 DEF Restore, Subscribe, Unsubscribe, TakeDeferred, Verbs, Telling
  <2>2. QED
    BY <1>4, <2>1, QuietGoesOn
<1>13. QED
  BY <1>5, <1>7, <1>8, <1>9, <1>10, <1>11, <1>12 DEF ServiceStep, WriteEvent, Split, RecordFileSplit, Close, Drop,
     ClearSchedules, StoppedFor

\* A bag opened has nothing in it, and is about to tell.
LEMMA OpenTells ==
  ASSUME PauseFacts, Open, Doing("svc", "initialPauseState")', open', entries' = <<>>, todo'["msg"] = todo["msg"]
  PROVE  PauseFacts'
<1>1. ~SaysPaused' /\ PausesAlternate'
  BY DEF SaysPaused, PausesAlternate
<1>2. ~Pending("event", "PAUSED")' /\ ~Pending("event", "RESUMED")' /\ Tells'
  BY DEF Pending, Doing, Tells
<1>3. QED
  BY <1>1, <1>2 DEF PauseFacts

\* A change of the flag, or the start of a bag, is told next.
LEMMA FlagTells ==
  ASSUME PauseFacts, UNCHANGED <<open, entries>>, todo'["msg"] = todo["msg"], paused \in BOOLEAN,
         ~Pending("event", "PAUSED"), ~Pending("event", "RESUMED"),
         \/ ~Doing("svc", "initialPauseState") /\ ~paused /\ paused' /\ Pending("event", "PAUSED")'
         \/ ~Doing("svc", "initialPauseState") /\ paused /\ ~paused' /\ Pending("event", "RESUMED")'
         \/ Doing("svc", "initialPauseState") /\ paused /\ paused' /\ Pending("event", "PAUSED")'
  PROVE  PauseFacts'
<1>1. /\ SaysPaused' <=> SaysPaused
      /\ PausesAlternate' <=> PausesAlternate
  BY DEF SaysPaused, SincePaused, PausesAlternate
<1>2. Tells' /\ ~Doing("svc", "initialPauseState")' /\ ~(Pending("event", "PAUSED")' /\ Pending("event", "RESUMED")')
  BY DEF Pending, Doing, Tells
<1>3. PausesAlternate
  BY DEF PauseFacts
<1>4. open => IF Doing("svc", "initialPauseState") THEN ~SaysPaused ELSE paused <=> SaysPaused
  BY DEF PauseFacts, Tells, LastTells
<1>5. QED
  BY <1>1, <1>2, <1>3, <1>4 DEF PauseFacts

\* The event itself, in an open bag.
LEMMA EventTells ==
  ASSUME PauseFacts, open, UNCHANGED <<open, paused>>, todo'["msg"] = todo["msg"], ~Tells',
         entries \in Seq({"PAUSED", "RESUMED"}),
         \E e \in {"PAUSED", "RESUMED"} : Pending("event", e) /\ entries' = Append(entries, e)
  PROVE  PauseFacts'
<1>1. PausesAlternate
  BY DEF PauseFacts
<1>2. ~Doing("svc", "initialPauseState")' /\ ~Pending("event", "PAUSED")' /\ ~Pending("event", "RESUMED")'
  BY DEF Tells
<1>3. CASE Pending("event", "PAUSED") /\ entries' = Append(entries, "PAUSED")
  <2>1. paused /\ ~SaysPaused
    BY <1>3 DEF PauseFacts
  <2>2. SaysPaused' /\ PausesAlternate'
    BY <1>1, <1>3, <2>1, OneMorePause
  <2>3. QED
    BY <1>2, <2>1, <2>2 DEF PauseFacts, LastTells
<1>4. CASE Pending("event", "RESUMED") /\ entries' = Append(entries, "RESUMED")
  <2>1. ~paused /\ SaysPaused
    BY <1>4 DEF PauseFacts
  <2>2. ~SaysPaused' /\ PausesAlternate'
    BY <1>1, <1>4, <2>1, OneMoreResume
  <2>3. QED
    BY <1>2, <2>1, <2>2 DEF PauseFacts, LastTells
<1>5. QED
  BY <1>3, <1>4

\* A step after which the bag is closed, and nothing is to be told.
LEMMA ClosedStep ==
  ASSUME PauseFacts, ~open, ~open', ~Tells', entries' = entries, todo'["msg"] = todo["msg"]
  PROVE  PauseFacts'
<1>1. PausesAlternate' <=> PausesAlternate
  BY DEF PausesAlternate
<1>2. ~Doing("svc", "initialPauseState")' /\ ~Pending("event", "PAUSED")' /\ ~Pending("event", "RESUMED")'
  BY DEF Tells
<1>3. QED
  BY <1>1, <1>2 DEF PauseFacts

\* While one thread pauses, the service thread keeps it.
LEMMA PauseServiceStep ==
  ASSUME RecorderInv, QueueInv, PauseFacts, ServiceStep
  PROVE  PauseFacts'
<1>0. /\ TodoOK /\ "svc" \in Threads /\ todo'["msg"] = todo["msg"] /\ paused \in BOOLEAN
      /\ entries \in Seq({"PAUSED", "RESUMED"})
  BY ServiceQueue DEF RecorderInv, Threads, BagOK, ControlOK
<1>1. ASSUME NEW d, Doing("svc", d), d \notin {"event", "initialPauseState"} PROVE ~Tells
  BY <1>1 DEF Tells, Pending, Doing
<1>2. CASE Open /\ ~open /\ Doing("svc", "initialPauseState")' /\ open' /\ entries' = <<>>
  BY <1>0, <1>2, OpenTells
<1>3. CASE \/ Pause("svc") /\ ~paused /\ Pending("event", "PAUSED")'
           \/ Resume("svc") /\ paused /\ Pending("event", "RESUMED")'
           \/ InitialPauseState /\ paused /\ Pending("event", "PAUSED")'
  <2>1. /\ UNCHANGED <<open, entries>> /\ ~Pending("event", "PAUSED") /\ ~Pending("event", "RESUMED")
        /\ \/ ~Doing("svc", "initialPauseState") /\ ~paused /\ paused' /\ Pending("event", "PAUSED")'
           \/ ~Doing("svc", "initialPauseState") /\ paused /\ ~paused' /\ Pending("event", "RESUMED")'
           \/ Doing("svc", "initialPauseState") /\ paused /\ paused' /\ Pending("event", "PAUSED")'
    BY <1>3 DEF Pause, Resume, InitialPauseState, Pending, Doing, bagVars, pauseVars
  <2>2. QED
    BY <1>0, <2>1, FlagTells
<1>4. CASE ~Tells'
  <2>1. CASE WriteEvent("svc")
    <3>1. Doing("svc", "event") /\ UNCHANGED <<open, paused>>
          /\ entries' = IF open /\ Arg("svc") \in {"PAUSED", "RESUMED"} THEN Append(entries, Arg("svc")) ELSE entries
      BY <2>1 DEF WriteEvent, pauseVars
    <3>2. CASE ~open
      BY <1>0, <1>4, <3>1, <3>2, ClosedStep
    <3>3. CASE open /\ Arg("svc") \in {"PAUSED", "RESUMED"}
      BY <1>0, <1>4, <3>1, <3>3, EventTells DEF Pending
    <3>4. CASE Arg("svc") \notin {"PAUSED", "RESUMED"}
      <4>1. ~Tells
        BY <3>1, <3>4 DEF Tells, Pending, Doing
      <4>2. QED
        BY <1>0, <1>4, <3>1, <3>4, <4>1, SilentStep
    <3>5. QED
      BY <3>2, <3>3, <3>4
  <2>2. CASE InitialPauseState
    <3>1. Done("svc") \/ Then("svc", <<Step("event", "PAUSED")>>)
      BY <2>2 DEF InitialPauseState
    <3>2. Doing("svc", "initialPauseState") /\ UNCHANGED <<open, entries, paused>>
      BY <2>2 DEF InitialPauseState, bagVars, pauseVars
    <3>3. ~paused
      <4> SUFFICES ASSUME paused PROVE FALSE
        OBVIOUS
      <4>1. Then("svc", <<Step("event", "PAUSED")>>)
        BY <2>2 DEF InitialPauseState
      <4>2. Step("event", "PAUSED") \in Steps /\ Step("event", "PAUSED").do = "event"
            /\ Step("event", "PAUSED").arg = "PAUSED"
        BY StepFacts DEF Verbs, Args
      <4>3. todo'["svc"] # <<>> /\ Head(todo'["svc"]) = Step("event", "PAUSED")
        BY <1>0, <3>2, <4>1, <4>2, GoesOnWith
      <4>4. QED
        BY <1>4, <4>2, <4>3 DEF Tells, Pending, Doing, Arg
    <3>4. /\ SaysPaused' <=> SaysPaused
          /\ PausesAlternate' <=> PausesAlternate
      BY <3>2 DEF SaysPaused, SincePaused, PausesAlternate
    <3>5. ~SaysPaused /\ PausesAlternate
      BY <3>2 DEF PauseFacts, Pending, Doing
    <3>6. ~Doing("svc", "initialPauseState")' /\ ~Pending("event", "PAUSED")' /\ ~Pending("event", "RESUMED")'
      BY <1>4 DEF Tells
    <3>7. ~EventLeft(todo'["msg"])
      BY <1>0 DEF PauseFacts
    <3>8. QED
      BY <3>2, <3>3, <3>4, <3>5, <3>6, <3>7 DEF PauseFacts, LastTells
  <2>3. CASE Open
    <3>1. CASE Done("svc") /\ UNCHANGED bagVars
      <4>1. ~Tells
        BY <1>1, <2>3 DEF Open
      <4>2. QED
        BY <1>0, <1>4, <2>3, <3>1, <4>1, SilentStep DEF Open, bagVars, pauseVars
    <3>2. CASE ~open /\ open' /\ entries' = <<>> /\ paused' = paused
      <4>2. Then("svc", <<Step("initialPauseState", Now), Step("restore", Now)>>)
        BY <2>3, <3>2 DEF Open, bagVars, pauseVars
      <4> DEFINE s == <<Step("initialPauseState", Now), Step("restore", Now)>>
      <4>3. s \in Seq(Steps) /\ Head(s).do = "initialPauseState" /\ s # <<>>
        BY TellingGoesOn, StepFacts DEF Verbs
      <4>4. Doing("svc", "open") /\ Then("svc", s)
        BY <2>3, <4>2 DEF Open
      <4> HIDE DEF s
      <4>5. todo["svc"] # <<>> /\ todo["svc"] \in Seq(Steps) /\ todo'["svc"] = s \o Tail(todo["svc"])
        BY <1>0, <4>3, <4>4, QueueAfter
      <4>6. Tail(todo["svc"]) \in Seq(Steps) /\ AllQuiet(Tail(todo["svc"]))
        BY <4>5, QuietTail DEF QueueInv
      <4>7. Doing("svc", "initialPauseState")'
        BY <4>3, <4>5, <4>6, QuietConcat DEF Doing
      <4>8. QED
        BY <1>4, <4>7 DEF Tells
    <3>3. QED
      BY <2>3, <3>1, <3>2 DEF Open, pauseVars
  <2>4. CASE Pause("svc") \/ Resume("svc")
    <3>1. PICK d \in {"pause", "resume"} : Doing("svc", d) /\ UNCHANGED <<open, entries>>
      BY <2>4 DEF Pause, Resume, bagVars, pauseVars
    <3>2. ~Tells
      BY <1>1, <3>1
    <3>3. paused' = paused
      <4> SUFFICES ASSUME paused' # paused PROVE FALSE
        OBVIOUS
      <4>1. PICK e \in {"PAUSED", "RESUMED"} : Then("svc", <<Step("event", e)>>)
        BY <1>0, <2>4 DEF Pause, Resume
      <4>2. Step("event", e) \in Steps /\ Step("event", e).do = "event" /\ Step("event", e).arg = e
        BY StepFacts DEF Verbs, Args
      <4>3. todo'["svc"] # <<>> /\ Head(todo'["svc"]) = Step("event", e)
        BY <1>0, <3>1, <4>1, <4>2, GoesOnWith
      <4>4. QED
        BY <1>4, <4>2, <4>3 DEF Tells, Pending, Doing, Arg
    <3>4. QED
      BY <1>0, <1>4, <3>1, <3>2, <3>3, SilentStep
  <2>5. CASE ~(WriteEvent("svc") \/ InitialPauseState \/ Open \/ Pause("svc") \/ Resume("svc"))
    <3>1. ~Tells
      BY <1>1, <2>5 DEF ServiceStep, Split, Restore, Subscribe, Unsubscribe, TakeDeferred, RecordFileSplit, Close, Drop,
         ClearSchedules, Check, StoppedFor
    <3>2. UNCHANGED <<entries, paused>> /\ (open' => open)
      BY <2>5 DEF ServiceStep, Split, Restore, Subscribe, Unsubscribe, TakeDeferred, RecordFileSplit, Close, Drop,
         ClearSchedules, Check, StoppedFor, bagVars, pauseVars
    <3>3. QED
      BY <1>0, <1>4, <3>1, <3>2, SilentStep
  <2>6. QED
    BY <2>1, <2>2, <2>3, <2>4, <2>5
<1>5. QED
  BY <1>2, <1>3, <1>4, ServiceTells

\* Every step keeps it.
LEMMA PauseHistoryStep == RecorderInv /\ QueueInv /\ PauseInv /\ [Next]_vars => PauseInv'
<1> SUFFICES ASSUME RecorderInv, QueueInv, PauseInv, [Next]_vars, OneThreadPauses' PROVE PauseFacts'
  BY DEF PauseInv
<1>0. acted \subseteq acted'
  BY BeginsWith DEF Next, ServiceStep, WriteEvent, Pause, Resume, Split, Open, InitialPauseState, Restore, Subscribe,
     Unsubscribe, TakeDeferred, RecordFileSplit, Close, Drop, ClearSchedules, Check, StoppedFor, MessageStep,
     TakeDueSchedules, Gate, WriteMessage, SeeBusy, Stage, Deliver, Acts, vars
<1>1. PauseFacts
  BY <1>0, OneThreadStays DEF PauseInv
<1>2. CASE Request \/ DeferredTimer \/ \E k \in Kinds : NodeTimer(k)
  <2>1. /\ todo["svc"] = <<>> /\ todo'["msg"] = todo["msg"] /\ UNCHANGED <<open, entries, paused>>
        /\ todo'["svc"] # <<>> => Head(todo'["svc"]).do \notin {"event", "initialPauseState"}
    BY <1>2, BeginsWith DEF bagVars, pauseVars
  <2>2. ~Tells /\ ~Tells'
    BY <2>1 DEF Tells, Pending, Doing
  <2>3. QED
    BY <1>1, <2>1, <2>2, SilentStep
<1>3. CASE ServiceStep
  BY <1>1, <1>3, PauseServiceStep
<1>4. CASE MessageStep
  BY <1>1, <1>4, PauseMessageStep
<1>5. ASSUME NEW topic \in Topics, NEW send \in Stamps, NEW recv \in Stamps, Deliver(topic, send, recv)
      PROVE  PauseFacts'
  <2> DEFINE a == Step("takeDue", <<topic, send, recv>>)
             b == Step("gate", Now)
  <2>1. todo'["svc"] = todo["svc"] /\ todo'["msg"] = <<a, b>> /\ UNCHANGED <<open, entries, paused>>
    BY <1>5 DEF Deliver, RecorderInv, TodoOK, Threads, bagVars, pauseVars
  <2>2. a.do = "takeDue" /\ b.do = "gate"
    BY DEF Step
  <2> HIDE DEF a, b
  <2>3. ~EventLeft(<<a, b>>)
    BY <2>2 DEF EventLeft
  <2>4. QED
    BY <1>1, <2>1, <2>3, CallbackSilent
<1>6. CASE UNCHANGED vars
  <2>1. UNCHANGED <<open, entries, paused, todo>>
    BY <1>6 DEF vars, bagVars, pauseVars
  <2>2. ~EventLeft(todo'["msg"])
    BY <1>1, <2>1 DEF PauseFacts
  <2>3. QED
    BY <1>1, <2>1, <2>2, CallbackSilent
<1>7. QED
  BY <1>2, <1>3, <1>4, <1>5, <1>6 DEF Next

\* The recorder starts with an empty bag.
LEMMA PauseHistoryInit == Init => PauseInv
<1> SUFFICES ASSUME Init PROVE PauseFacts
  BY DEF PauseInv
<1>1. todo["svc"] = <<Step("open", Now)>> /\ todo["msg"] = <<>> /\ Step("open", Now).do = "open"
  BY DEF Init, Threads, Step
<1>2. ~open /\ entries = <<>>
  BY DEF Init
<1>3. PausesAlternate
  BY <1>2 DEF PausesAlternate
<1>4. ~Tells /\ ~EventLeft(todo["msg"])
  BY <1>1 DEF Tells, Pending, Doing, EventLeft
<1>5. QED
  BY <1>2, <1>3, <1>4 DEF PauseFacts, Tells

\* So it always holds.
LEMMA PauseHistory == Spec => [](RecorderInv /\ QueueInv /\ PauseInv)
<1>1. Init => RecorderInv /\ QueueInv /\ PauseInv
  BY InitInv, QueueInit, PauseHistoryInit
<1>2. RecorderInv /\ QueueInv /\ PauseInv /\ [Next]_vars => (RecorderInv /\ QueueInv /\ PauseInv)'
  BY StepKeepsInv, QueueStep, PauseHistoryStep
<1>3. QED
  BY <1>1, <1>2, PTL DEF Spec

\* While the message thread resumes nothing, a bag's pause events alternate, and
\* once every change is told they say whether it is paused (PauseEvent.msg,
\* recorder_events.cpp), a bag opened while paused included.
THEOREM PausesTold == Spec => []PauseEventsTellTheState
<1>1. RecorderInv /\ PauseInv => PauseEventsTellTheState
  <2> SUFFICES ASSUME RecorderInv, PauseFacts PROVE PausesAlternate /\ (open /\ Told => LastTells)
    BY DEF PauseEventsTellTheState, PauseInv
  <2>1. ASSUME open, Told PROVE LastTells
    <3>1. todo["svc"] \in Seq(Steps) /\ "svc" \in Threads
      BY DEF RecorderInv, TodoOK, Threads
    <3>2. todo["svc"] # <<>> => 1 \in 1..Len(todo["svc"]) /\ Head(todo["svc"]) = todo["svc"][1]
      BY <3>1, TailFacts
    <3>3. ~Tells
      BY <2>1, <3>1, <3>2 DEF Told, Tells, Pending, Doing, Arg
    <3>4. QED
      BY <2>1, <3>3 DEF PauseFacts
  <2>2. QED
    BY <2>1 DEF PauseFacts
<1>2. QED
  BY <1>1, PauseHistory, PTL

-----------------------------------------------------------------------------
(* What is written while paused came before the pause.                     *)

\* The messages that can still be, or already are, in the bag: none is of a
\* callback to come.
Around == written \cup Messages(staged) \cup OnItsWay
HoldInv == PauseHoldsBack /\ \A m \in Around : m <= messages

\* What is on its way there is the message of the callback there is.
Leads(q) == \E i \in 1..Len(q) : q[i].do \in {"write", "stage"}
LEMMA OnItsWayIs ==
  /\ OnItsWay = IF Leads(todo["msg"]) THEN {messages} ELSE {}
  /\ OnItsWay' = IF Leads(todo'["msg"]) THEN {messages'} ELSE {}
<1>1. /\ Left("msg") \cap {"write", "stage"} # {} <=> Leads(todo["msg"])
      /\ (Left("msg") \cap {"write", "stage"} # {})' <=> Leads(todo'["msg"])
  BY DEF Left, Leads
<1>2. QED
  BY <1>1 DEF OnItsWay

\* A step by which nothing comes nearer to the bag.
LEMMA NothingNearer ==
  ASSUME HoldInv, Around' \subseteq Around, UNCHANGED <<pausedAfter, messages>>, paused' => paused
  PROVE  HoldInv'
BY DEF HoldInv, PauseHoldsBack, Around

\* An operation of the bag brings nothing nearer.
LEMMA OperationKeeps ==
  ASSUME NEW n, Operation(n)
  PROVE  written' \cup Messages(staged') \subseteq written \cup Messages(staged)
<1>1. Messages(<<>>) = {}
  BY DEF Messages
<1>2. QED
  BY <1>1 DEF Operation, Flush

\* What staging adds.
LEMMA AppendedMessages ==
  ASSUME NEW S, NEW s \in Seq(S), NEW m \in S
  PROVE  Messages(<<>>) = {} /\ Messages(Append(s, m)) = Messages(s) \cup {m}
<1> DEFINE a == Append(s, m)
<1>1. /\ Len(s) \in Nat /\ Len(a) = Len(s) + 1 /\ a[Len(s) + 1] = m
      /\ \A i \in 1..Len(s) : a[i] = s[i]
  OBVIOUS
<1> HIDE DEF a
<1>2. Len(s) + 1 \in 1..Len(a) /\ \A i \in 1..Len(a) : i \in 1..Len(s) \/ i = Len(s) + 1
  BY <1>1
<1>3. \A i \in 1..Len(s) : i \in 1..Len(a)
  BY <1>1
<1>4. Messages(a) = Messages(s) \cup {m}
  BY <1>1, <1>2, <1>3 DEF Messages
<1>5. QED
  BY <1>4 DEF Messages, a

\* What is left after the first step of a callback was left before.
LEMMA StillLeads ==
  ASSUME NEW S, NEW q \in Seq(S), q # <<>>
  PROVE  /\ Leads(Tail(q)) => Leads(q)
         /\ Head(q).do \in {"write", "stage"} => Leads(q)
<1>1. 1 \in 1..Len(q) /\ Head(q) = q[1]
  BY TailFacts
<1>2. \A i \in 1..Len(Tail(q)) : i + 1 \in 1..Len(q) /\ Tail(q)[i] = q[i + 1]
  BY TailFacts
<1>3. QED
  BY <1>1, <1>2 DEF Leads

\* A callback's steps: what is due first, then the gate, which lets nothing
\* nearer while paused.
LEMMA HoldMessageStep ==
  ASSUME RecorderInv, Counted, HoldInv, MessageStep
  PROVE  HoldInv'
<1> DEFINE q == todo["msg"]
           t == Tail(q)
<1>0. TodoOK /\ "msg" \in Threads
  BY DEF RecorderInv, Threads
<1>1. \E d : Doing("msg", d)
  BY DEF MessageStep, WriteEvent, Resume, Split, TakeDueSchedules, Gate, WriteMessage, SeeBusy, Stage
<1>2. q # <<>> /\ q \in Seq(Steps)
  BY <1>0, <1>1, HeadFacts
<1>3. (Leads(t) => Leads(q)) /\ (Head(q).do \in {"write", "stage"} => Leads(q))
  BY <1>2, StillLeads
<1>4. Done("msg") => todo'["msg"] = t
  BY <1>0 DEF Done, TodoOK
<1>5. messages' = messages /\ messages \in Nat
  BY RecorderAssumption DEF MessageStep, WriteEvent, Resume, Split, TakeDueSchedules, Gate, WriteMessage, SeeBusy, Stage,
     boundVars, Counted, Numbers, RecorderAssumption
<1>6. ASSUME Leads(todo'["msg"]) => Leads(q) PROVE OnItsWay' \subseteq OnItsWay
  BY <1>5, <1>6, OnItsWayIs
<1>7. CASE WriteEvent("msg") \/ Split("msg")
  <2>1. written' \cup Messages(staged') \subseteq written \cup Messages(staged)
    BY <1>7, OperationKeeps DEF WriteEvent, Split
  <2>2. Done("msg") /\ UNCHANGED <<paused, pausedAfter>>
    BY <1>7 DEF WriteEvent, Split, pauseVars
  <2>3. OnItsWay' \subseteq OnItsWay
    BY <1>3, <1>4, <1>6, <2>2
  <2>4. QED
    BY <1>5, <2>1, <2>2, <2>3, NothingNearer DEF Around
<1>8. CASE Resume("msg")
  <2>1. ~paused' /\ UNCHANGED <<written, staged>>
    BY <1>8 DEF Resume, bagVars
  <2>2. \A m \in OnItsWay' : m <= messages'
    BY <1>5 DEF OnItsWay
  <2>3. QED
    BY <1>5, <2>1, <2>2 DEF HoldInv, PauseHoldsBack, Around
<1>9. CASE TakeDueSchedules
  <2>1. PICK s \in Seq(Steps) : Then("msg", s) /\ DueSteps(s)
    BY <1>9, TakesDue
  <2>2. todo'["msg"] = s \o t /\ t \in Seq(Steps)
    BY <1>0, <1>1, <2>1, QueueAfter
  <2>3. UNCHANGED <<written, staged, paused, pausedAfter>>
    BY <1>9 DEF TakeDueSchedules, bagVars, pauseVars
  <2> HIDE DEF t
  <2>4. \A i \in 1..Len(s \o t) :
          \/ (s \o t)[i].do \in {"resume", "split"}
          \/ i - Len(s) \in 1..Len(t) /\ (s \o t)[i] = t[i - Len(s)]
    BY <2>1, <2>2, ConcatFacts DEF DueSteps
  <2>5. Leads(s \o t) => Leads(t)
    BY <2>4 DEF Leads
  <2>6. OnItsWay' \subseteq OnItsWay
    BY <1>3, <1>6, <2>2, <2>5
  <2>7. QED
    BY <1>5, <2>3, <2>6, NothingNearer DEF Around
<1>10. CASE Gate
  <2>1. UNCHANGED <<written, staged, paused, pausedAfter>>
    BY <1>10 DEF Gate, bagVars, pauseVars
  <2>2. CASE paused
    <3>1. OnItsWay' \subseteq OnItsWay
      BY <1>3, <1>4, <1>6, <1>10, <2>2 DEF Gate
    <3>2. QED
      BY <1>5, <2>1, <3>1, NothingNearer DEF Around
  <2>3. CASE ~paused
    <3>1. \A m \in OnItsWay' : m <= messages'
      BY <1>5 DEF OnItsWay
    <3>2. QED
      BY <1>5, <2>1, <2>3, <3>1 DEF HoldInv, PauseHoldsBack, Around
  <2>4. QED
    BY <2>2, <2>3
<1>11. CASE WriteMessage \/ SeeBusy \/ Stage
  <2>1. Leads(q) /\ OnItsWay = {messages}
    BY <1>3, <1>11, OnItsWayIs DEF WriteMessage, SeeBusy, Stage, Doing
  <2>2. OnItsWay' \subseteq OnItsWay
    BY <1>6, <2>1
  <2>3. Messages(<<>>) = {} /\ Messages(Append(staged, messages)) = Messages(staged) \cup {messages}
    <3>1. staged \in Seq(Numbers) /\ messages \in Numbers
      BY DEF Counted
    <3>2. QED
      BY <3>1, AppendedMessages
  <2>4. written' \cup Messages(staged') \subseteq written \cup Messages(staged) \cup {messages}
    BY <1>11, <2>3 DEF WriteMessage, SeeBusy, Stage, bagVars
  <2>5. UNCHANGED <<paused, pausedAfter>>
    BY <1>11 DEF WriteMessage, SeeBusy, Stage, pauseVars
  <2>6. QED
    BY <1>5, <2>1, <2>2, <2>4, <2>5, NothingNearer DEF Around
<1>12. QED
  BY <1>7, <1>8, <1>9, <1>10, <1>11 DEF MessageStep

\* A call, a timer, or a step of the service thread: it brings nothing nearer, and
\* a pause is after everything that is near.
LEMMA HoldServiceStep ==
  ASSUME RecorderInv, QueueInv, HoldInv, ServiceStep \/ Request \/ DeferredTimer \/ \E k \in Kinds : NodeTimer(k)
  PROVE  HoldInv'
<1>1. todo'["msg"] = todo["msg"]
  BY ServiceQueue, BeginsWith
<1>2. messages' = messages
  BY DEF ServiceStep, WriteEvent, Pause, Resume, Split, Open, InitialPauseState, Restore, Subscribe, Unsubscribe,
     TakeDeferred, RecordFileSplit, Close, Drop, ClearSchedules, Check, StoppedFor, Request, CallPause, CallToggle,
     CallRecord, CallUnsubscribe, CallResume, CallSplit, CallStop, CallSubscribe, CallSetTopics, CallSchedule,
     StorageTick, Call, DeferredTimer, NodeTimer, boundVars
<1>3. OnItsWay' = OnItsWay
  BY <1>1, <1>2, OnItsWayIs
<1>4. CASE Pause("svc") /\ ~paused
  <2>1. pausedAfter' = messages /\ UNCHANGED <<written, staged>>
    BY <1>4 DEF Pause, bagVars
  <2>2. QED
    BY <1>2, <1>3, <2>1 DEF HoldInv, PauseHoldsBack, Around
<1>5. CASE UNCHANGED pausedAfter /\ (paused' => paused)
  <2>1. written' \cup Messages(staged') \subseteq written \cup Messages(staged)
    <3>1. CASE UNCHANGED <<written, staged>> \/ (written' = {} /\ staged' = staged)
      BY <3>1
    <3>2. CASE \E n : Operation(n)
      BY <3>2, OperationKeeps
    <3>3. QED
      BY <3>1, <3>2 DEF ServiceStep, WriteEvent, Pause, Resume, Split, Open, InitialPauseState, Restore, Subscribe,
         Unsubscribe, TakeDeferred, RecordFileSplit, Close, Drop, ClearSchedules, Check, StoppedFor, Request,
         CallPause, CallToggle, CallRecord, CallUnsubscribe, CallResume, CallSplit, CallStop, CallSubscribe,
         CallSetTopics, CallSchedule, StorageTick, Call, DeferredTimer, NodeTimer, bagVars
  <2>2. QED
    BY <1>2, <1>3, <1>5, <2>1, NothingNearer DEF Around
<1>6. QED
  BY <1>4, <1>5, BeginsWith DEF ServiceStep, WriteEvent, Pause, Resume, Split, Open, InitialPauseState, Restore, Subscribe,
     Unsubscribe, TakeDeferred, RecordFileSplit, Close, Drop, ClearSchedules, Check, StoppedFor, pauseVars

\* Every step keeps it: the next message starts on its way, and nothing near is
\* later than it.
LEMMA HoldStep == RecorderInv /\ QueueInv /\ Counted /\ HoldInv /\ [Next]_vars => HoldInv'
<1> SUFFICES ASSUME RecorderInv, QueueInv, Counted, HoldInv, [Next]_vars PROVE HoldInv'
  OBVIOUS
<1>1. CASE ServiceStep \/ Request \/ DeferredTimer \/ \E k \in Kinds : NodeTimer(k)
  BY <1>1, HoldServiceStep
<1>2. CASE MessageStep
  BY <1>2, HoldMessageStep
<1>3. ASSUME NEW topic \in Topics, NEW send \in Stamps, NEW recv \in Stamps, Deliver(topic, send, recv)
      PROVE  HoldInv'
  <2> DEFINE a == Step("takeDue", <<topic, send, recv>>)
             b == Step("gate", Now)
  <2>1. todo'["msg"] = <<a, b>> /\ UNCHANGED <<written, staged, paused, pausedAfter>> /\ messages' = messages + 1
    BY <1>3 DEF Deliver, RecorderInv, TodoOK, Threads, bagVars, pauseVars
  <2>2. a.do = "takeDue" /\ b.do = "gate"
    BY DEF Step
  <2> HIDE DEF a, b
  <2>3. OnItsWay' = {}
    BY <2>1, <2>2, OnItsWayIs DEF Leads
  <2>4. written \subseteq Int /\ Messages(staged) \subseteq Int /\ messages \in Int
    <3>1. Numbers \subseteq Int
      BY RecorderAssumption DEF Numbers, RecorderAssumption
    <3>2. Messages(staged) \subseteq Numbers
      BY MessagesOf DEF Counted
    <3>3. QED
      BY <3>1, <3>2 DEF Counted
  <2>5. \A m \in written \cup Messages(staged) : m <= messages + 1
    BY <2>4 DEF HoldInv, Around
  <2>6. QED
    BY <2>1, <2>3, <2>5 DEF HoldInv, PauseHoldsBack, Around
<1>4. CASE UNCHANGED vars
  <2>1. UNCHANGED <<todo, written, staged, paused, pausedAfter, messages>>
    BY <1>4 DEF vars, bagVars, pauseVars, boundVars
  <2>2. QED
    BY <2>1, NothingNearer, OnItsWayIs DEF Around
<1>5. QED
  BY <1>1, <1>2, <1>3, <1>4 DEF Next

\* As long as the flag is set, no message is in the bag, in the stage or past the
\* gate but those delivered before it was last set (dynamic_recorder.cpp
\* on_message(), bag.cpp write()): what docs/services.md:250 comes to, for what
\* the threads had under way and what was staged is still written after the
\* PAUSED event.
THEOREM PauseHolds == Spec => []PauseHoldsBack
<1>1. Init => HoldInv
  <2> SUFFICES ASSUME Init PROVE HoldInv
    OBVIOUS
  <2>1. written = {} /\ staged = <<>> /\ todo["msg"] = <<>>
    BY DEF Init, Threads
  <2>2. Messages(staged) = {} /\ OnItsWay = {}
    BY <2>1, OnItsWayIs DEF Messages, Leads
  <2>3. QED
    BY <2>1, <2>2 DEF HoldInv, PauseHoldsBack, Around
<1>2. HoldInv => PauseHoldsBack
  BY DEF HoldInv
<1>3. QED
  BY <1>1, <1>2, HoldStep, PauseHistory, CountedHolds, PTL DEF Spec
=============================================================================
