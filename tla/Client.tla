------------------------------- MODULE Client -------------------------------
(***************************************************************************)
(* dynrec's Recorder (dynrec/client.py): a connected recorder, the calls   *)
(* that scripts make on it from their own threads, and the callbacks that  *)
(* its one executor thread runs when a status arrives.                     *)
(*                                                                         *)
(* A caller is a thread of the script, or Exec when a callback calls back. *)
(* A call waits for the service, is sent, and ends with an answer, which   *)
(* only the executor can take, or with a timeout.  The recorder is what its*)
(* services make of it (recorder_services.cpp); the graph and rclpy are    *)
(* external; requests travel as a set.                                     *)
(*                                                                         *)
(* Bounds: Recorder() may end up with any recorder that runs, what happens *)
(* then is followed for Followed; one abandoned request is on its way at a *)
(* time, and is served before its caller asks again or not at all; other   *)
(* clients pause and resume, and select nothing; a callback calls back at  *)
(* most once per status, one of a recorder that records, and with          *)
(* CallbackOperations only; close() comes when the script is at rest and   *)
(* watches nothing.                                                        *)
(***************************************************************************)
EXTENDS Requests, Integers, SequencesExt

CONSTANTS Threads,     \* the script's threads
          Exec,        \* the executor's thread, as a caller
          Handles,     \* registrations of the script's callback with on_status(), numbered
          Operations,  \* the methods the script calls
          CallbackOperations,
          Selections,  \* the topics it passes to a method that selects some, or a profile lists
          StartTopics, \* the topics the recorder starts with
          Graph,       \* the get_status services that run
          Names,       \* the names it may pass to Recorder(), or None
          Followed

Callers == Threads \cup {Exec}
Named(selection) == {selection[i].topic : i \in DOMAIN selection}
Topics == UNION {Named(selection) : selection \in Selections}

ASSUME ClientAssumption ==
  /\ Exec \notin Threads
  /\ "log" \notin Threads \cup {Exec} /\ Handles \cap Threads = {}
  /\ Operations \subseteq AllOperations
  /\ CallbackOperations \subseteq AllOperations \ DOMAIN Selecting
  /\ None \notin Callers
  /\ StartTopics \subseteq Topics
\* Names that can be spelled, and mean a node.
ASSUME NameAssumption ==
  /\ \A n \in Names \ {None} : \E node \in DOMAIN Spellings : n \in Spellings[node]
  /\ {NotFound, Ambiguous, None} \cap (DOMAIN Spellings \cup RecorderNodes(Graph)) = {}

VARIABLES
  connection, \* the name asked for, what discovery has found, self.name
  up,         \* the recorder runs
  rec,        \* what it does: recording, paused, and the topics it records or would again
  wire,       \* requests on their way, whose, and whether he still waits for the answer
  replies,    \* answers on their way back to a pending call
  call,       \* each caller's call
  pending,    \* whose entries are in the clients' tables of pending requests
  outcome,    \* how each caller's last call ended
  inbox,      \* what the status subscription holds, depth 1
  watching,   \* whether the subscription was created
  callbacks,  \* self._status_callbacks
  handles,    \* each _Handle: "none", "live", "cancelled"
  waiting,    \* each thread in wait_for(): "no", "yes", "hit"
  todo,       \* the rest of the fan-out in progress
  payload,    \* the status it carries, or the last one did: whether it records
  seen,       \* the last status the script's callback was given, while registered
  closed,     \* the context and its thread were shut down
  ghost       \* history, see Init

server == <<up, rec>>
flight == <<wire, replies, call, pending, outcome>>
feed == <<inbox, watching>>
watch == <<callbacks, handles, waiting>>
fan == <<todo, payload, seen>>
vars == <<connection, server, flight, feed, watch, fan, closed, ghost>>

Callbacks == Threads \cup {"log"}
NoCall == [pc |-> "idle", op |-> None, service |-> None, topics |-> {}, answer |-> None]
Fresh == [recording |-> TRUE, paused |-> FALSE, topics |-> StartTopics]

Init ==
  /\ connection \in [asked : Names, found : {{}}, name : {None}]
  /\ up = FALSE /\ rec = Fresh
  /\ wire = {} /\ replies = {} /\ pending = {}
  /\ call = [c \in Callers |-> NoCall]
  /\ outcome = [c \in Callers |-> None]
  /\ inbox = None /\ watching = FALSE
  /\ callbacks = <<>>
  /\ handles = [h \in Handles |-> "none"]
  /\ waiting = [t \in Threads |-> "no"]
  /\ todo = <<>> /\ payload = None /\ seen = None
  /\ closed = FALSE
  \* how often the recorder did what a caller's last call asked, or part of it;
  \* what his toggle left, while nothing has changed that; the callbacks registered
  \* since the last status was delivered
  /\ ghost = [runs |-> [c \in Callers |-> 0], left |-> [c \in Callers |-> None], late |-> {}]

-----------------------------------------------------------------------------
(* The recorder *)

Start ==
  /\ ~up /\ ~closed /\ up' = TRUE
  /\ UNCHANGED <<connection, rec, flight, feed, watch, fan, closed, ghost>>

\* It goes away with what it had not answered, and with what it did.
Go ==
  /\ up /\ ~closed /\ up' = FALSE /\ rec' = Fresh
  /\ wire' = {}
  /\ ghost' = [ghost EXCEPT !.left = [c \in Callers |-> None]]
  /\ UNCHANGED <<connection, replies, call, pending, outcome, feed, watch, fan, closed>>

\* After a change and every second, to the subscription if there is one.
Publish ==
  /\ up /\ watching /\ ~closed
  /\ inbox' = rec.recording
  /\ UNCHANGED <<connection, server, flight, watching, watch, fan, closed, ghost>>

\* Another client or a schedule pauses or resumes; a guard stops it.
Others ==
  /\ up /\ ~closed
  /\ \E paused \in BOOLEAN, stops \in BOOLEAN :
       rec' = [rec EXCEPT !.recording = @ /\ ~stops, !.paused = paused]
  /\ ghost' = IF rec'.paused = rec.paused THEN ghost ELSE [ghost EXCEPT !.left = [c \in Callers |-> None]]
  /\ UNCHANGED <<connection, up, flight, feed, watch, fan, closed>>

\* Refused before anything is changed: there is no bag, or one, or, when it does
\* not work, a pattern, a profile or a schedule is not valid or the writer cannot
\* open or split.  Snapshots are not enabled.
NeedsBag == {"subscribe_topics", "set_topics", "set_profile", "stop", "resume", "split_bagfile"}
Refuses(service, works) ==
  \/ ~rec.recording /\ service \in NeedsBag
  \/ rec.recording /\ service = "record"
  \/ service = "snapshot"
  \/ ~works /\ service \in Range(Selecting) \cup {"resume", "split_bagfile", "record"}

\* Those that select: of what is wanted, some can be had; refused when nothing
\* can, though set_topics and set_profile have dropped what is not wanted then.
Subscribed == IF rec.recording THEN rec.topics ELSE {}
Selects(r, had) ==
  CASE r.service = "subscribe_topics" ->
         [refused |-> r.topics # {} /\ had = {}, topics |-> rec.topics \cup had]
    [] r.service = "unsubscribe_topics" ->
         [refused |-> r.topics # {} /\ r.topics \cap Subscribed = {}, topics |-> rec.topics \ (r.topics \cap Subscribed)]
    [] OTHER ->
         [refused |-> r.topics # {} /\ had = {}, topics |-> (rec.topics \cap r.topics) \cup had]

\* The others; a record may not get every topic back.
Does(service, had) ==
  CASE service = "toggle_paused" -> [rec EXCEPT !.paused = ~@]
    [] service = "pause" -> [rec EXCEPT !.paused = TRUE]
    [] service = "resume" -> [rec EXCEPT !.paused = FALSE]
    [] service = "stop" -> [rec EXCEPT !.recording = FALSE]
    [] service = "record" -> [rec EXCEPT !.recording = TRUE, !.topics = @ \cap had]
    [] OTHER -> rec

\* What a service answers and leaves.
Effect(r, had, works) ==
  IF Refuses(r.service, works) THEN [refused |-> TRUE, rec |-> rec]
  ELSE IF r.service \in Range(Selecting)
       THEN [refused |-> Selects(r, had \cap r.topics).refused,
             rec |-> [rec EXCEPT !.topics = Selects(r, had \cap r.topics).topics]]
       ELSE [refused |-> FALSE, rec |-> Does(r.service, had)]

\* It serves one request at a time, whether or not the caller still waits; an
\* answer to a call that is no longer pending is nobody's.
Serve(r) ==
  /\ up /\ r \in wire
  /\ wire' = wire \ {r}
  /\ \E had \in SUBSET Topics, works \in BOOLEAN :
       LET e == Effect(r, had, works) IN
         /\ rec' = e.rec
         /\ replies' = replies \cup {[to |-> c, refused |-> e.refused, paused |-> IF r.service = "is_paused" THEN rec'.paused ELSE None] :
                                      c \in IF r.waited THEN {r.by} \cap pending ELSE {}}
         /\ ghost' = [ghost EXCEPT
                 !.runs = [c \in Callers |->
                   IF c = r.by /\ r.service \notin Range(Reading) /\ (~e.refused \/ rec' # rec)
                   THEN @[c] + 1 ELSE @[c]],
                 !.left = [c \in Callers |->
                   IF c = r.by /\ r.waited /\ r.service = "toggle_paused" THEN rec'.paused
                   ELSE IF rec'.paused # rec.paused THEN None ELSE @[c]]]
  /\ UNCHANGED <<connection, up, call, pending, outcome, feed, watch, fan, closed>>

-----------------------------------------------------------------------------
(* Connecting *)

\* Discovery turns up one more of the recorders that run.
Discover(r) ==
  /\ connection.name = None /\ r \notin connection.found
  /\ connection' = [connection EXCEPT !.found = @ \cup {r}]
  /\ UNCHANGED <<server, flight, feed, watch, fan, closed, ghost>>

\* _poll_for_recorders() returns when it has found some, and the one asked for,
\* or when its time is over.
Found(deadline) ==
  \/ deadline
  \/ connection.found # {} /\ \A n \in {connection.asked} \ {None} : NodeName(n) \in connection.found

\* A failed connect leaves nothing open.  What was found serves only the
\* wording of an error from here on.
Connect ==
  /\ connection.name = None
  /\ \E deadline \in BOOLEAN : Found(deadline)
  /\ LET chosen == ChooseRecorder(connection.found, connection.asked) IN
       /\ connection' = [asked |-> None, found |-> {}, name |-> chosen]
       /\ closed' = (chosen \in {NotFound, Ambiguous})
  /\ UNCHANGED <<server, flight, feed, watch, fan, ghost>>

Connected == connection.name = Followed /\ ~closed

-----------------------------------------------------------------------------
(* Calls *)

Resting(c) == call[c].pc = "idle" /\ (c \in Threads => waiting[c] = "no")

\* A caller turns to something new: what his last call asked counts no more.
Anew(c) ==
  /\ wire' = {r \in wire : r.by # c}
  /\ ghost' = [ghost EXCEPT !.runs[c] = 0, !.left[c] = None]

Ask(c, op, topics) ==
  /\ call' = [call EXCEPT ![c] = [NoCall EXCEPT !.pc = "service", !.op = op, !.service = Service(op), !.topics = topics]]
  /\ outcome' = [outcome EXCEPT ![c] = None]
  /\ Anew(c)

\* A method: what cannot be built is refused before anything is sent.
Begin(c, op, selection) ==
  /\ Connected /\ Resting(c)
  /\ IF op \in {"add", "remove", "set_topics"} /\ SelectionError(op, selection, FALSE)
     THEN /\ outcome' = [outcome EXCEPT ![c] = [op |-> op, kind |-> Invalid]]
          /\ Anew(c)
          /\ UNCHANGED call
     ELSE Ask(c, op, IF op \in DOMAIN Selecting THEN Named(selection) ELSE {})
  /\ UNCHANGED <<connection, server, replies, pending, feed, watch, fan, closed>>

End(c, kind) ==
  /\ call' = [call EXCEPT ![c] = [NoCall EXCEPT !.pc = IF c = Exec THEN "over" ELSE "idle"]]
  /\ outcome' = [outcome EXCEPT ![c] = [op |-> call[c].op, kind |-> kind]]
  /\ ghost' = [ghost EXCEPT !.left[c] = None]

\* wait_for_service() gives up.
Unavailable(c) ==
  /\ call[c].pc = "service" /\ ~up
  /\ End(c, "ServiceUnavailable")
  /\ UNCHANGED <<connection, server, wire, replies, pending, feed, watch, fan, closed>>

Send(c) ==
  /\ call[c].pc = "service" /\ up
  /\ wire' = wire \cup {[by |-> c, waited |-> TRUE, service |-> call[c].service, topics |-> call[c].topics]}
  /\ pending' = pending \cup {c}
  /\ call' = [call EXCEPT ![c].pc = "sent"]
  /\ UNCHANGED <<connection, server, replies, outcome, feed, watch, fan, closed, ghost>>

ExecutorFree == todo = <<>> /\ ~closed

\* The executor takes an answer, which ends the call's wait.
TakeAnswer(r) ==
  /\ ExecutorFree /\ r \in replies
  /\ replies' = replies \ {r}
  /\ pending' = pending \ {r.to}
  /\ call' = [call EXCEPT ![r.to].answer = r]
  /\ UNCHANGED <<connection, server, wire, outcome, feed, watch, fan, closed, ghost>>

\* Mutant of Return: toggle() takes what its own service answered for the state.
ReturnWithoutAsking(c) ==
  /\ call[c].pc = "sent" /\ call[c].answer # None
  /\ End(c, IF call[c].answer.refused THEN "CallFailed" ELSE "ok")
  /\ UNCHANGED <<connection, server, wire, replies, pending, feed, watch, fan, closed>>
\* The answer is there: a refusal raises, and toggle() asks for what it left.
Return(c) ==
  /\ call[c].pc = "sent" /\ call[c].answer # None
  /\ IF ~call[c].answer.refused /\ call[c].service = "toggle_paused"
     THEN /\ call' = [call EXCEPT ![c] = [NoCall EXCEPT !.pc = "service", !.op = "toggle", !.service = "is_paused"]]
          /\ UNCHANGED <<outcome, ghost>>
     ELSE End(c, IF call[c].answer.refused THEN "CallFailed" ELSE "ok")
  /\ UNCHANGED <<connection, server, wire, replies, pending, feed, watch, fan, closed>>

\* The wait is over without one: the call is taken out of the table.  What it
\* asked may still be done; a second abandoned request is not.
Abandon(c) ==
  /\ wire' = {r \in wire : r.by # c} \cup
       {[r EXCEPT !.waited = FALSE] :
          r \in {q \in wire : q.by = c /\ q.service \notin Range(Reading) /\ \A o \in wire : o.waited}}
  /\ replies' = {r \in replies : r.to # c}
\* Mutant of Expire: the entry stays in the table.
ExpireLeaking(c) ==
  /\ call[c].pc = "sent" /\ call[c].answer = None
  /\ Abandon(c)
  /\ End(c, "CallTimeout")
  /\ UNCHANGED <<connection, server, pending, feed, watch, fan, closed>>
\* Mutant of Expire: the request is made once more.
ExpireRetrying(c) ==
  /\ call[c].pc = "sent" /\ call[c].answer = None
  /\ pending' = pending \ {c}
  /\ replies' = {r \in replies : r.to # c}
  /\ call' = [call EXCEPT ![c].pc = "service"]
  /\ UNCHANGED <<connection, server, wire, outcome, feed, watch, fan, closed, ghost>>
\* Mutant of Expire: the wait has no limit.
ExpireNever(c) == FALSE /\ call' = [call EXCEPT ![c] = NoCall]
Expire(c) ==
  /\ call[c].pc = "sent" /\ call[c].answer = None
  /\ pending' = pending \ {c}
  /\ Abandon(c)
  /\ End(c, "CallTimeout")
  /\ UNCHANGED <<connection, server, feed, watch, fan, closed>>

-----------------------------------------------------------------------------
(* Watching *)

CallbackOf(owner) == IF owner \in Handles THEN "log" ELSE owner

\* on_status(): the first registration makes the one subscription, and what the
\* topic has latched, the state after the last change, comes with it.
Register(owner) ==
  /\ callbacks' = Append(callbacks, CallbackOf(owner))
  /\ watching' = TRUE
  /\ inbox' = IF ~watching /\ up THEN rec.recording ELSE inbox

\* _drop(): one registration of that callback, if there is one.
Drop(owner) ==
  /\ callbacks' = RemoveFirst(callbacks, CallbackOf(owner))
  /\ seen' = IF Contains(callbacks', "log") THEN seen ELSE None
  /\ ghost' = [ghost EXCEPT !.late = @ \cap Range(callbacks')]

OnStatus(h) ==
  /\ Connected /\ handles[h] = "none" /\ \A g \in Handles : g < h => handles[g] # "none"
  /\ handles' = [handles EXCEPT ![h] = "live"]
  /\ Register(h)
  /\ ghost' = IF Contains(callbacks, "log") THEN ghost ELSE [ghost EXCEPT !.late = @ \cup {"log"}]
  /\ UNCHANGED <<connection, server, flight, waiting, fan, closed>>

\* Mutant of Cancel: a handle cancelled before is not remembered.
CancelAgain(h) ==
  /\ handles[h] # "none"
  /\ handles' = [handles EXCEPT ![h] = "cancelled"]
  /\ Drop(h)
  /\ UNCHANGED <<connection, server, flight, feed, waiting, todo, payload, closed>>
\* _Handle.cancel(), by hand and again at the end of a with block.
Cancel(h) ==
  /\ handles[h] # "none"
  /\ IF handles[h] = "live" THEN handles' = [handles EXCEPT ![h] = "cancelled"] /\ Drop(h)
     ELSE UNCHANGED <<handles, callbacks, seen, ghost>>
  /\ UNCHANGED <<connection, server, flight, feed, waiting, todo, payload, closed>>

\* wait_for(a recorder that has stopped): a timeout is one that may end the wait
\* at any time, or never.
WaitFor(t) ==
  /\ Connected /\ Resting(t)
  /\ waiting' = [waiting EXCEPT ![t] = "yes"]
  /\ Register(t)
  /\ outcome' = [outcome EXCEPT ![t] = None]
  /\ wire' = {r \in wire : r.by # t}
  /\ ghost' = [ghost EXCEPT !.runs[t] = 0, !.left[t] = None, !.late = @ \cup {t}]
  /\ UNCHANGED <<connection, server, replies, call, pending, handles, fan, closed>>

\* It has what it waited for, or raises CallTimeout; registered no more either way.
WaitEnds(t) ==
  /\ waiting[t] \in {"hit", "yes"}
  /\ waiting' = [waiting EXCEPT ![t] = "no"]
  /\ Drop(t)
  /\ UNCHANGED <<connection, server, flight, feed, handles, todo, payload, closed>>

\* Mutant of DeliverStatus: one callback is told, as if each had a subscription.
DeliverStatusToFirst ==
  /\ ExecutorFree /\ inbox # None
  /\ inbox' = None
  /\ todo' = IF callbacks = <<>> THEN <<>> ELSE <<Head(callbacks)>>
  /\ payload' = inbox
  /\ ghost' = [ghost EXCEPT !.late = {}]
  /\ UNCHANGED <<connection, server, flight, watching, watch, seen, closed>>
\* _deliver_status(): the callbacks registered now, copied under the lock.
DeliverStatus ==
  /\ ExecutorFree /\ inbox # None
  /\ inbox' = None
  /\ todo' = callbacks
  /\ payload' = inbox
  /\ ghost' = [ghost EXCEPT !.late = {}]
  /\ UNCHANGED <<connection, server, flight, watching, watch, seen, closed>>

\* A callback calls a blocking method: the thread that would take the answer waits for it.
CallBack(op) ==
  /\ todo # <<>> /\ payload = TRUE /\ Head(todo) = "log" /\ ~Contains(Tail(todo), "log") /\ call[Exec].pc = "idle"
  /\ Ask(Exec, op, {})
  /\ UNCHANGED <<connection, server, replies, pending, feed, watch, fan, closed>>

\* What a callback makes of the status: wait_for()'s own has what it waits for
\* at the first that satisfies the predicate.
Called(c) ==
  /\ seen' = IF c = "log" /\ Contains(callbacks, c) THEN payload ELSE seen
  /\ waiting' = IF c \in Threads /\ ~payload
                THEN [waiting EXCEPT ![c] = IF @ = "no" THEN @ ELSE "hit"] ELSE waiting
  /\ call' = [call EXCEPT ![Exec] = NoCall]
  /\ outcome' = [outcome EXCEPT ![Exec] = None]
  /\ Anew(Exec)

\* Mutant of RunCallback: what a callback raises leaves the loop.
RunCallbackEscaping ==
  /\ todo # <<>> /\ call[Exec].pc \in {"idle", "over"}
  /\ \E raises \in BOOLEAN : todo' = IF raises THEN <<>> ELSE Tail(todo)
  /\ Called(Head(todo))
  /\ UNCHANGED <<connection, server, replies, pending, feed, callbacks, handles, payload, closed>>
\* _fan_out(), one callback: whatever it raises is logged, and the next one runs.
RunCallback ==
  /\ todo # <<>> /\ call[Exec].pc \in {"idle", "over"}
  /\ todo' = Tail(todo)
  /\ Called(Head(todo))
  /\ UNCHANGED <<connection, server, replies, pending, feed, callbacks, handles, payload, closed>>

-----------------------------------------------------------------------------

\* close(), also by leaving the with block: the script is done.
Close ==
  /\ Connected
  /\ callbacks = <<>> /\ \A c \in Callers : call[c].pc = "idle"
  /\ closed' = TRUE
  /\ UNCHANGED <<connection, server, flight, feed, watch, fan, ghost>>

CallStep(c) == Unavailable(c) \/ Send(c) \/ Return(c) \/ Expire(c)
Next ==
  \/ Start \/ Go \/ Others \/ Publish
  \/ \E r \in wire : Serve(r)
  \/ \E r \in RecorderNodes(Graph) : Discover(r)
  \/ Connect \/ Close
  \/ \E t \in Threads, op \in Operations, selection \in Selections : Begin(t, op, selection)
  \/ \E c \in Callers : CallStep(c)
  \/ \E r \in replies : TakeAnswer(r)
  \/ \E h \in Handles : OnStatus(h) \/ Cancel(h)
  \/ \E t \in Threads : WaitFor(t) \/ WaitEnds(t)
  \/ DeliverStatus \/ RunCallback
  \/ \E op \in CallbackOperations : CallBack(op)

Spec == Init /\ [][Next]_vars

\* What moves on by itself: the recorder publishes; the executor's thread delivers,
\* runs its callbacks and what they call; a thread moves on in its call, because every
\* wait in it has its time, and when what it waits for has come.  Nothing is assumed
\* of answers, of a wait_for() not hit, or of what the script chooses to do.
Fairness ==
  /\ WF_vars(Publish)
  /\ WF_vars(DeliverStatus \/ RunCallback \/ CallStep(Exec))
  /\ \A t \in Threads : WF_vars(CallStep(t) \/ (waiting[t] = "hit" /\ WaitEnds(t)))
FairSpec == Spec /\ Fairness

-----------------------------------------------------------------------------
(* Properties *)

Services == {Service(o) : o \in AllOperations}
TypeOK ==
  /\ connection.name \in {None, NotFound, Ambiguous} \cup RecorderNodes(Graph) \cup DOMAIN Spellings
  /\ up \in BOOLEAN /\ watching \in BOOLEAN /\ closed \in BOOLEAN
  /\ rec \in [recording : BOOLEAN, paused : BOOLEAN, topics : SUBSET Topics]
  /\ wire \subseteq [by : Callers, waited : BOOLEAN, service : Services, topics : SUBSET Topics]
  /\ replies \subseteq [to : Callers, refused : BOOLEAN, paused : BOOLEAN \cup {None}]
  /\ pending \subseteq Callers
  /\ \A c \in Callers :
       /\ call[c].pc \in {"idle", "service", "sent", "over"}
       /\ call[c].op \in Operations \cup CallbackOperations \cup {None}
       /\ call[c].service \in Services \cup {None}
  /\ callbacks \in Seq(Callbacks) /\ todo \in Seq(Callbacks)
  /\ handles \in [Handles -> {"none", "live", "cancelled"}]
  /\ waiting \in [Threads -> {"no", "yes", "hit"}]
  /\ {inbox, payload, seen} \subseteq BOOLEAN \cup {None}

\* Nothing stays in the clients' pending tables but calls somebody is still in:
\* a timeout, or an answer that comes with it, leaks no entry (client.py:541).
PendingIsLive ==
  \A c \in pending : call[c].pc = "sent"

\* What a method returns or raises, and so the exit code of a verb, tells how often
\* the recorder did it, then and later: once when it returned, never when it was
\* refused, could not be built or found no service, at most once when it timed
\* out.  But for two: a toggle asks twice, and the second may fail after the first
\* was done; set_topics() and profile() may have dropped what was not wanted when
\* they are refused for what was (recorder_services.cpp:185, errors.py:64).
MayHaveActed(o) ==
  \/ o.op = "toggle" \/ o.kind = "CallTimeout"
  \/ o.op \in {"set_topics", "profile"} /\ o.kind = "CallFailed"
OutcomeTellsExecution ==
  \A c \in Callers : outcome[c] # None =>
    LET o == outcome[c] IN
    CASE ExitCode(o.kind) = EXIT_OK -> ghost.runs[c] = IF o.op \in DOMAIN Reading THEN 0 ELSE 1
      [] MayHaveActed(o) -> ghost.runs[c] <= 1
      [] OTHER -> ghost.runs[c] = 0

\* toggle() returns what its own toggle left, unless somebody else has changed
\* that since: the question is asked after it (client.py:381).
ToggleTellsWhatItLeft ==
  [][\A c \in Callers :
       call[c].op = "toggle" /\ outcome[c] = None /\ outcome'[c] # None /\ outcome'[c].kind = "ok"
         => ghost.left[c] \in {None, call[c].answer.paused}]_outcome

Places(s, c) == {i \in DOMAIN s : s[i] = c}
\* A callback is registered once for each handle that is live and each wait in
\* progress: cancelling twice takes nobody else's registration, and a wait that
\* times out or ends leaves none behind (client.py:150, 495).
RegisteredAsHeld ==
  /\ Cardinality(Places(callbacks, "log")) = Cardinality({h \in Handles : handles[h] = "live"})
  /\ \A t \in Threads : Cardinality(Places(callbacks, t)) = IF waiting[t] = "no" THEN 0 ELSE 1

\* Once the fan-out is over the script's callback has the last status delivered, if
\* any, and no wait is left that it satisfies, one that raised or called back before
\* them notwithstanding; only those registered since are without (client.py:516).
NobodyLeftBehind ==
  todo = <<>> =>
    /\ seen \in {payload, None}
    /\ Contains(callbacks, "log") /\ "log" \notin ghost.late => seen = payload
    /\ payload = FALSE => \A t \in Threads \ ghost.late : waiting[t] # "yes"

\* Every call ends, answered or not, also one made from a callback on the executor's
\* own thread, which no answer can reach: again and again a caller is in no call
\* (client.py:538).
EveryCallEnds == \A c \in Callers : []<>(call[c].pc = "idle")

\* Whoever watches is shown what the recorder does: again and again the script's
\* callback agrees with it and nobody waits for what has come to be, as long as
\* the recorder runs and the client is open (client.py:432, 476).
WatchersCatchUp ==
  []<>(\/ ~up \/ closed
       \/ /\ Contains(callbacks, "log") => seen = rec.recording
          /\ rec.recording \/ \A t \in Threads : waiting[t] = "no")

\* client.py:480: the current state is evaluated immediately; a wait for a state
\* the recorder was last seen in returns at once.  Here: with nothing more to
\* deliver, nobody waits for what the last status delivered already says.
CurrentStateSeenAtOnce ==
  ExecutorFree /\ inbox = None /\ payload = FALSE
    => \A t \in Threads : waiting[t] # "yes"
=============================================================================
