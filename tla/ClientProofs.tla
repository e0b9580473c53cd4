---------------------------- MODULE ClientProofs ----------------------------
(***************************************************************************)
(* Theorems about Client for every value of its constants: any number of   *)
(* threads and handles, any operations, selections and graphs.             *)
(***************************************************************************)
EXTENDS Client, FiniteSetTheorems, SequenceTheorems, TLAPS

-----------------------------------------------------------------------------
(* What a call's outcome tells *)

Asks == [by : Callers, waited : BOOLEAN, service : Services, topics : SUBSET Topics]
Answers == [to : Callers, refused : BOOLEAN, paused : BOOLEAN \cup {None}]
Calls == [pc : {"idle", "service", "sent", "over"}, op : AllOperations \cup {None},
          service : Services \cup {None}, topics : SUBSET Topics, answer : Answers \cup {None}]
Recs == [recording : BOOLEAN, paused : BOOLEAN, topics : SUBSET Topics]
Ghosts == [runs : [Callers -> Nat], left : [Callers -> BOOLEAN \cup {None}], late : SUBSET Callbacks]

\* The records the argument takes apart and puts together.
FlightOK ==
  /\ rec \in Recs
  /\ wire \subseteq Asks
  /\ replies \subseteq Answers
  /\ pending \subseteq Callers
  /\ call \in [Callers -> Calls]
  /\ outcome \in [Callers -> [op : AllOperations \cup {None}, kind : Raised \cup {"ok"}] \cup {None}]
  /\ ghost \in Ghosts

\* Something of the call is in a table, on its way there or on its way back.
InFlight(c) ==
  \/ c \in pending
  \/ \E r \in wire : r.by = c
  \/ \E r \in replies : r.to = c

\* A call is of the service its method names, or toggle()'s second; what had been
\* done before it, and what may have been when this answer is there: set_topics and
\* set_profile can be refused when they have dropped something.
Asked(k) ==
  \/ k.op \in AllOperations /\ k.service = Service(k.op)
  \/ k.op = "toggle" /\ k.service = "is_paused"
Before(k) == IF k.op = "toggle" /\ k.service = "is_paused" THEN 1 ELSE 0
Dropping == {"set_topics", "set_profile"}
Once(k, refused) ==
  {n \in {Before(k), Before(k) + 1} :
     /\ k.service \in Range(Reading) => n = Before(k)
     /\ k.service \notin Range(Reading) /\ ~refused => n = Before(k) + 1
     /\ refused /\ k.service \notin Dropping => n = Before(k)}

\* What is left of a call that is over: a request nobody waits for any longer,
\* which is not done yet.
IdleInv(c) ==
  call[c].pc \in {"idle", "over"} =>
    /\ c \notin pending /\ (\A r \in replies : r.to # c)
    /\ \A r \in wire : r.by = c =>
         /\ ~r.waited /\ r.service \notin Range(Reading) /\ ghost.runs[c] = 0
         /\ outcome[c] # None => outcome[c].kind = "CallTimeout"
ServiceInv(c) ==
  call[c].pc = "service" =>
    /\ ~InFlight(c) /\ outcome[c] = None /\ Asked(call[c]) /\ call[c].answer = None
    /\ ghost.runs[c] = Before(call[c])
SentInv(c) ==
  call[c].pc = "sent" =>
    /\ outcome[c] = None /\ Asked(call[c])
    /\ call[c].answer # None =>
         ~InFlight(c) /\ ghost.runs[c] \in Once(call[c], call[c].answer.refused)
    /\ \A r \in wire : r.by = c =>
         /\ r.waited /\ r.service = call[c].service /\ call[c].answer = None
         /\ ghost.runs[c] = Before(call[c]) /\ \A q \in replies : q.to # c
    /\ \A r \in replies : r.to = c =>
         call[c].answer = None /\ ghost.runs[c] \in Once(call[c], r.refused)
Tells(c) ==
  /\ ghost.runs[c] <= 1
  /\ outcome[c] # None =>
       LET o == outcome[c] IN
       CASE ExitCode(o.kind) = EXIT_OK -> ghost.runs[c] = IF o.op \in DOMAIN Reading THEN 0 ELSE 1
         [] MayHaveActed(o) -> ghost.runs[c] <= 1
         [] OTHER -> ghost.runs[c] = 0
CallInv(c) == IdleInv(c) /\ ServiceInv(c) /\ SentInv(c) /\ Tells(c)
OneAnswer == \A r, q \in replies : r.to = q.to => r = q
OneRequest == \A r, q \in wire : r.by = q.by => r = q

\* Between its start and its end a call has one request or one answer on its way,
\* and the recorder has done what the caller will be told.
FlightInv == FlightOK /\ OneAnswer /\ OneRequest /\ \A c \in Callers : CallInv(c)

\* Which services methods call, and which of them only read.
LEMMA ServiceFacts ==
  /\ \A op \in AllOperations : Service(op) \in Services
  /\ \A op \in AllOperations : Service(op) \in Range(Reading) <=> op \in DOMAIN Reading
  /\ \A op \in AllOperations : Service(op) = "toggle_paused" => op = "toggle"
  /\ \A op \in AllOperations : Service(op) \in Dropping => op \in {"set_topics", "profile"}
  /\ Dropping \subseteq Range(Selecting) /\ Dropping \cap Range(Reading) = {}
  /\ Range(Selecting) = {"subscribe_topics", "unsubscribe_topics"} \cup Dropping
  /\ "is_paused" \notin Range(Selecting)
  /\ "is_paused" \in Services /\ "is_paused" \in Range(Reading)
  /\ "toggle" \in AllOperations /\ "toggle" \notin DOMAIN Reading
  /\ "toggle_paused" \notin Range(Reading)
  /\ Service("toggle") = "toggle_paused" /\ None \notin Callers
<1>1. DOMAIN Reading = {"status", "topics", "profiles", "is_paused"}
  BY DEF Reading
<1>2. DOMAIN Selecting = {"add", "remove", "set_topics", "profile"}
  BY DEF Selecting
<1>3. DOMAIN Controlling = {"pause", "resume", "toggle", "split", "snapshot", "stop", "record"}
  BY DEF Controlling
<1>4. Range(Reading) = {"get_status", "get_subscribed_topics", "get_profiles", "is_paused"}
  BY <1>1 DEF Range, Reading
<1>5. \A op \in DOMAIN Reading : Service(op) \in Range(Reading)
  <2>1. \A op \in DOMAIN Reading : Service(op) = Reading[op]
    BY <1>1, <1>2 DEF Service
  <2>2. \A op \in DOMAIN Reading : Reading[op] \in Range(Reading)
    BY DEF Range
  <2>3. QED
    BY <2>1, <2>2, <1>4
<1>6. \A op \in DOMAIN Selecting : /\ Service(op) \notin Range(Reading) /\ Service(op) # "toggle_paused"
                                   /\ Service(op) \in Dropping => op \in {"set_topics", "profile"}
  <2>1. \A op \in DOMAIN Selecting : Service(op) = Selecting[op]
    BY <1>1, <1>2 DEF Service
  <2>2. \A op \in DOMAIN Selecting :
          /\ Selecting[op] \in {"subscribe_topics", "unsubscribe_topics", "set_topics", "set_profile"}
          /\ Selecting[op] \in Dropping => op \in {"set_topics", "profile"}
    BY <1>2 DEF Selecting, Dropping
  <2>3. QED
    BY <2>1, <2>2, <1>4
<1>7. \A op \in DOMAIN Controlling : /\ Service(op) \notin Range(Reading) \cup Dropping
                                     /\ Service(op) = "toggle_paused" => op = "toggle"
  <2>1. \A op \in DOMAIN Controlling : Service(op) = Controlling[op]
    BY <1>1, <1>2, <1>3 DEF Service
  <2>2. \A op \in DOMAIN Controlling :
          /\ Controlling[op] \in {"pause", "resume", "toggle_paused", "split_bagfile", "snapshot", "stop", "record"}
          /\ Controlling[op] = "toggle_paused" => op = "toggle"
    BY <1>3 DEF Controlling
  <2>3. QED
    BY <2>1, <2>2, <1>4 DEF Dropping
<1>8. Service("is_paused") = "is_paused" /\ Service("toggle") = "toggle_paused"
  BY <1>1, <1>2, <1>3 DEF Service, Reading, Controlling
<1>9. \A op \in AllOperations : Service(op) \in Services
  BY DEF Services
<1>10. \A op \in AllOperations : op \in DOMAIN Reading \/ op \in DOMAIN Selecting \/ op \in DOMAIN Controlling
  BY DEF AllOperations
<1>11. DOMAIN Reading \cap DOMAIN Selecting = {} /\ DOMAIN Reading \cap DOMAIN Controlling = {}
  BY <1>1, <1>2, <1>3
<1>12. "is_paused" \in AllOperations /\ "toggle" \in AllOperations
  BY <1>1, <1>3 DEF AllOperations
<1>13. \A op \in AllOperations : Service(op) \in Range(Reading) <=> op \in DOMAIN Reading
  BY <1>5, <1>6, <1>7, <1>10, <1>11
<1>14. \A op \in AllOperations : Service(op) = "toggle_paused" => op = "toggle"
  BY <1>4, <1>5, <1>6, <1>7, <1>10
<1>15. Range(Selecting) = {"subscribe_topics", "unsubscribe_topics"} \cup Dropping
  BY <1>2 DEF Range, Selecting, Dropping
<1>16. \A op \in AllOperations : Service(op) \in Dropping => op \in {"set_topics", "profile"}
  <2>1. Dropping \cap Range(Reading) = {}
    BY <1>4 DEF Dropping
  <2>2. QED
    BY <2>1, <1>5, <1>6, <1>7, <1>10
<1>17. /\ Dropping \subseteq Range(Selecting) /\ Dropping \cap Range(Reading) = {}
       /\ "is_paused" \notin Range(Selecting)
  BY <1>4, <1>15 DEF Dropping
<1>18. QED
  BY <1>1, <1>4, <1>8, <1>9, <1>12, <1>13, <1>14, <1>15, <1>16, <1>17, ClientAssumption

\* What a script can tell of the ways a call ends.
LEMMA ExitFacts ==
  /\ \A kind \in Raised : ExitCode(kind) # EXIT_OK
  /\ ExitCode("ok") = EXIT_OK
  /\ {"CallFailed", "CallTimeout", "ServiceUnavailable", Invalid} \subseteq Raised
BY DEF ExitCode, Raised, EXIT_OK, EXIT_ERROR, NotFound, Ambiguous, Invalid

\* A caller the step does not touch, whose requests and answers become no more.
LEMMA OthersKeep ==
  ASSUME NEW c \in Callers, CallInv(c),
         call'[c] = call[c], outcome'[c] = outcome[c], ghost'.runs[c] = ghost.runs[c],
         c \in pending' => c \in pending,
         \A r \in wire' : r.by = c => r \in wire,
         \A r \in replies' : r.to = c => r \in replies
  PROVE  CallInv(c)'
<1>1. InFlight(c)' => InFlight(c)
  BY DEF InFlight
<1>2. IdleInv(c)'
  BY <1>1 DEF CallInv, IdleInv
<1>3. ServiceInv(c)'
  BY <1>1 DEF CallInv, ServiceInv
<1>4. SentInv(c)'
  BY <1>1 DEF CallInv, SentInv
<1>5. Tells(c)'
  BY DEF CallInv, Tells
<1>6. QED
  BY <1>2, <1>3, <1>4, <1>5 DEF CallInv

\* Steps that leave the calls alone.
LEMMA ElsewhereKeeps ==
  ASSUME FlightInv, UNCHANGED <<replies, call, pending, outcome>>, rec' \in Recs,
         wire' \subseteq wire, ghost'.runs = ghost.runs, ghost' \in Ghosts
  PROVE  FlightInv'
<1>1. FlightOK' /\ OneAnswer' /\ OneRequest'
  BY DEF FlightInv, FlightOK, OneAnswer, OneRequest
<1>2. \A c \in Callers : CallInv(c)'
  BY OthersKeep DEF FlightInv
<1>3. QED
  BY <1>1, <1>2 DEF FlightInv

\* A caller without anything on its way.
LEMMA Quiet ==
  ASSUME NEW c \in Callers, ~InFlight(c)
  PROVE  c \notin pending /\ (\A r \in wire : r.by # c) /\ (\A r \in replies : r.to # c)
BY DEF InFlight

\* What a service answers and leaves: only those that drop what is not wanted may
\* do so and refuse.
LEMMA EffectFacts ==
  ASSUME rec \in Recs, NEW r \in Asks, NEW had \in SUBSET Topics, NEW works \in BOOLEAN
  PROVE  LET e == Effect(r, had, works) IN
         /\ e.rec \in Recs /\ e.refused \in BOOLEAN
         /\ e.refused /\ r.service \notin Dropping => e.rec = rec
         /\ r.service = "is_paused" => e.rec = rec
         /\ r.service \in Range(Selecting) => e.rec.paused = rec.paused
<1> DEFINE e == Effect(r, had, works)
           got == had \cap r.topics
           selects == Selects(r, got)
<1>1. r.topics \subseteq Topics /\ got \subseteq Topics /\ rec.topics \subseteq Topics
  BY DEF Asks, Recs
<1>2. /\ selects.topics \subseteq Topics /\ selects.refused \in BOOLEAN
      /\ r.service \in {"subscribe_topics", "unsubscribe_topics"} /\ selects.refused => selects.topics = rec.topics
  <2> HIDE DEF got
  <2>1. CASE r.service = "subscribe_topics"
    <3>1. selects = [refused |-> r.topics # {} /\ got = {}, topics |-> rec.topics \cup got]
      BY <2>1 DEF Selects
    <3>2. selects.refused = (r.topics # {} /\ got = {}) /\ selects.topics = rec.topics \cup got
      BY <3>1
    <3> HIDE DEF selects
    <3>3. QED
      BY <1>1, <3>2
  <2>2. CASE r.service = "unsubscribe_topics"
    <3> DEFINE taken == r.topics \cap Subscribed
    <3>1. selects = [refused |-> r.topics # {} /\ taken = {}, topics |-> rec.topics \ taken]
      BY <2>2 DEF Selects
    <3> HIDE DEF taken
    <3>2. selects.refused = (r.topics # {} /\ taken = {}) /\ selects.topics = rec.topics \ taken
      BY <3>1
    <3> HIDE DEF selects
    <3>3. QED
      BY <1>1, <3>2
  <2>3. CASE r.service \notin {"subscribe_topics", "unsubscribe_topics"}
    <3>1. selects = [refused |-> r.topics # {} /\ got = {}, topics |-> (rec.topics \cap r.topics) \cup got]
      BY <2>3 DEF Selects
    <3>2. selects.refused = (r.topics # {} /\ got = {}) /\ selects.topics = (rec.topics \cap r.topics) \cup got
      BY <3>1
    <3> HIDE DEF selects
    <3>3. QED
      BY <1>1, <2>3, <3>2
  <2>4. QED
    BY <2>1, <2>2, <2>3
<1> HIDE DEF selects, got
<1>3. CASE Refuses(r.service, works)
  <2>1. e = [refused |-> TRUE, rec |-> rec]
    BY <1>3 DEF Effect
  <2>2. QED
    BY <2>1
<1>4. CASE ~Refuses(r.service, works) /\ r.service \in Range(Selecting)
  <2>1. e = [refused |-> selects.refused, rec |-> [rec EXCEPT !.topics = selects.topics]]
    BY <1>4 DEF Effect, selects, got
  <2>2. e.rec \in Recs /\ e.rec.paused = rec.paused /\ e.rec.topics = selects.topics
    BY <2>1, <1>2 DEF Recs
  <2>3. selects.topics = rec.topics => e.rec = rec
    BY <2>1 DEF Recs
  <2>4. r.service # "is_paused" /\ (r.service \notin Dropping => r.service \in {"subscribe_topics", "unsubscribe_topics"})
    BY <1>4, ServiceFacts
  <2>5. QED
    BY <2>1, <2>2, <2>3, <2>4, <1>2
<1>5. CASE ~Refuses(r.service, works) /\ r.service \notin Range(Selecting)
  <2>1. e = [refused |-> FALSE, rec |-> Does(r.service, had)]
    BY <1>5 DEF Effect
  <2>2. Does(r.service, had) \in Recs
    BY <1>1 DEF Does, Recs
  <2>3. r.service = "is_paused" => Does(r.service, had) = rec
    BY DEF Does
  <2>4. QED
    BY <2>1, <2>2, <2>3, <1>5
<1>6. QED
  BY <1>3, <1>4, <1>5

\* How a request that is done is booked.
Served(r, refused) ==
  /\ refused \in BOOLEAN /\ rec' \in Recs
  /\ refused /\ r.service \notin Dropping => rec' = rec
  /\ r.service = "is_paused" => rec' = rec
  /\ replies' = replies \cup {[to |-> c, refused |-> refused, paused |-> IF r.service = "is_paused" THEN rec'.paused ELSE None] :
                                c \in IF r.waited THEN {r.by} \cap pending ELSE {}}
  /\ ghost' = [ghost EXCEPT
          !.runs = [c \in Callers |->
            IF c = r.by /\ r.service \notin Range(Reading) /\ (~refused \/ rec' # rec)
            THEN @[c] + 1 ELSE @[c]],
          !.left = [c \in Callers |->
            IF c = r.by /\ r.waited /\ r.service = "toggle_paused" THEN rec'.paused
            ELSE IF rec'.paused # rec.paused THEN None ELSE @[c]]]

LEMMA ServeFacts ==
  ASSUME FlightInv, NEW r \in wire, Serve(r)
  PROVE  \E refused : Served(r, refused)
<1>1. r \in Asks /\ rec \in Recs
  BY DEF FlightInv, FlightOK
<1>2. PICK had \in SUBSET Topics, works \in BOOLEAN :
        LET e == Effect(r, had, works) IN
         /\ rec' = e.rec
         /\ replies' = replies \cup {[to |-> c, refused |-> e.refused, paused |-> IF r.service = "is_paused" THEN rec'.paused ELSE None] :
                                      c \in IF r.waited THEN {r.by} \cap pending ELSE {}}
         /\ ghost' = [ghost EXCEPT
                 !.runs = [c \in Callers |->
                   IF c = r.by /\ r.service \notin Range(Reading) /\ (~e.refused \/ rec' # rec)
                   THEN @[c] + 1 ELSE @[c]],
                 !.left = [c \in Callers |->
                   IF c = r.by /\ r.waited /\ r.service = "toggle_paused" THEN rec'.paused
                   ELSE IF rec'.paused # rec.paused THEN None ELSE @[c]]]
  BY DEF Serve
<1> DEFINE e == Effect(r, had, works)
<1>3. /\ e.rec \in Recs /\ e.refused \in BOOLEAN
      /\ e.refused /\ r.service \notin Dropping => e.rec = rec
      /\ r.service = "is_paused" => e.rec = rec
  BY <1>1, EffectFacts
<1> DEFINE refused == e.refused
<1>4. rec' = e.rec
  BY <1>2
<1>5. Served(r, refused)
  BY <1>2, <1>3, <1>4 DEF Served
<1>6. QED
  BY <1>5

\* One request is done: its caller, if it still waits, has its answer on its way,
\* and what that says is what may have been done.
LEMMA ServeKeeps ==
  ASSUME FlightInv, NEW r \in wire, Serve(r)
  PROVE  FlightInv'
<1>0. PICK refused : Served(r, refused)
  BY ServeFacts
<1> DEFINE c == r.by
           k == call[c]
           answer == [to |-> c, refused |-> refused, paused |-> IF r.service = "is_paused" THEN rec'.paused ELSE None]
           more == IF r.service \notin Range(Reading) /\ (~refused \/ rec' # rec) THEN 1 ELSE 0
<1>1. /\ r \in Asks /\ c \in Callers /\ rec' \in Recs /\ refused \in BOOLEAN
      /\ wire' = wire \ {r} /\ UNCHANGED <<call, pending, outcome>>
  BY <1>0 DEF FlightInv, FlightOK, Asks, Serve, Served
<1>2. /\ replies' \subseteq replies \cup {answer} /\ answer \in Answers
      /\ ~r.waited => replies' = replies
      /\ \A q \in replies : q \in replies'
  <2>1. answer \in Answers
    BY <1>1 DEF Answers, Recs
  <2>2. QED
    BY <1>0, <2>1 DEF Served
<1>3. /\ ghost' \in Ghosts /\ ghost'.runs[c] = ghost.runs[c] + more
      /\ \A d \in Callers : d # c => ghost'.runs[d] = ghost.runs[d]
  <2>0. ghost \in Ghosts /\ ghost.runs[c] \in Nat
    BY <1>1 DEF FlightInv, FlightOK, Ghosts
  <2> DEFINE runs == [d \in Callers |->
               IF d = c /\ r.service \notin Range(Reading) /\ (~refused \/ rec' # rec)
               THEN ghost.runs[d] + 1 ELSE ghost.runs[d]]
             left == [d \in Callers |->
               IF d = c /\ r.waited /\ r.service = "toggle_paused" THEN rec'.paused
               ELSE IF rec'.paused # rec.paused THEN None ELSE ghost.left[d]]
  <2>1. ghost' = [ghost EXCEPT !.runs = runs, !.left = left]
    BY <1>0 DEF Served
  <2>2. runs \in [Callers -> Nat] /\ left \in [Callers -> BOOLEAN \cup {None}]
    BY <2>0, <1>1 DEF Ghosts, Recs
  <2>3. runs[c] = ghost.runs[c] + more /\ \A d \in Callers : d # c => runs[d] = ghost.runs[d]
    BY <1>1, <2>0
  <2> HIDE DEF runs, left, more
  <2>4. ghost' \in Ghosts /\ ghost'.runs = runs
    BY <2>0, <2>1, <2>2 DEF Ghosts
  <2>5. QED
    BY <2>3, <2>4
<1>4. FlightOK'
  BY <1>1, <1>2, <1>3 DEF FlightInv, FlightOK
<1>5. OneRequest' /\ \A q \in wire' : q.by # c
  BY <1>1 DEF FlightInv, OneRequest
<1>6. \A d \in Callers : d # c => CallInv(d)'
  <2> SUFFICES ASSUME NEW d \in Callers, d # c PROVE CallInv(d)'
    OBVIOUS
  <2>1. \A q \in replies' : q.to = d => q \in replies
    BY <1>2
  <2>2. QED
    BY <2>1, <1>1, <1>3, OthersKeep DEF FlightInv
<1>7. CallInv(c) /\ k.pc \in {"idle", "sent", "over"}
  BY <1>1 DEF FlightInv, FlightOK, Calls, CallInv, ServiceInv, InFlight
<1>8. CASE k.pc = "sent"
  <2>1. /\ Asked(k) /\ outcome[c] = None /\ r.service = k.service /\ k.answer = None
        /\ ghost.runs[c] = Before(k) /\ \A q \in replies : q.to # c
    BY <1>7, <1>8 DEF CallInv, SentInv
  <2>2. OneAnswer'
    BY <1>2, <2>1 DEF FlightInv, OneAnswer
  <2>3. ghost'.runs[c] \in Once(k, refused) /\ ghost'.runs[c] <= 1
    <3>1. Before(k) \in {0, 1} /\ (Before(k) = 1 => k.service \in Range(Reading))
      BY ServiceFacts DEF Before
    <3>2. more \in {0, 1} /\ (k.service \in Range(Reading) => more = 0)
          /\ (k.service \notin Range(Reading) /\ ~refused => more = 1)
          /\ (refused /\ k.service \notin Dropping => more = 0)
      BY <1>0, <2>1 DEF Served
    <3> HIDE DEF more
    <3>3. QED
      BY <3>1, <3>2, <1>3, <2>1 DEF Once
  <2>4. CallInv(c)'
    <3>1. \A q \in replies' : q.to = c => ghost'.runs[c] \in Once(k, q.refused)
      BY <1>2, <2>1, <2>3
    <3>2. SentInv(c)'
      BY <1>1, <1>5, <1>8, <2>1, <3>1 DEF SentInv
    <3>3. Tells(c)'
      BY <1>1, <2>1, <2>3 DEF Tells
    <3>4. QED
      BY <1>1, <1>8, <3>2, <3>3 DEF CallInv, IdleInv, ServiceInv
  <2>5. QED
    BY <1>4, <1>5, <1>6, <2>2, <2>4 DEF FlightInv
<1>9. CASE k.pc \in {"idle", "over"}
  <2>1. /\ ~r.waited /\ ghost.runs[c] = 0 /\ (outcome[c] # None => outcome[c].kind = "CallTimeout")
        /\ c \notin pending /\ (\A q \in replies : q.to # c)
    BY <1>7, <1>9 DEF CallInv, IdleInv
  <2>2. OneAnswer'
    BY <1>2, <2>1 DEF FlightInv, OneAnswer
  <2>3. CallInv(c)'
    <3>1. IdleInv(c)'
      BY <1>1, <1>2, <1>5, <2>1 DEF IdleInv
    <3>2. more \in {0, 1}
      OBVIOUS
    <3> HIDE DEF more
    <3>3. ghost'.runs[c] <= 1
      BY <3>2, <1>3, <2>1
    <3>4. Tells(c)'
      BY <1>1, <2>1, <3>3, ExitFacts DEF Tells, MayHaveActed
    <3>5. QED
      BY <1>1, <1>9, <3>1, <3>4 DEF CallInv, ServiceInv, SentInv
  <2>4. QED
    BY <1>4, <1>5, <1>6, <2>2, <2>3 DEF FlightInv
<1>10. QED
  BY <1>7, <1>8, <1>9

\* A step of one caller.
LEMMA OneCallerKeeps ==
  ASSUME FlightInv, NEW c \in Callers, FlightOK', OneAnswer', OneRequest', CallInv(c)',
         \A d \in Callers : d # c =>
           /\ call'[d] = call[d] /\ outcome'[d] = outcome[d] /\ ghost'.runs[d] = ghost.runs[d]
           /\ d \in pending' => d \in pending
           /\ \A r \in wire' : r.by = d => r \in wire
           /\ \A r \in replies' : r.to = d => r \in replies
  PROVE  FlightInv'
<1>1. \A d \in Callers : d # c => CallInv(d)'
  BY OthersKeep DEF FlightInv
<1>2. QED
  BY <1>1 DEF FlightInv

\* What a caller's turn to something new leaves.
LEMMA AnewFacts ==
  ASSUME FlightInv, NEW c \in Callers, Anew(c)
  PROVE  /\ wire' \subseteq wire /\ OneRequest' /\ \A r \in wire' : r.by # c
         /\ ghost' \in Ghosts /\ ghost'.runs[c] = 0 /\ ghost'.left[c] = None
         /\ \A d \in Callers : d # c => ghost'.runs[d] = ghost.runs[d] /\ ghost'.left[d] = ghost.left[d]
<1>1. ghost \in Ghosts
  BY DEF FlightInv, FlightOK
<1>2. wire' \subseteq wire /\ OneRequest' /\ \A r \in wire' : r.by # c
  BY DEF Anew, FlightInv, OneRequest
<1>3. ghost' = [ghost EXCEPT !.runs = [ghost.runs EXCEPT ![c] = 0], !.left = [ghost.left EXCEPT ![c] = None]]
  BY DEF Anew
<1> DEFINE runs == [ghost.runs EXCEPT ![c] = 0]
           left == [ghost.left EXCEPT ![c] = None]
<1>4. /\ runs \in [Callers -> Nat] /\ left \in [Callers -> BOOLEAN \cup {None}]
      /\ runs[c] = 0 /\ left[c] = None
      /\ \A d \in Callers : d # c => runs[d] = ghost.runs[d] /\ left[d] = ghost.left[d]
  BY <1>1 DEF Ghosts
<1> HIDE DEF runs, left
<1>5. ghost' \in Ghosts /\ ghost'.runs = runs /\ ghost'.left = left
  BY <1>1, <1>3, <1>4 DEF Ghosts, runs, left
<1>6. QED
  BY <1>2, <1>4, <1>5

\* The call of who asks.
Asking(e, op, sv, topics) == e = [NoCall EXCEPT !.pc = "service", !.op = op, !.service = sv, !.topics = topics]

LEMMA AskedFacts ==
  ASSUME NEW op \in AllOperations, NEW sv \in Services, NEW topics \in SUBSET Topics, NEW e,
         Asking(e, op, sv, topics)
  PROVE  e \in Calls /\ e.pc = "service" /\ e.op = op /\ e.service = sv /\ e.topics = topics /\ e.answer = None
<1>1. e.pc = "service" /\ e.op = op /\ e.service = sv /\ e.topics = topics /\ e.answer = None
  BY DEF Asking, NoCall
<1>2. e \in [pc : {"service"}, op : AllOperations, service : Services, topics : SUBSET Topics, answer : {None}]
  BY DEF Asking, NoCall
<1>3. QED
  BY <1>1, <1>2 DEF Calls

\* What is built and refused, or asked, starts a count.
LEMMA AskKeeps ==
  ASSUME FlightInv, NEW c \in Callers, NEW op \in AllOperations, NEW topics \in SUBSET Topics, call[c].pc = "idle",
         Ask(c, op, topics), UNCHANGED <<rec, replies, pending>>
  PROVE  FlightInv'
<1>0. /\ wire' \subseteq wire /\ OneRequest' /\ \A r \in wire' : r.by # c
      /\ ghost' \in Ghosts /\ ghost'.runs[c] = 0
      /\ \A d \in Callers : d # c => ghost'.runs[d] = ghost.runs[d]
  BY AnewFacts DEF Ask
<1>1. Service(op) \in Services
  BY ServiceFacts
<1> DEFINE asks == [NoCall EXCEPT !.pc = "service", !.op = op, !.service = Service(op), !.topics = topics]
<1>a. /\ asks \in Calls
      /\ asks.pc = "service" /\ asks.op = op /\ asks.service = Service(op) /\ asks.topics = topics
      /\ asks.answer = None
  <2> DEFINE sv == Service(op)
  <2>1. sv \in Services
    BY <1>1
  <2> HIDE DEF sv
  <2>2. PICK e : Asking(e, op, sv, topics)
    BY DEF Asking
  <2>3. e \in Calls /\ e.pc = "service" /\ e.op = op /\ e.service = sv /\ e.topics = topics /\ e.answer = None
    BY <2>1, <2>2, AskedFacts
  <2>4. asks = e
    BY <2>2 DEF sv, Asking
  <2> HIDE DEF asks
  <2>5. QED
    BY <2>3, <2>4 DEF sv
<1>2. call' = [call EXCEPT ![c] = asks] /\ outcome' = [outcome EXCEPT ![c] = None]
  BY DEF Ask
<1> HIDE DEF asks
<1>3. FlightOK'
  <2>1. call' \in [Callers -> Calls]
    BY <1>a, <1>2 DEF FlightInv, FlightOK
  <2>2. outcome' \in [Callers -> [op : AllOperations \cup {None}, kind : Raised \cup {"ok"}] \cup {None}]
    BY <1>2 DEF FlightInv, FlightOK
  <2>3. QED
    BY <1>0, <2>1, <2>2 DEF FlightInv, FlightOK
<1>4. OneAnswer'
  BY DEF FlightInv, OneAnswer
<1>5. call'[c] = asks /\ outcome'[c] = None
  BY <1>2 DEF FlightInv, FlightOK
<1>6. CallInv(c)'
  <2>1. ~InFlight(c)'
    BY <1>0 DEF FlightInv, CallInv, IdleInv, InFlight
  <2>2. Asked(call'[c]) /\ Before(call'[c]) = 0
    BY <1>a, <1>5, ServiceFacts DEF Asked, Before
  <2>3. QED
    BY <1>0, <1>a, <1>5, <2>1, <2>2 DEF CallInv, IdleInv, ServiceInv, SentInv, Tells
<1>7. \A d \in Callers : d # c => call'[d] = call[d] /\ outcome'[d] = outcome[d]
  BY <1>2 DEF FlightInv, FlightOK
<1>8. QED
  BY <1>0, <1>3, <1>4, <1>6, <1>7, OneCallerKeeps

\* The topics a method passes are some of those there are.
LEMMA NamedTopics ==
  ASSUME NEW op, NEW selection \in Selections
  PROVE  (IF op \in DOMAIN Selecting THEN Named(selection) ELSE {}) \subseteq Topics
BY DEF Topics

LEMMA BeginKeeps ==
  ASSUME FlightInv, NEW c \in Threads, NEW op \in Operations, NEW selection \in Selections,
         Begin(c, op, selection)
  PROVE  FlightInv'
<1>1. c \in Callers /\ op \in AllOperations /\ call[c].pc = "idle"
  BY ClientAssumption DEF Callers, Begin, Resting
<1> DEFINE refused == op \in {"add", "remove", "set_topics"} /\ SelectionError(op, selection, FALSE)
<1>2. CASE refused
  <2>1. /\ outcome' = [outcome EXCEPT ![c] = [op |-> op, kind |-> Invalid]]
        /\ Anew(c) /\ UNCHANGED <<call, rec, replies, pending>>
    BY <1>2 DEF Begin, server
  <2>2. /\ wire' \subseteq wire /\ OneRequest' /\ \A r \in wire' : r.by # c
        /\ ghost' \in Ghosts /\ ghost'.runs[c] = 0
        /\ \A d \in Callers : d # c => ghost'.runs[d] = ghost.runs[d]
    BY <1>1, <2>1, AnewFacts
  <2>3. FlightOK'
    <3>1. outcome' \in [Callers -> [op : AllOperations \cup {None}, kind : Raised \cup {"ok"}] \cup {None}]
      BY <1>1, <2>1, ExitFacts DEF FlightInv, FlightOK
    <3>2. QED
      BY <2>1, <2>2, <3>1 DEF FlightInv, FlightOK
  <2>4. OneAnswer'
    BY <2>1 DEF FlightInv, OneAnswer
  <2>5. outcome'[c] = [op |-> op, kind |-> Invalid]
    BY <1>1, <2>1 DEF FlightInv, FlightOK
  <2>6. CallInv(c)'
    <3>1. IdleInv(c)'
      BY <1>1, <2>1, <2>2 DEF FlightInv, CallInv, IdleInv
    <3>2. Tells(c)'
      BY <2>2, <2>5, ExitFacts DEF Tells
    <3>3. QED
      BY <1>1, <2>1, <3>1, <3>2 DEF CallInv, ServiceInv, SentInv
  <2>7. \A d \in Callers : d # c => call'[d] = call[d] /\ outcome'[d] = outcome[d]
    BY <2>1 DEF FlightInv, FlightOK
  <2>8. QED
    BY <1>1, <2>1, <2>2, <2>3, <2>4, <2>6, <2>7, OneCallerKeeps
<1>3. CASE ~refused
  <2> DEFINE topics == IF op \in DOMAIN Selecting THEN Named(selection) ELSE {}
  <2>1. Ask(c, op, topics) /\ UNCHANGED <<rec, replies, pending>>
    BY <1>3 DEF Begin, server
  <2>2. topics \in SUBSET Topics
    BY NamedTopics
  <2> HIDE DEF topics
  <2>3. QED
    BY <1>1, <2>1, <2>2, AskKeeps
<1>4. QED
  BY <1>2, <1>3

\* How a call's end is booked.
LEMMA EndFacts ==
  ASSUME FlightInv, NEW c \in Callers, NEW kind \in Raised \cup {"ok"}, End(c, kind),
         wire' \subseteq Asks, replies' \subseteq replies, pending' \subseteq pending, rec' = rec
  PROVE  /\ FlightOK' /\ OneAnswer'
         /\ call'[c].pc \in {"idle", "over"}
         /\ outcome'[c] = [op |-> call[c].op, kind |-> kind]
         /\ ghost'.runs = ghost.runs
         /\ \A d \in Callers : d # c => call'[d] = call[d] /\ outcome'[d] = outcome[d]
<1>1. call' \in [Callers -> Calls]
  BY DEF FlightInv, FlightOK, Calls, End, NoCall
<1>2. outcome' \in [Callers -> [op : AllOperations \cup {None}, kind : Raised \cup {"ok"}] \cup {None}]
  BY DEF FlightInv, FlightOK, Calls, End
<1>3. ghost' \in Ghosts /\ ghost'.runs = ghost.runs
  BY DEF FlightInv, FlightOK, Ghosts, End
<1>4. FlightOK'
  BY <1>1, <1>2, <1>3 DEF FlightInv, FlightOK
<1>5. OneAnswer'
  BY DEF FlightInv, OneAnswer
<1>6. QED
  BY <1>3, <1>4, <1>5 DEF FlightInv, FlightOK, End, NoCall

LEMMA UnavailableKeeps ==
  ASSUME FlightInv, NEW c \in Callers, Unavailable(c)
  PROVE  FlightInv'
<1>1. /\ End(c, "ServiceUnavailable") /\ call[c].pc = "service"
      /\ UNCHANGED <<rec, wire, replies, pending>>
  BY DEF Unavailable, server
<1>2. /\ FlightOK' /\ OneAnswer'
      /\ call'[c].pc \in {"idle", "over"}
      /\ outcome'[c] = [op |-> call[c].op, kind |-> "ServiceUnavailable"]
      /\ ghost'.runs = ghost.runs
      /\ \A d \in Callers : d # c => call'[d] = call[d] /\ outcome'[d] = outcome[d]
  BY <1>1, EndFacts, ExitFacts DEF FlightInv, FlightOK
<1>3. ~InFlight(c) /\ ghost.runs[c] = Before(call[c])
  BY <1>1 DEF FlightInv, CallInv, ServiceInv
<1>4. CallInv(c)'
  <2>1. IdleInv(c)'
    BY <1>1, <1>3 DEF InFlight, IdleInv
  <2>2. Tells(c)'
    BY <1>2, <1>3, ExitFacts DEF Tells, Before, MayHaveActed
  <2>3. QED
    BY <1>2, <2>1, <2>2 DEF CallInv, ServiceInv, SentInv
<1>5. OneRequest'
  BY <1>1 DEF FlightInv, OneRequest
<1>6. QED
  BY <1>1, <1>2, <1>4, <1>5, OneCallerKeeps

LEMMA SendKeeps ==
  ASSUME FlightInv, NEW c \in Callers, Send(c)
  PROVE  FlightInv'
<1> DEFINE request == [by |-> c, waited |-> TRUE, service |-> call[c].service, topics |-> call[c].topics]
<1>1. /\ call[c].pc = "service" /\ pending' = pending \cup {c} /\ wire' = wire \cup {request}
      /\ call' = [call EXCEPT ![c].pc = "sent"]
      /\ UNCHANGED <<rec, replies, outcome, ghost>>
  BY DEF Send, server
<1>2. /\ ~InFlight(c) /\ outcome[c] = None /\ Asked(call[c])
      /\ ghost.runs[c] = Before(call[c])
  BY <1>1 DEF FlightInv, CallInv, ServiceInv
<1>3. call[c].service \in Services
  BY <1>2, ServiceFacts DEF Asked
<1>4. FlightOK'
  <2>1. wire' \subseteq Asks
    <3>1. call[c].topics \in SUBSET Topics
      BY DEF FlightInv, FlightOK, Calls
    <3>2. request \in Asks
      BY <1>3, <3>1 DEF Asks
    <3> HIDE DEF request
    <3>3. QED
      BY <1>1, <3>2 DEF FlightInv, FlightOK
  <2>2. call' \in [Callers -> Calls]
    BY <1>1 DEF FlightInv, FlightOK, Calls
  <2>3. QED
    BY <1>1, <2>1, <2>2 DEF FlightInv, FlightOK
<1>5. OneAnswer' /\ OneRequest'
  <2>1. OneAnswer'
    BY <1>1 DEF FlightInv, OneAnswer
  <2>2. \A r \in wire : r.by # c
    BY <1>2, Quiet
  <2>3. request.by = c
    OBVIOUS
  <2> HIDE DEF request
  <2>4. OneRequest'
    BY <1>1, <2>2, <2>3 DEF FlightInv, OneRequest
  <2>5. QED
    BY <2>1, <2>4
<1>6. /\ call'[c].pc = "sent" /\ call'[c].op = call[c].op
      /\ call'[c].service = call[c].service /\ call'[c].answer = call[c].answer
  BY <1>1 DEF FlightInv, FlightOK
<1>7. call[c].answer = None
  BY <1>1 DEF FlightInv, CallInv, ServiceInv
<1>8. CallInv(c)'
  <2>1. \A r \in wire' : r.by = c => r = request
    BY <1>1, <1>2, Quiet
  <2>2. \A r \in replies' : r.to # c
    BY <1>1, <1>2, Quiet
  <2>3. Asked(call'[c]) /\ Before(call'[c]) = Before(call[c])
    BY <1>2, <1>6 DEF Asked, Before
  <2>4. SentInv(c)'
    BY <1>1, <1>2, <1>6, <1>7, <2>1, <2>2, <2>3 DEF SentInv
  <2>5. Tells(c)'
    BY <1>1, <1>2, <2>3 DEF Tells, Before
  <2>6. QED
    BY <1>6, <2>4, <2>5 DEF CallInv, IdleInv, ServiceInv
<1>9. \A d \in Callers : d # c => call'[d] = call[d]
  BY <1>1 DEF FlightInv, FlightOK
<1>10. QED
  BY <1>1, <1>4, <1>5, <1>8, <1>9, OneCallerKeeps

LEMMA TakeAnswerKeeps ==
  ASSUME FlightInv, NEW r \in replies, TakeAnswer(r)
  PROVE  FlightInv'
<1> DEFINE c == r.to
<1>1. /\ replies' = replies \ {r} /\ pending' = pending \ {c}
      /\ call' = [call EXCEPT ![c].answer = r]
      /\ UNCHANGED <<rec, wire, outcome, ghost>>
  BY DEF TakeAnswer, server
<1>2. c \in Callers /\ r \in Answers /\ InFlight(c)
  BY DEF FlightInv, FlightOK, Answers, InFlight
<1>3. call[c].pc = "sent"
  BY <1>2 DEF CallInv, IdleInv, ServiceInv, FlightInv, FlightOK, Calls
<1>4. /\ outcome[c] = None /\ Asked(call[c]) /\ call[c].answer = None
      /\ ghost.runs[c] \in Once(call[c], r.refused)
      /\ \A q \in wire : q.by # c
  BY <1>2, <1>3 DEF CallInv, SentInv, FlightInv
<1>5. \A q \in replies' : q.to # c
  BY <1>1 DEF FlightInv, OneAnswer
<1>6. FlightOK'
  <2>1. call \in [Callers -> Calls] /\ [call[c] EXCEPT !.answer = r] \in Calls
    BY <1>2 DEF FlightInv, FlightOK, Calls
  <2>2. call' \in [Callers -> Calls]
    BY <2>1, <1>1
  <2>3. QED
    BY <1>1, <2>2 DEF FlightInv, FlightOK
<1>7. OneAnswer' /\ OneRequest'
  BY <1>1 DEF FlightInv, OneAnswer, OneRequest
<1>8. /\ call'[c].pc = "sent" /\ call'[c].op = call[c].op
      /\ call'[c].service = call[c].service /\ call'[c].answer = r
  BY <1>1, <1>2, <1>3 DEF FlightInv, FlightOK
<1>9. CallInv(c)'
  <2>1. ~InFlight(c)'
    BY <1>1, <1>4, <1>5 DEF InFlight
  <2>2. Asked(call'[c]) /\ Once(call'[c], r.refused) = Once(call[c], r.refused)
    BY <1>4, <1>8 DEF Asked, Once, Before
  <2>3. SentInv(c)'
    BY <1>1, <1>4, <1>5, <1>8, <2>1, <2>2 DEF SentInv
  <2>4. Tells(c)'
    <3>1. Tells(c)
      BY <1>2 DEF CallInv, FlightInv
    <3>2. QED
      BY <1>1, <3>1 DEF Tells
  <2>5. QED
    BY <1>8, <2>3, <2>4 DEF CallInv, IdleInv, ServiceInv
<1>10. \A d \in Callers : d # c => call'[d] = call[d]
  BY <1>1 DEF FlightInv, FlightOK
<1>11. QED
  BY <1>1, <1>2, <1>6, <1>7, <1>9, <1>10, OneCallerKeeps

\* toggle() asks again, anything else is over; what the answer says was done.
LEMMA ReturnKeeps ==
  ASSUME FlightInv, NEW c \in Callers, Return(c)
  PROVE  FlightInv'
<1> DEFINE k == call[c]
<1>1. /\ k.pc = "sent" /\ k.answer # None
      /\ UNCHANGED <<rec, wire, replies, pending>>
  BY DEF Return, server
<1>2. /\ outcome[c] = None /\ Asked(k) /\ ~InFlight(c)
      /\ ghost.runs[c] \in Once(k, k.answer.refused)
      /\ k.answer.refused \in BOOLEAN
  BY <1>1 DEF FlightInv, FlightOK, Calls, CallInv, SentInv, Answers
<1>3. ~InFlight(c)'
  BY <1>1, <1>2 DEF InFlight
<1>4. CASE ~k.answer.refused /\ k.service = "toggle_paused"
  <2>1. /\ call' = [call EXCEPT ![c] = [NoCall EXCEPT !.pc = "service", !.op = "toggle", !.service = "is_paused"]]
        /\ UNCHANGED <<outcome, ghost>>
    BY <1>4 DEF Return
  <2>2. FlightOK'
    <3>1. call' \in [Callers -> Calls]
      BY <2>1, ServiceFacts DEF FlightInv, FlightOK, Calls, NoCall
    <3>2. QED
      BY <1>1, <2>1, <3>1 DEF FlightInv, FlightOK
  <2>3. OneAnswer' /\ OneRequest'
    BY <1>1 DEF FlightInv, OneAnswer, OneRequest
  <2>4. call'[c] = [pc |-> "service", op |-> "toggle", service |-> "is_paused", topics |-> {}, answer |-> None]
    BY <2>1 DEF FlightInv, FlightOK, NoCall
  <2>5. ghost.runs[c] = 1
    BY <1>2, <1>4, ServiceFacts DEF Once, Before
  <2>6. Asked(call'[c]) /\ Before(call'[c]) = 1
    BY <2>4 DEF Asked, Before
  <2>7. CallInv(c)'
    <3>1. ServiceInv(c)'
      <4>1. outcome' = outcome /\ ghost' = ghost
        BY <2>1
      <4>2. outcome'[c] = None /\ ghost'.runs[c] = 1
        BY <1>2, <2>5, <4>1
      <4>3. QED
        BY <1>3, <2>4, <2>6, <4>2 DEF ServiceInv
    <3>2. Tells(c)'
      BY <1>2, <2>1, <2>5 DEF Tells
    <3>3. QED
      BY <2>4, <3>1, <3>2 DEF CallInv, IdleInv, SentInv
  <2>8. \A d \in Callers : d # c => call'[d] = call[d]
    BY <2>1 DEF FlightInv, FlightOK
  <2>9. QED
    BY <1>1, <2>1, <2>2, <2>3, <2>7, <2>8, OneCallerKeeps
<1>5. CASE ~(~k.answer.refused /\ k.service = "toggle_paused")
  <2> DEFINE kind == IF k.answer.refused THEN "CallFailed" ELSE "ok"
  <2>1. End(c, kind) /\ kind \in Raised \cup {"ok"}
    BY <1>5, ExitFacts DEF Return
  <2>2. /\ FlightOK' /\ OneAnswer'
        /\ call'[c].pc \in {"idle", "over"}
        /\ outcome'[c] = [op |-> k.op, kind |-> kind]
        /\ ghost'.runs = ghost.runs
        /\ \A d \in Callers : d # c => call'[d] = call[d] /\ outcome'[d] = outcome[d]
    BY <1>1, <2>1, EndFacts DEF FlightInv, FlightOK
  <2>3. Tells(c)'
    <3>0. ghost'.runs[c] = ghost.runs[c] /\ ghost.runs[c] <= 1
      BY <2>2 DEF FlightInv, CallInv, Tells
    <3>1. CASE k.answer.refused
      <4>1. CASE k.op = "toggle"
        BY <3>0, <3>1, <4>1, <2>2, ExitFacts DEF Tells, MayHaveActed
      <4>2. CASE k.op # "toggle" /\ k.service \in Dropping
        <5>1. MayHaveActed(outcome'[c])
          BY <3>1, <4>2, <1>2, <2>2, ServiceFacts DEF Asked, MayHaveActed
        <5>2. QED
          BY <3>0, <3>1, <5>1, <2>2, ExitFacts DEF Tells
      <4>3. CASE k.op # "toggle" /\ k.service \notin Dropping
        <5>1. ghost.runs[c] = 0
          BY <3>1, <4>3, <1>2 DEF Once, Before
        <5>2. QED
          BY <3>0, <3>1, <5>1, <2>2, ExitFacts DEF Tells
      <4>4. QED
        BY <4>1, <4>2, <4>3
    <3>2. CASE ~k.answer.refused
      <4>1. ghost.runs[c] = IF k.op \in DOMAIN Reading THEN 0 ELSE 1
        BY <3>2, <1>2, <1>5, ServiceFacts DEF Asked, Once, Before
      <4>2. QED
        BY <3>0, <3>2, <4>1, <2>2, ExitFacts DEF Tells
    <3>3. QED
      BY <3>1, <3>2
  <2>4. CallInv(c)'
    <3>1. IdleInv(c)'
      BY <1>3 DEF IdleInv, InFlight
    <3>2. QED
      BY <2>2, <2>3, <3>1 DEF CallInv, ServiceInv, SentInv
  <2>5. OneRequest'
    BY <1>1 DEF FlightInv, OneRequest
  <2>6. QED
    BY <1>1, <2>2, <2>4, <2>5, OneCallerKeeps
<1>6. QED
  BY <1>4, <1>5

\* Nobody waits any longer; what was asked was done once by now, or not, or may
\* still be done.
LEMMA ExpireKeeps ==
  ASSUME FlightInv, NEW c \in Callers, Expire(c)
  PROVE  FlightInv'
<1>1. /\ call[c].pc = "sent" /\ call[c].answer = None /\ pending' = pending \ {c} /\ rec' = rec
      /\ Abandon(c) /\ End(c, "CallTimeout")
  BY DEF Expire, server
<1>2. /\ outcome[c] = None /\ Asked(call[c])
      /\ \A r \in wire : r.by = c => r.service = call[c].service /\ ghost.runs[c] = Before(call[c])
  BY <1>1 DEF FlightInv, CallInv, SentInv
<1>3. /\ wire' \subseteq Asks /\ OneRequest'
      /\ \A r \in wire' : r.by # c => r \in wire
      /\ \A r \in wire' : r.by = c => ~r.waited /\ r.service \notin Range(Reading) /\ ghost.runs[c] = 0
  <2> DEFINE gone == {[r EXCEPT !.waited = FALSE] :
          r \in {q \in wire : q.by = c /\ q.service \notin Range(Reading) /\ \A o \in wire : o.waited}}
  <2>1. wire' = {r \in wire : r.by # c} \cup gone
    BY <1>1 DEF Abandon
  <2>2. ASSUME NEW g \in gone
        PROVE  \E q \in wire : /\ q \in Asks /\ q.by = c /\ q.service \notin Range(Reading)
                               /\ g = [q EXCEPT !.waited = FALSE]
    BY <2>2 DEF FlightInv, FlightOK
  <2>3. ASSUME NEW g \in gone
        PROVE  g \in Asks /\ g.by = c /\ ~g.waited /\ g.service \notin Range(Reading) /\ ghost.runs[c] = 0
    <3>1. PICK q \in wire : /\ q \in Asks /\ q.by = c /\ q.service \notin Range(Reading)
                            /\ g = [q EXCEPT !.waited = FALSE]
      BY <2>2
    <3>2. g \in Asks /\ g.by = c /\ ~g.waited /\ g.service = q.service
      BY <3>1 DEF Asks
    <3>3. ghost.runs[c] = 0
      BY <1>2, <3>1, ServiceFacts DEF Before
    <3>4. QED
      BY <3>1, <3>2, <3>3
  <2>4. \A g, h \in gone : g = h
    <3> SUFFICES ASSUME NEW g \in gone, NEW h \in gone PROVE g = h
      OBVIOUS
    <3>1. PICK q \in wire : q.by = c /\ g = [q EXCEPT !.waited = FALSE]
      BY <2>2
    <3>2. PICK p \in wire : p.by = c /\ h = [p EXCEPT !.waited = FALSE]
      BY <2>2
    <3>3. p = q
      BY <3>1, <3>2 DEF FlightInv, OneRequest
    <3>4. QED
      BY <3>1, <3>2, <3>3
  <2> HIDE DEF gone
  <2>5. OneRequest'
    BY <2>1, <2>3, <2>4 DEF FlightInv, OneRequest
  <2>6. QED
    BY <2>1, <2>3, <2>5 DEF FlightInv, FlightOK
<1>4. replies' \subseteq replies /\ \A r \in replies' : r.to # c
  BY <1>1 DEF Abandon
<1>5. /\ FlightOK' /\ OneAnswer'
      /\ call'[c].pc \in {"idle", "over"}
      /\ outcome'[c] = [op |-> call[c].op, kind |-> "CallTimeout"]
      /\ ghost'.runs = ghost.runs
      /\ \A d \in Callers : d # c => call'[d] = call[d] /\ outcome'[d] = outcome[d]
  BY <1>1, <1>3, <1>4, EndFacts, ExitFacts
<1>6. CallInv(c)'
  <2>1. IdleInv(c)'
    BY <1>1, <1>3, <1>4, <1>5 DEF IdleInv
  <2>2. Tells(c)'
    BY <1>5, ExitFacts DEF Tells, CallInv, FlightInv, MayHaveActed
  <2>3. QED
    BY <1>5, <2>1, <2>2 DEF CallInv, ServiceInv, SentInv
<1>7. QED
  BY <1>1, <1>3, <1>4, <1>5, <1>6, OneCallerKeeps

\* A caller that is not in a call, and whose last outcome and count are wiped.
LEMMA WipedKeeps ==
  ASSUME FlightInv, NEW c \in Callers, call[c].pc \in {"idle", "over"},
         call' \in [Callers -> Calls], call'[c].pc \in {"idle", "over"},
         \A d \in Callers : d # c => call'[d] = call[d],
         outcome' = [outcome EXCEPT ![c] = None],
         wire' = {r \in wire : r.by # c},
         ghost' \in Ghosts, ghost'.runs[c] = 0,
         \A d \in Callers : d # c => ghost'.runs[d] = ghost.runs[d],
         UNCHANGED <<rec, replies, pending>>
  PROVE  FlightInv'
<1>1. FlightOK'
  BY DEF FlightInv, FlightOK
<1>2. OneAnswer' /\ OneRequest'
  BY DEF FlightInv, OneAnswer, OneRequest
<1>3. outcome'[c] = None
  BY DEF FlightInv, FlightOK
<1>4. CallInv(c)'
  <2>1. IdleInv(c)'
    BY DEF FlightInv, CallInv, IdleInv
  <2>2. Tells(c)'
    BY <1>3 DEF Tells
  <2>3. QED
    BY <2>1, <2>2 DEF CallInv, ServiceInv, SentInv
<1>5. \A d \in Callers : d # c => outcome'[d] = outcome[d]
  BY DEF FlightInv, FlightOK
<1>6. QED
  BY <1>1, <1>2, <1>4, <1>5, OneCallerKeeps

\* Registering and dropping leave the counts alone.
LEMMA LateKeeps ==
  ASSUME FlightInv, NEW S \in SUBSET Callbacks, ghost' = [ghost EXCEPT !.late = S]
  PROVE  ghost' \in Ghosts /\ ghost'.runs = ghost.runs /\ ghost'.left = ghost.left
BY DEF FlightInv, FlightOK, Ghosts

LEMMA DropLeaves ==
  ASSUME FlightInv, NEW owner, Drop(owner)
  PROVE  ghost' \in Ghosts /\ ghost'.runs = ghost.runs /\ ghost'.left = ghost.left
<1>1. ghost.late \cap Range(callbacks') \in SUBSET Callbacks
  BY DEF FlightInv, FlightOK, Ghosts
<1>2. QED
  BY <1>1, LateKeeps DEF Drop

LEMMA FlightInit == Init => FlightInv
<1> SUFFICES ASSUME Init PROVE FlightInv
  OBVIOUS
<1>1. FlightOK
  <2>1. call \in [Callers -> Calls]
    BY DEF Init, Calls, NoCall
  <2>2. ghost \in Ghosts
    BY DEF Init, Ghosts
  <2>3. rec \in Recs
    BY ClientAssumption DEF Init, Fresh, Recs
  <2>4. QED
    BY <2>1, <2>2, <2>3 DEF Init, FlightOK
<1>2. OneAnswer /\ OneRequest
  BY DEF Init, OneAnswer, OneRequest
<1>3. ASSUME NEW c \in Callers PROVE CallInv(c)
  <2>1. call[c].pc = "idle" /\ outcome[c] = None /\ ghost.runs[c] = 0
    BY DEF Init, NoCall
  <2>2. IdleInv(c)
    BY DEF Init, IdleInv
  <2>3. Tells(c)
    BY <2>1 DEF Tells
  <2>4. QED
    BY <2>1, <2>2, <2>3 DEF CallInv, ServiceInv, SentInv
<1>4. QED
  BY <1>1, <1>2, <1>3 DEF FlightInv

LEMMA FlightNext == FlightInv /\ [Next]_vars => FlightInv'
<1> SUFFICES ASSUME FlightInv, [Next]_vars PROVE FlightInv'
  OBVIOUS
<1>1. rec \in Recs /\ ghost \in Ghosts
  BY DEF FlightInv, FlightOK
<1>2. CASE Start
  BY <1>1, <1>2, ElsewhereKeeps DEF Start, flight
<1>3. CASE Go
  <2>1. ghost' \in Ghosts /\ ghost'.runs = ghost.runs
    BY <1>1, <1>3 DEF Go, Ghosts
  <2>2. rec' \in Recs /\ wire' \subseteq wire
    BY <1>3, ClientAssumption DEF Go, Fresh, Recs
  <2>3. QED
    BY <1>3, <2>1, <2>2, ElsewhereKeeps DEF Go
<1>4. CASE Publish
  BY <1>1, <1>4, ElsewhereKeeps DEF Publish, server, flight
<1>5. ASSUME NEW r \in wire, Serve(r) PROVE FlightInv'
  BY <1>5, ServeKeeps
<1>6. ASSUME NEW r \in RecorderNodes(Graph), Discover(r) PROVE FlightInv'
  BY <1>1, <1>6, ElsewhereKeeps DEF Discover, server, flight
<1>7. CASE Connect
  BY <1>1, <1>7, ElsewhereKeeps DEF Connect, server, flight
<1>8. CASE Close
  BY <1>1, <1>8, ElsewhereKeeps DEF Close, server, flight
<1>9. ASSUME NEW t \in Threads, NEW op \in Operations, NEW selection \in Selections, Begin(t, op, selection)
      PROVE  FlightInv'
  BY <1>9, BeginKeeps
<1>10. ASSUME NEW c \in Callers, CallStep(c) PROVE FlightInv'
  BY <1>10, UnavailableKeeps, SendKeeps, ReturnKeeps, ExpireKeeps DEF CallStep
<1>11. ASSUME NEW r \in replies, TakeAnswer(r) PROVE FlightInv'
  BY <1>11, TakeAnswerKeeps
<1>12. ASSUME NEW h \in Handles, OnStatus(h) PROVE FlightInv'
  <2>1. ghost' = ghost \/ ghost' = [ghost EXCEPT !.late = ghost.late \cup {"log"}]
    BY <1>12 DEF OnStatus
  <2>2. ghost.late \cup {"log"} \in SUBSET Callbacks
    BY <1>1 DEF Ghosts, Callbacks
  <2>3. ghost' \in Ghosts /\ ghost'.runs = ghost.runs
    BY <1>1, <2>1, <2>2, LateKeeps
  <2>4. QED
    BY <1>1, <1>12, <2>3, ElsewhereKeeps DEF OnStatus, server, flight
<1>13. ASSUME NEW h \in Handles, Cancel(h) PROVE FlightInv'
  <2>1. ghost' \in Ghosts /\ ghost'.runs = ghost.runs
    BY <1>1, <1>13, DropLeaves DEF Cancel
  <2>2. QED
    BY <1>1, <1>13, <2>1, ElsewhereKeeps DEF Cancel, server, flight
<1>14. ASSUME NEW t \in Threads, WaitFor(t) PROVE FlightInv'
  <2>1. t \in Callers /\ call[t].pc = "idle" /\ UNCHANGED <<rec, replies, call, pending>>
    BY <1>14 DEF WaitFor, Resting, Callers, server
  <2>0. /\ ghost' \in Ghosts /\ ghost'.runs[t] = 0
        /\ \A d \in Callers : d # t => ghost'.runs[d] = ghost.runs[d]
    BY <1>1, <1>14, <2>1 DEF WaitFor, Ghosts, Callbacks
  <2>2. call \in [Callers -> Calls]
    BY DEF FlightInv, FlightOK
  <2>3. QED
    BY <1>14, <2>0, <2>1, <2>2, WipedKeeps DEF WaitFor
<1>15. ASSUME NEW t \in Threads, WaitEnds(t) PROVE FlightInv'
  <2>1. ghost' \in Ghosts /\ ghost'.runs = ghost.runs
    BY <1>1, <1>15, DropLeaves DEF WaitEnds
  <2>2. QED
    BY <1>1, <1>15, <2>1, ElsewhereKeeps DEF WaitEnds, server, flight
<1>16. CASE DeliverStatus
  <2>1. ghost' \in Ghosts /\ ghost'.runs = ghost.runs
    BY <1>16, LateKeeps DEF DeliverStatus
  <2>2. QED
    BY <1>1, <1>16, <2>1, ElsewhereKeeps DEF DeliverStatus, server, flight
<1>17. CASE RunCallback
  <2>1. Exec \in Callers /\ call[Exec].pc \in {"idle", "over"}
    BY <1>17 DEF RunCallback, Callers
  <2>2. /\ call' = [call EXCEPT ![Exec] = NoCall]
        /\ outcome' = [outcome EXCEPT ![Exec] = None]
        /\ Anew(Exec) /\ UNCHANGED <<rec, replies, pending>>
    BY <1>17 DEF RunCallback, Called, server
  <2>0. /\ ghost' \in Ghosts /\ ghost'.runs[Exec] = 0 /\ wire' = {r \in wire : r.by # Exec}
        /\ \A d \in Callers : d # Exec => ghost'.runs[d] = ghost.runs[d]
    BY <2>1, <2>2, AnewFacts DEF Anew
  <2>3. /\ call' \in [Callers -> Calls] /\ call'[Exec].pc = "idle"
        /\ \A d \in Callers : d # Exec => call'[d] = call[d]
    BY <2>1, <2>2 DEF FlightInv, FlightOK, Calls, NoCall
  <2>4. QED
    BY <2>0, <2>1, <2>2, <2>3, WipedKeeps
<1>18. ASSUME NEW op \in CallbackOperations, CallBack(op) PROVE FlightInv'
  <2>1. Exec \in Callers /\ op \in AllOperations /\ call[Exec].pc = "idle"
    BY <1>18, ClientAssumption DEF CallBack, Callers
  <2>2. QED
    BY <1>18, <2>1, AskKeeps DEF CallBack, server
<1>19. CASE UNCHANGED vars
  BY <1>1, <1>19, ElsewhereKeeps DEF vars, server, flight
<1>20. CASE Others
  <2>1. rec' \in Recs
    BY <1>1, <1>20 DEF Others, Recs
  <2>2. ghost' \in Ghosts /\ ghost'.runs = ghost.runs
    BY <1>1, <1>20 DEF Others, Ghosts
  <2>3. QED
    BY <1>20, <2>1, <2>2, ElsewhereKeeps DEF Others, flight
<1>21. QED
  BY <1>20, <1>2, <1>3, <1>4, <1>5, <1>6, <1>7, <1>8, <1>9, <1>10, <1>11, <1>12, <1>13, <1>14, <1>15,
     <1>16, <1>17, <1>18, <1>19 DEF Next

\* In every behaviour, for any number of threads, what a call returned
\* or raised tells how often the recorder did it.
THEOREM OutcomeCorrect == Spec => []OutcomeTellsExecution
<1>1. FlightInv => OutcomeTellsExecution
  BY DEF FlightInv, CallInv, Tells, OutcomeTellsExecution
<1>2. QED
  BY FlightInit, FlightNext, <1>1, PTL DEF Spec

\* In every behaviour the tables of pending requests hold calls that
\* somebody is still in.
THEOREM PendingCorrect == Spec => []PendingIsLive
<1>1. FlightInv => PendingIsLive
  <2> SUFFICES ASSUME FlightInv, NEW c \in pending PROVE call[c].pc = "sent"
    BY DEF PendingIsLive
  <2>1. c \in Callers /\ CallInv(c) /\ InFlight(c)
    BY DEF FlightInv, FlightOK, InFlight
  <2>2. call[c].pc \in {"idle", "service", "sent", "over"}
    BY <2>1 DEF FlightInv, FlightOK, Calls
  <2>3. QED
    BY <2>1, <2>2 DEF CallInv, IdleInv, ServiceInv
<1>2. QED
  BY FlightInit, FlightNext, <1>1, PTL DEF Spec

-----------------------------------------------------------------------------
(* What toggle() returns *)

\* What a caller's toggle left is still so, or forgotten; and so is the answer to
\* the question that followed, on its way or taken.
LeftInv ==
  /\ \A c \in Callers : ghost.left[c] \in {None, rec.paused} /\ (~up => ghost.left[c] = None)
  /\ \A r \in replies : call[r.to].service = "is_paused" => ghost.left[r.to] \in {None, r.paused}
  /\ \A c \in Callers : call[c].service = "is_paused" /\ call[c].answer # None =>
       ghost.left[c] \in {None, call[c].answer.paused}

\* A question is answered with what is so; a change makes all forget but its maker.
LEMMA ServeLeft ==
  ASSUME FlightInv, LeftInv, NEW r \in wire, Serve(r)
  PROVE  LeftInv'
<1>0. PICK refused : Served(r, refused)
  BY ServeFacts
<1>1. r \in Asks /\ up' = up /\ up /\ call' = call
  BY DEF FlightInv, FlightOK, Serve
<1>3. \A c \in Callers : ghost'.left[c] =
        IF c = r.by /\ r.waited /\ r.service = "toggle_paused" THEN rec'.paused
        ELSE IF rec'.paused # rec.paused THEN None ELSE ghost.left[c]
  <2> DEFINE left == [c \in Callers |->
               IF c = r.by /\ r.waited /\ r.service = "toggle_paused" THEN rec'.paused
               ELSE IF rec'.paused # rec.paused THEN None ELSE ghost.left[c]]
  <2>1. ghost'.left = left
    BY <1>0 DEF Served, FlightInv, FlightOK, Ghosts
  <2>2. QED
    BY <2>1
<1>4. r.service = "is_paused" => rec' = rec
  BY <1>0 DEF Served
<1>5. ASSUME NEW c \in Callers
      PROVE  ghost'.left[c] \in {None, rec'.paused} /\ (~up' => ghost'.left[c] = None)
  BY <1>1, <1>3 DEF LeftInv
<1>6. ASSUME NEW c \in Callers, c = r.by, r.waited
      PROVE  /\ call[c].service = r.service /\ call[c].answer = None
             /\ \A q \in replies : q.to # c
  <2>1. CallInv(c) /\ InFlight(c)
    BY <1>6 DEF FlightInv, InFlight
  <2>2. call[c].pc = "sent"
    BY <1>6, <2>1 DEF CallInv, IdleInv, ServiceInv, FlightInv, FlightOK, Calls
  <2>3. QED
    BY <1>6, <2>1, <2>2 DEF CallInv, SentInv
<1>7. ASSUME NEW c \in Callers, c # r.by \/ ~r.waited
      PROVE  ghost'.left[c] \in {None, ghost.left[c]}
  BY <1>3, <1>7
<1>8. ASSUME NEW q \in replies', call'[q.to].service = "is_paused"
      PROVE  ghost'.left[q.to] \in {None, q.paused}
  <2>1. CASE q \in replies
    <3>1. q.to \in Callers /\ (q.to # r.by \/ ~r.waited)
      BY <2>1, <1>6 DEF FlightInv, FlightOK, Answers
    <3>2. ghost.left[q.to] \in {None, q.paused}
      BY <2>1, <1>1, <1>8 DEF LeftInv
    <3>3. QED
      BY <3>1, <3>2, <1>7
  <2>2. CASE q \notin replies
    <3>1. PICK c \in {r.by} \cap pending :
            r.waited /\ q = [to |-> c, refused |-> refused,
                            paused |-> IF r.service = "is_paused" THEN rec'.paused ELSE None]
      BY <2>2, <1>0 DEF Served
    <3>2. c \in Callers /\ c = r.by /\ q.to = c
      BY <3>1 DEF FlightInv, FlightOK
    <3>3. r.service = "is_paused"
      BY <3>1, <3>2, <1>1, <1>6, <1>8
    <3>4. q.paused = rec'.paused
      BY <3>1, <3>3
    <3>5. QED
      BY <3>2, <3>4, <1>5
  <2>3. QED
    BY <2>1, <2>2
<1>9. ASSUME NEW c \in Callers, call'[c].service = "is_paused", call'[c].answer # None
      PROVE  ghost'.left[c] \in {None, call'[c].answer.paused}
  <2>1. c # r.by \/ ~r.waited
    BY <1>1, <1>6, <1>9
  <2>2. QED
    BY <2>1, <1>1, <1>7, <1>9 DEF LeftInv
<1>10. QED
  BY <1>5, <1>8, <1>9 DEF LeftInv

\* A step of one caller that forgets what its toggle left, or leaves it be; no
\* step of a caller but toggle()'s question touches what others were answered.
LEMMA CallerLeft ==
  ASSUME LeftInv, NEW c \in Callers, UNCHANGED server,
         \A r \in replies' : r \in replies /\ r.to \in Callers,
         \A d \in Callers : d # c => call'[d] = call[d] /\ ghost'.left[d] = ghost.left[d],
         ghost'.left[c] \in {None, ghost.left[c]},
         \A r \in replies' : r.to = c => ghost'.left[c] = None \/ call'[c].service = call[c].service,
         call'[c].service = "is_paused" /\ call'[c].answer # None =>
           ghost'.left[c] \in {None, call'[c].answer.paused}
  PROVE  LeftInv'
<1>1. \A d \in Callers : ghost'.left[d] \in {None, rec'.paused} /\ (~up' => ghost'.left[d] = None)
  BY DEF LeftInv, server
<1>2. ASSUME NEW r \in replies', call'[r.to].service = "is_paused"
      PROVE  ghost'.left[r.to] \in {None, r.paused}
  BY <1>2 DEF LeftInv
<1>3. ASSUME NEW d \in Callers, call'[d].service = "is_paused", call'[d].answer # None
      PROVE  ghost'.left[d] \in {None, call'[d].answer.paused}
  BY <1>3 DEF LeftInv
<1>4. QED
  BY <1>1, <1>2, <1>3 DEF LeftInv

LEMMA AskLeft ==
  ASSUME FlightInv, LeftInv, NEW c \in Callers, NEW op, NEW topics,
         Ask(c, op, topics), UNCHANGED <<up, rec, replies>>
  PROVE  LeftInv'
<1>1. ghost'.left[c] = None /\ call'[c].answer = None
  BY AnewFacts DEF Ask, NoCall, FlightInv, FlightOK
<1>2. \A d \in Callers : d # c => call'[d] = call[d] /\ ghost'.left[d] = ghost.left[d]
  BY AnewFacts DEF Ask, FlightInv, FlightOK
<1>3. \A r \in replies' : r \in replies /\ r.to \in Callers
  BY DEF FlightInv, FlightOK, Answers
<1>4. QED
  BY <1>1, <1>2, <1>3, CallerLeft DEF server

LEMMA EndLeft ==
  ASSUME FlightInv, LeftInv, NEW c \in Callers, NEW kind, End(c, kind),
         UNCHANGED <<up, rec>>, replies' \subseteq replies
  PROVE  LeftInv'
<1>1. ghost'.left[c] = None
  BY DEF End, FlightInv, FlightOK, Ghosts
<1>2. \A d \in Callers : d # c => call'[d] = call[d] /\ ghost'.left[d] = ghost.left[d]
  BY DEF End, FlightInv, FlightOK, Ghosts
<1>3. \A r \in replies' : r \in replies /\ r.to \in Callers
  BY DEF FlightInv, FlightOK, Answers
<1>4. QED
  BY <1>1, <1>2, <1>3, CallerLeft DEF server

LEMMA CallStepLeft ==
  ASSUME FlightInv, LeftInv, NEW c \in Callers, CallStep(c)
  PROVE  LeftInv'
<1> \A r \in replies : r.to \in Callers
  BY DEF FlightInv, FlightOK, Answers
<1>1. CASE Unavailable(c)
  BY <1>1, EndLeft DEF Unavailable, server
<1>2. CASE Expire(c)
  BY <1>2, EndLeft DEF Expire, Abandon, server
<1>3. CASE Send(c)
  <2>1. UNCHANGED <<up, rec, replies, ghost>> /\ call' = [call EXCEPT ![c].pc = "sent"]
    BY <1>3 DEF Send, server
  <2>2. call'[c].service = call[c].service /\ call'[c].answer = call[c].answer
        /\ \A d \in Callers : d # c => call'[d] = call[d]
    BY <2>1 DEF FlightInv, FlightOK, Calls
  <2>3. ghost'.left[c] \in {None, ghost.left[c]}
    BY <2>1
  <2>4. call'[c].service = "is_paused" /\ call'[c].answer # None =>
          ghost'.left[c] \in {None, call'[c].answer.paused}
    BY <2>1, <2>2 DEF LeftInv
  <2>5. QED
    BY <2>1, <2>2, <2>3, <2>4, CallerLeft DEF server
<1>4. CASE Return(c)
  <2>1. call[c].pc = "sent" /\ call[c].answer # None /\ UNCHANGED <<up, rec, replies>>
    BY <1>4 DEF Return, server
  <2>2. CASE \E kind : End(c, kind)
    BY <2>1, <2>2, EndLeft
  <2>3. CASE /\ call' = [call EXCEPT ![c] = [NoCall EXCEPT !.pc = "service", !.op = "toggle", !.service = "is_paused"]]
             /\ ghost' = ghost
    <3>1. call'[c].answer = None /\ \A d \in Callers : d # c => call'[d] = call[d]
      BY <2>3 DEF FlightInv, FlightOK, NoCall
    <3>2. \A r \in replies : r.to # c
      BY <2>1 DEF FlightInv, CallInv, SentInv, InFlight
    <3>3. ghost'.left[c] \in {None, ghost.left[c]}
      BY <2>3
    <3>4. QED
      BY <2>1, <2>3, <3>1, <3>2, <3>3, CallerLeft DEF server
  <2>4. QED
    BY <1>4, <2>2, <2>3 DEF Return
<1>5. QED
  BY <1>1, <1>2, <1>3, <1>4 DEF CallStep

LEMMA TakeAnswerLeft ==
  ASSUME FlightInv, LeftInv, NEW r \in replies, TakeAnswer(r)
  PROVE  LeftInv'
<1>1. /\ UNCHANGED <<up, rec, ghost>> /\ replies' = replies \ {r}
      /\ call' = [call EXCEPT ![r.to].answer = r]
  BY DEF TakeAnswer, server
<1>2. r.to \in Callers /\ \A q \in replies : q.to \in Callers
  BY DEF FlightInv, FlightOK, Answers
<1>3. /\ call'[r.to].service = call[r.to].service /\ call'[r.to].answer = r
      /\ \A d \in Callers : d # r.to => call'[d] = call[d]
  BY <1>1, <1>2 DEF FlightInv, FlightOK, Calls
<1>4. call'[r.to].service = "is_paused" => ghost'.left[r.to] \in {None, call'[r.to].answer.paused}
  BY <1>1, <1>3 DEF LeftInv
<1>5. QED
  BY <1>1, <1>2, <1>3, <1>4, CallerLeft DEF server

\* Steps that leave the recorder, the answers and the calls alone.
LEMMA QuietLeft ==
  ASSUME LeftInv, UNCHANGED <<up, rec, replies, call>>, ghost'.left = ghost.left
  PROVE  LeftInv'
BY DEF LeftInv

LEMMA WipedLeft ==
  ASSUME FlightInv, LeftInv, NEW c \in Callers,
         call' = call \/ call' = [call EXCEPT ![c] = NoCall],
         ghost'.left[c] = None, \A d \in Callers : d # c => ghost'.left[d] = ghost.left[d],
         UNCHANGED <<up, rec, replies>>
  PROVE  LeftInv'
<1>2. \A d \in Callers : d # c => call'[d] = call[d] /\ ghost'.left[d] = ghost.left[d]
  BY DEF FlightInv, FlightOK
<1>3. \A r \in replies' : r \in replies /\ r.to \in Callers
  BY DEF FlightInv, FlightOK, Answers
<1>4. QED
  BY <1>2, <1>3, CallerLeft DEF server

LEMMA LeftNext == FlightInv /\ LeftInv /\ [Next]_vars => LeftInv'
<1> SUFFICES ASSUME FlightInv, LeftInv, [Next]_vars PROVE LeftInv'
  OBVIOUS
<1>1. CASE Start
  <2>1. up' = TRUE /\ UNCHANGED <<replies, call, ghost>> /\ ~up
    BY <1>1 DEF Start, flight
  <2>2. QED
    BY <2>1 DEF LeftInv
<1>2. CASE Go
  <2>1. UNCHANGED <<replies, call>> /\ ghost' = [ghost EXCEPT !.left = [c \in Callers |-> None]]
    BY <1>2 DEF Go
  <2>2. \A c \in Callers : ghost'.left[c] = None
    BY <2>1 DEF FlightInv, FlightOK, Ghosts
  <2>3. \A r \in replies : r.to \in Callers
    BY DEF FlightInv, FlightOK, Answers
  <2>4. QED
    BY <2>1, <2>2, <2>3 DEF LeftInv
<1>3. CASE Publish \/ Close \/ DeliverStatus \/ Connect
  <2>1. CASE Publish
    BY <2>1, QuietLeft DEF Publish, server, flight
  <2>2. CASE Close
    BY <2>2, QuietLeft DEF Close, server, flight
  <2>3. CASE DeliverStatus
    BY <2>3, LateKeeps, QuietLeft DEF DeliverStatus, server, flight
  <2>4. CASE Connect
    BY <2>4, QuietLeft DEF Connect, server, flight
  <2>5. QED
    BY <1>3, <2>1, <2>2, <2>3, <2>4
<1>4. ASSUME NEW r \in wire, Serve(r) PROVE LeftInv'
  BY <1>4, ServeLeft
<1>5. ASSUME NEW r \in RecorderNodes(Graph), Discover(r) PROVE LeftInv'
  BY <1>5, QuietLeft DEF Discover, server, flight
<1>6. ASSUME NEW c \in Callers, CallStep(c) PROVE LeftInv'
  BY <1>6, CallStepLeft
<1>7. ASSUME NEW t \in Threads, NEW op \in Operations, NEW selection \in Selections, Begin(t, op, selection)
      PROVE  LeftInv'
  <2>1. t \in Callers /\ op \in AllOperations /\ UNCHANGED <<up, rec, replies>>
    BY <1>7, ClientAssumption DEF Begin, Callers, server
  <2>2. CASE \E topics : Ask(t, op, topics)
    BY <2>1, <2>2, AskLeft
  <2>3. CASE call' = call /\ Anew(t)
    BY <2>1, <2>3, AnewFacts, WipedLeft
  <2>4. QED
    BY <1>7, <2>2, <2>3 DEF Begin
<1>8. ASSUME NEW r \in replies, TakeAnswer(r) PROVE LeftInv'
  BY <1>8, TakeAnswerLeft
<1>9. ASSUME NEW h \in Handles, OnStatus(h) \/ Cancel(h) PROVE LeftInv'
  <2>1. CASE OnStatus(h)
    <3>1. ghost'.left = ghost.left
      BY <2>1 DEF OnStatus, FlightInv, FlightOK, Ghosts
    <3>2. QED
      BY <2>1, <3>1, QuietLeft DEF OnStatus, server, flight
  <2>2. CASE Cancel(h)
    <3>1. ghost'.left = ghost.left
      BY <2>2, DropLeaves DEF Cancel
    <3>2. QED
      BY <2>2, <3>1, QuietLeft DEF Cancel, server, flight
  <2>3. QED
    BY <1>9, <2>1, <2>2
<1>10. ASSUME NEW t \in Threads, WaitFor(t) PROVE LeftInv'
  <2>1. /\ t \in Callers /\ ghost'.left[t] = None
        /\ \A d \in Callers : d # t => ghost'.left[d] = ghost.left[d]
    BY <1>10 DEF WaitFor, Callers, FlightInv, FlightOK, Ghosts
  <2>2. QED
    BY <1>10, <2>1, WipedLeft DEF WaitFor, server
<1>11. ASSUME NEW t \in Threads, WaitEnds(t) PROVE LeftInv'
  BY <1>11, DropLeaves, QuietLeft DEF WaitEnds, server, flight
<1>12. CASE RunCallback
  <2>1. Exec \in Callers /\ Anew(Exec)
    BY <1>12 DEF RunCallback, Called, Callers
  <2>2. QED
    BY <1>12, <2>1, AnewFacts, WipedLeft DEF RunCallback, Called, server
<1>13. ASSUME NEW op \in CallbackOperations, CallBack(op) PROVE LeftInv'
  <2>1. Exec \in Callers
    BY DEF Callers
  <2>2. QED
    BY <1>13, <2>1, AskLeft DEF CallBack, server
<1>14. CASE UNCHANGED vars
  BY <1>14, QuietLeft DEF vars, server, flight
<1>15. CASE Others
  <2>1. UNCHANGED <<up, replies, call>>
    BY <1>15 DEF Others, flight
  <2>2. \A c \in Callers : ghost'.left[c] = IF rec'.paused = rec.paused THEN ghost.left[c] ELSE None
    BY <1>15 DEF Others, FlightInv, FlightOK, Ghosts
  <2>3. \A r \in replies : r.to \in Callers
    BY DEF FlightInv, FlightOK, Answers
  <2>4. QED
    BY <2>1, <2>2, <2>3 DEF LeftInv
<1>16. QED
  BY <1>15, <1>1, <1>2, <1>3, <1>4, <1>5, <1>6, <1>7, <1>8, <1>9, <1>10, <1>11, <1>12, <1>13, <1>14 DEF Next

\* A toggle ends well with the answer to its question, and in no other way.
LEMMA ToggleTells ==
  ASSUME FlightInv, LeftInv, [Next]_vars, NEW c \in Callers,
         call[c].op = "toggle", outcome[c] = None, outcome'[c] # None, outcome'[c].kind = "ok"
  PROVE  ghost.left[c] \in {None, call[c].answer.paused}
<1> outcome \in [Callers -> [op : AllOperations \cup {None}, kind : Raised \cup {"ok"}] \cup {None}]
  BY DEF FlightInv, FlightOK
<1>1. ASSUME NEW d \in Callers, NEW kind, End(d, kind), kind # "ok" PROVE FALSE
  BY <1>1 DEF End
<1>2. ASSUME NEW d \in Callers, outcome' = [outcome EXCEPT ![d] = None] PROVE FALSE
  BY <1>2
<1>3. ASSUME NEW d \in Callers, CallStep(d) PROVE ghost.left[c] \in {None, call[c].answer.paused}
  <2>1. CASE Unavailable(d) \/ Expire(d)
    BY <2>1, <1>1 DEF Unavailable, Expire
  <2>2. CASE Send(d)
    BY <2>2 DEF Send
  <2>3. CASE Return(d)
    <3>1. CASE ~call[d].answer.refused /\ call[d].service = "toggle_paused"
      BY <2>3, <3>1 DEF Return
    <3>2. CASE call[d].answer.refused
      BY <2>3, <3>2, <1>1 DEF Return
    <3>3. CASE ~call[d].answer.refused /\ call[d].service # "toggle_paused"
      <4>1. End(d, "ok") /\ call[d].pc = "sent" /\ call[d].answer # None
        BY <2>3, <3>3 DEF Return
      <4>2. d = c
        BY <4>1 DEF End
      <4>3. call[c].service = "is_paused"
        BY <4>1, <4>2, <3>3, ServiceFacts DEF FlightInv, CallInv, SentInv, Asked
      <4>4. QED
        BY <4>1, <4>2, <4>3 DEF LeftInv
    <3>4. QED
      BY <3>1, <3>2, <3>3
  <2>4. QED
    BY <1>3, <2>1, <2>2, <2>3 DEF CallStep
<1>4. ASSUME NEW t \in Threads, NEW op \in Operations, NEW selection \in Selections, Begin(t, op, selection)
      PROVE  FALSE
  <2>1. t \in Callers
    BY DEF Callers
  <2>2. CASE outcome' = [outcome EXCEPT ![t] = [op |-> op, kind |-> Invalid]]
    BY <2>2 DEF Invalid
  <2>3. CASE outcome' = [outcome EXCEPT ![t] = None]
    BY <2>1, <2>3, <1>2
  <2>4. QED
    BY <1>4, <2>2, <2>3 DEF Begin, Ask
<1>5. CASE \E t \in Threads : WaitFor(t)
  BY <1>5, <1>2 DEF WaitFor, Callers
<1>6. CASE RunCallback
  BY <1>6, <1>2 DEF RunCallback, Called, Callers
<1>7. CASE \E op \in CallbackOperations : CallBack(op)
  BY <1>7, <1>2 DEF CallBack, Ask, Callers
<1>8. CASE UNCHANGED outcome
  BY <1>8
<1>9. QED
  <2>1. CASE Start \/ Go \/ Publish \/ Others
    BY <1>8, <2>1 DEF Start, Go, Publish, Others, flight
  <2>2. CASE Connect \/ Close \/ DeliverStatus
    BY <1>8, <2>2 DEF Connect, Close, DeliverStatus, flight
  <2>3. CASE \E r \in wire : Serve(r)
    BY <1>8, <2>3 DEF Serve
  <2>4. CASE \E r \in RecorderNodes(Graph) : Discover(r)
    BY <1>8, <2>4 DEF Discover, flight
  <2>5. CASE \E r \in replies : TakeAnswer(r)
    BY <1>8, <2>5 DEF TakeAnswer
  <2>6. CASE \E h \in Handles : OnStatus(h) \/ Cancel(h)
    BY <1>8, <2>6 DEF OnStatus, Cancel, flight
  <2>7. CASE \E t \in Threads : WaitEnds(t)
    BY <1>8, <2>7 DEF WaitEnds, flight
  <2>8. CASE UNCHANGED vars
    BY <1>8, <2>8 DEF vars, flight
  <2>9. QED
    BY <1>3, <1>4, <1>5, <1>6, <1>7, <2>1, <2>2, <2>3, <2>4, <2>5, <2>6, <2>7, <2>8 DEF Next

\* In every behaviour toggle() returns what its own toggle left, unless somebody
\* has changed that since.
THEOREM ToggleCorrect == Spec => ToggleTellsWhatItLeft
<1> DEFINE Tell == \A c \in Callers :
       call[c].op = "toggle" /\ outcome[c] = None /\ outcome'[c] # None /\ outcome'[c].kind = "ok"
         => ghost.left[c] \in {None, call[c].answer.paused}
<1>1. Init => FlightInv /\ LeftInv
  <2>1. Init => LeftInv
    BY DEF Init, LeftInv, NoCall
  <2>2. QED
    BY <2>1, FlightInit
<1>2. FlightInv /\ LeftInv /\ [Next]_vars => (FlightInv /\ LeftInv)' /\ [Tell]_outcome
  BY FlightNext, LeftNext, ToggleTells
<1>3. QED
  BY <1>1, <1>2, PTL DEF Spec, ToggleTellsWhatItLeft

-----------------------------------------------------------------------------
(* Who is registered *)

\* What it means to take the first of something out of a sequence.
LEMMA RemoveFirstAt ==
  ASSUME NEW S, NEW s \in Seq(S), NEW e, \E i \in 1 .. Len(s) : s[i] = e
  PROVE  \E at \in 1 .. Len(s) :
           /\ s[at] = e
           /\ RemoveFirst(s, e) = SubSeq(s, 1, at - 1) \o SubSeq(s, at + 1, Len(s))
<1> DEFINE I == {i \in 1 .. Len(s) : s[i] = e}
           at == SelectInSeq(s, LAMBDA v : v = e)
<1>1. I # {} /\ I \subseteq Nat
  OBVIOUS
<1> DEFINE below == {ss \in Nat \X Nat : ss[1] < ss[2]}
<1>2. IsWellFoundedOn(below, Nat)
  BY NatLessThanWellFounded DEF OpToRel
<1>3. \E i \in I : \A j \in I : i =< j
  <2>1. \E i \in I : \A j \in I : ~ (<<j, i>> \in below)
    <3> HIDE DEF I, below
    <3> QED
      BY <1>1, <1>2, WFMin
  <2>2. \A i, j \in I : <<j, i>> \notin below => i =< j
    BY <1>1
  <2>3. QED
    BY <2>1, <2>2
<1>4. at = CHOOSE i \in I : \A j \in I : i =< j
  BY <1>1 DEF SelectInSeq, Min
<1>5. at \in I
  BY <1>3, <1>4
<1>6. RemoveFirst(s, e) = SubSeq(s, 1, at - 1) \o SubSeq(s, at + 1, Len(s))
  BY <1>1 DEF RemoveFirst, RemoveAt
<1> HIDE DEF at
<1>7. QED
  BY <1>5, <1>6

\* It leaves a sequence.
LEMMA RemoveFirstSeq ==
  ASSUME NEW S, NEW s \in Seq(S), NEW e
  PROVE  RemoveFirst(s, e) \in Seq(S)
<1>1. CASE ~ \E i \in 1 .. Len(s) : s[i] = e
  BY <1>1 DEF RemoveFirst
<1>2. CASE \E i \in 1 .. Len(s) : s[i] = e
  <2>1. PICK at \in 1 .. Len(s) : RemoveFirst(s, e) = SubSeq(s, 1, at - 1) \o SubSeq(s, at + 1, Len(s))
    BY <1>2, RemoveFirstAt
  <2>2. SubSeq(s, 1, at - 1) \in Seq(S) /\ SubSeq(s, at + 1, Len(s)) \in Seq(S)
    BY <2>1, SubSeqProperties
  <2>3. QED
    BY <2>1, <2>2, ConcatProperties
<1>3. QED
  BY <1>1, <1>2

LEMMA PlacesFinite ==
  ASSUME NEW S, NEW s \in Seq(S), NEW c
  PROVE  IsFiniteSet(Places(s, c)) /\ Cardinality(Places(s, c)) \in Nat
<1>1. Places(s, c) \subseteq 1 .. Len(s)
  BY DEF Places
<1>2. IsFiniteSet(1 .. Len(s))
  BY FS_Interval
<1>3. QED
  BY <1>1, <1>2, FS_Subset, FS_CardinalityType

LEMMA PlacesAppend ==
  ASSUME NEW S, NEW s \in Seq(S), NEW e \in S, NEW c
  PROVE  Cardinality(Places(Append(s, e), c)) = Cardinality(Places(s, c)) + (IF e = c THEN 1 ELSE 0)
<1>1. /\ Append(s, e) \in Seq(S) /\ Len(Append(s, e)) = Len(s) + 1
      /\ \A i \in 1 .. Len(s) : Append(s, e)[i] = s[i]
      /\ Append(s, e)[Len(s) + 1] = e
  BY AppendProperties
<1>2. Places(Append(s, e), c) = IF e = c THEN Places(s, c) \cup {Len(s) + 1} ELSE Places(s, c)
  <2>1. DOMAIN Append(s, e) = DOMAIN s \cup {Len(s) + 1} /\ DOMAIN s = 1 .. Len(s) /\ Len(s) \in Nat
    BY <1>1, LenProperties
  <2>2. QED
    BY <1>1, <2>1 DEF Places
<1>3. Len(s) + 1 \notin Places(s, c)
  BY LenProperties DEF Places
<1>4. IsFiniteSet(Places(s, c)) /\ Cardinality(Places(s, c)) \in Nat
  BY PlacesFinite
<1>5. Cardinality(Places(s, c) \cup {Len(s) + 1}) = Cardinality(Places(s, c)) + 1
  BY <1>3, <1>4, FS_AddElement
<1>6. QED
  BY <1>2, <1>4, <1>5

\* The places behind the one that goes move up by one.
LEMMA PlacesRemove ==
  ASSUME NEW S, NEW s \in Seq(S), NEW e, NEW c
  PROVE  Cardinality(Places(RemoveFirst(s, e), c)) =
           Cardinality(Places(s, c)) - (IF c = e /\ Places(s, c) # {} THEN 1 ELSE 0)
<1>1. CASE ~ \E i \in 1 .. Len(s) : s[i] = e
  <2>1. RemoveFirst(s, e) = s
    BY <1>1 DEF RemoveFirst
  <2>2. c = e => Places(s, c) = {}
    BY <1>1, LenProperties DEF Places
  <2>3. QED
    BY <2>1, <2>2, PlacesFinite
<1>2. CASE \E i \in 1 .. Len(s) : s[i] = e
  <2> DEFINE r == RemoveFirst(s, e)
  <2>1. PICK at \in 1 .. Len(s) : s[at] = e /\ r = SubSeq(s, 1, at - 1) \o SubSeq(s, at + 1, Len(s))
    BY <1>2, RemoveFirstAt
  <2> DEFINE a == SubSeq(s, 1, at - 1)
             b == SubSeq(s, at + 1, Len(s))
  <2>2. Len(s) \in Nat /\ DOMAIN s = 1 .. Len(s)
    BY LenProperties
  <2>3. a \in Seq(S) /\ Len(a) = at - 1 /\ \A i \in 1 .. at - 1 : a[i] = s[i]
    BY <2>2, SubSeqProperties
  <2>4. b \in Seq(S) /\ Len(b) = Len(s) - at /\ \A i \in 1 .. Len(s) - at : b[i] = s[at + i]
    <3>1. b \in Seq(S) /\ Len(b) = (IF at + 1 <= Len(s) THEN Len(s) - (at + 1) + 1 ELSE 0)
          /\ \A i \in 1 .. Len(s) - (at + 1) + 1 : b[i] = s[at + 1 + i - 1]
      BY <2>2, SubSeqProperties
    <3> HIDE DEF b
    <3>2. Len(b) = Len(s) - at
      <4>1. Len(b) = (IF at + 1 <= Len(s) THEN Len(s) - (at + 1) + 1 ELSE 0)
        BY <3>1
      <4> DEFINE n == Len(s)
                 m == Len(b)
      <4>2. n \in Nat /\ at \in 1 .. n /\ m = (IF at + 1 <= n THEN n - (at + 1) + 1 ELSE 0)
        BY <2>2, <4>1
      <4> HIDE DEF n, m
      <4>3. m = n - at
        BY <4>2
      <4>4. QED
        BY <4>3 DEF n, m
    <3>3. ASSUME NEW i \in 1 .. Len(s) - at PROVE b[i] = s[at + i]
      <4>1. at + 1 + i - 1 = at + i /\ i \in 1 .. Len(s) - (at + 1) + 1
        BY <2>2
      <4>2. b[i] = s[at + 1 + i - 1]
        BY <3>1, <4>1
      <4>3. QED
        BY <4>1, <4>2
    <3>4. QED
      BY <3>1, <3>2, <3>3
  <2> HIDE DEF a, b
  <2>5. /\ r \in Seq(S) /\ DOMAIN r = 1 .. Len(s) - 1
        /\ \A i \in 1 .. Len(s) - 1 : r[i] = IF i < at THEN s[i] ELSE s[i + 1]
    <3>1. r = a \o b
      BY <2>1 DEF a, b
    <3> HIDE DEF r
    <3>2. /\ r \in Seq(S) /\ Len(r) = Len(a) + Len(b)
          /\ \A i \in 1 .. Len(a) + Len(b) : r[i] = IF i <= Len(a) THEN a[i] ELSE b[i - Len(a)]
      BY <2>3, <2>4, <3>1, ConcatProperties
    <3>3. ASSUME NEW i \in 1 .. Len(s) - 1 PROVE r[i] = IF i < at THEN s[i] ELSE s[i + 1]
      <4> i \in 1 .. Len(a) + Len(b)
        BY <2>2, <2>3, <2>4
      <4>0. r[i] = IF i <= Len(a) THEN a[i] ELSE b[i - Len(a)]
        BY <3>2
      <4>1. CASE i < at
        <5>1. i <= Len(a) /\ i \in 1 .. at - 1
          BY <2>2, <2>3, <4>1
        <5>2. r[i] = a[i]
          BY <4>0, <5>1
        <5>3. QED
          BY <2>3, <4>1, <5>1, <5>2
      <4>2. CASE ~(i < at)
        <5>1. i - (at - 1) \in 1 .. Len(s) - at /\ at + (i - (at - 1)) = i + 1 /\ ~(i <= at - 1)
          BY <2>2, <4>2
        <5>2. r[i] = b[i - (at - 1)]
          <6>1. ~(i <= Len(a)) /\ i - Len(a) = i - (at - 1)
            BY <2>3, <5>1
          <6>2. QED
            BY <4>0, <6>1
        <5>3. QED
          BY <2>4, <4>2, <5>1, <5>2
      <4>3. QED
        BY <4>1, <4>2
    <3>4. Len(r) = Len(s) - 1
      BY <2>2, <2>3, <2>4, <3>2
    <3>5. QED
      BY <3>2, <3>3, <3>4, LenProperties
  <2> HIDE DEF r
  <2> DEFINE P == Places(r, c)
             Q == Places(s, c) \ {at}
             move == [i \in P |-> IF i < at THEN i ELSE i + 1]
  <2>6. P = {i \in 1 .. Len(s) - 1 : (IF i < at THEN s[i] ELSE s[i + 1]) = c}
    BY <2>5 DEF Places
  <2>7. Q = {i \in 1 .. Len(s) : i # at /\ s[i] = c}
    BY <2>2 DEF Places
  <2>8. move \in Bijection(P, Q)
    <3> HIDE DEF P, Q
    <3>1. \A i \in P : i \in Nat /\ move[i] \in Q
      BY <2>2, <2>6, <2>7
    <3>2. \A i, j \in P : move[i] = move[j] => i = j
      BY <2>2, <3>1
    <3>3. ASSUME NEW q \in Q PROVE \E i \in P : move[i] = q
      <4>1. CASE q < at
        <5>1. q \in P
          BY <2>2, <2>6, <2>7, <4>1
        <5>2. QED
          BY <4>1, <5>1
      <4>2. CASE ~(q < at)
        <5>1. q - 1 \in P /\ ~(q - 1 < at) /\ q - 1 + 1 = q
          BY <2>2, <2>6, <2>7, <4>2
        <5>2. QED
          BY <5>1
      <4>3. QED
        BY <4>1, <4>2
    <3>4. move \in [P -> Q]
      BY <3>1
    <3> HIDE DEF move
    <3>5. QED
      BY <3>2, <3>3, <3>4 DEF Bijection, Injection, IsInjective, Surjection
  <2>9. Cardinality(P) = Cardinality(Q)
    <3>1. IsFiniteSet(P)
      BY <2>5, PlacesFinite
    <3> HIDE DEF P, Q, move
    <3>2. QED
      BY <2>8, <3>1, FS_Bijection DEF ExistsBijection
  <2>10. at \in Places(s, c) <=> c = e
    BY <2>1, <2>2 DEF Places
  <2>11. Cardinality(Q) = Cardinality(Places(s, c)) - (IF c = e THEN 1 ELSE 0)
    <3>1. IsFiniteSet(Places(s, c)) /\ Cardinality(Places(s, c)) \in Nat
      BY PlacesFinite
    <3>2. Cardinality(Q) = IF at \in Places(s, c) THEN Cardinality(Places(s, c)) - 1 ELSE Cardinality(Places(s, c))
      BY <3>1, FS_RemoveElement
    <3>3. QED
      BY <2>10, <3>1, <3>2
  <2>12. c = e => Places(s, c) # {}
    BY <2>10
  <2>13. QED
    BY <2>9, <2>11, <2>12 DEF r
<1>3. QED
  BY <1>1, <1>2

\* Finitely many handles are live: each was made by a step.
LiveHandles == {h \in Handles : handles[h] = "live"}
HeldInv ==
  /\ callbacks \in Seq(Callbacks)
  /\ handles \in [Handles -> {"none", "live", "cancelled"}]
  /\ waiting \in [Threads -> {"no", "yes", "hit"}]
  /\ IsFiniteSet(LiveHandles)
  /\ RegisteredAsHeld

\* Nobody waits under the name of the script's callback.
LEMMA Owners ==
  /\ \A t \in Threads : t # "log" /\ CallbackOf(t) = t
  /\ \A h \in Handles : CallbackOf(h) = "log"
BY ClientAssumption DEF CallbackOf

LEMMA OnStatusHeld ==
  ASSUME HeldInv, NEW h \in Handles, OnStatus(h)
  PROVE  HeldInv'
<1>1. /\ callbacks' = Append(callbacks, "log") /\ waiting' = waiting
      /\ handles' = [handles EXCEPT ![h] = "live"] /\ handles[h] = "none"
  BY Owners DEF OnStatus, Register
<1>2. "log" \in Callbacks
  BY DEF Callbacks
<1>3. callbacks' \in Seq(Callbacks)
  BY <1>1, <1>2, AppendProperties DEF HeldInv
<1>4. LiveHandles' = LiveHandles \cup {h} /\ h \notin LiveHandles
  BY <1>1 DEF LiveHandles, HeldInv
<1>5. IsFiniteSet(LiveHandles') /\ Cardinality(LiveHandles') = Cardinality(LiveHandles) + 1
  BY <1>4, FS_AddElement DEF HeldInv
<1>6. Cardinality(Places(callbacks', "log")) = Cardinality(Places(callbacks, "log")) + 1
  BY <1>1, <1>2, PlacesAppend DEF HeldInv
<1>7. ASSUME NEW t \in Threads PROVE Cardinality(Places(callbacks', t)) = Cardinality(Places(callbacks, t))
  <2>1. Cardinality(Places(callbacks', t)) = Cardinality(Places(callbacks, t)) + (IF "log" = t THEN 1 ELSE 0)
    BY <1>1, <1>2, PlacesAppend DEF HeldInv
  <2>2. Cardinality(Places(callbacks, t)) \in Nat
    BY PlacesFinite DEF HeldInv
  <2>3. QED
    BY <2>1, <2>2, Owners
<1>8. RegisteredAsHeld'
  BY <1>1, <1>5, <1>6, <1>7 DEF RegisteredAsHeld, HeldInv, LiveHandles
<1>9. QED
  BY <1>1, <1>3, <1>5, <1>8 DEF HeldInv

LEMMA CancelHeld ==
  ASSUME HeldInv, NEW h \in Handles, Cancel(h)
  PROVE  HeldInv'
<1>1. CASE handles[h] # "live"
  <2>1. UNCHANGED <<handles, callbacks, waiting>>
    BY <1>1 DEF Cancel
  <2>2. QED
    BY <2>1 DEF HeldInv, RegisteredAsHeld, LiveHandles
<1>2. CASE handles[h] = "live"
  <2>1. /\ callbacks' = RemoveFirst(callbacks, "log") /\ waiting' = waiting
        /\ handles' = [handles EXCEPT ![h] = "cancelled"]
    BY <1>2, Owners DEF Cancel, Drop
  <2>2. callbacks' \in Seq(Callbacks)
    BY <2>1, RemoveFirstSeq DEF HeldInv
  <2>3. LiveHandles' = LiveHandles \ {h} /\ h \in LiveHandles
    BY <1>2, <2>1 DEF LiveHandles, HeldInv
  <2>4. IsFiniteSet(LiveHandles') /\ Cardinality(LiveHandles') = Cardinality(LiveHandles) - 1
    BY <2>3, FS_RemoveElement DEF HeldInv
  <2>5. Places(callbacks, "log") # {}
    <3>1. Cardinality(LiveHandles) # 0
      BY <2>3, FS_EmptySet DEF HeldInv
    <3>2. Cardinality(Places(callbacks, "log")) # 0
      BY <3>1 DEF HeldInv, RegisteredAsHeld, LiveHandles
    <3>3. QED
      BY <3>2, FS_EmptySet
  <2>6. Cardinality(Places(callbacks', "log")) = Cardinality(Places(callbacks, "log")) - 1
    BY <2>1, <2>5, PlacesRemove DEF HeldInv
  <2>7. ASSUME NEW t \in Threads PROVE Cardinality(Places(callbacks', t)) = Cardinality(Places(callbacks, t))
    <3>1. Cardinality(Places(callbacks', t)) = Cardinality(Places(callbacks, t))
            - (IF t = "log" /\ Places(callbacks, t) # {} THEN 1 ELSE 0)
      BY <2>1, PlacesRemove DEF HeldInv
    <3>2. Cardinality(Places(callbacks, t)) \in Nat
      BY PlacesFinite DEF HeldInv
    <3>3. QED
      BY <3>1, <3>2, Owners
  <2>8. RegisteredAsHeld'
    BY <2>1, <2>4, <2>6, <2>7 DEF RegisteredAsHeld, HeldInv, LiveHandles
  <2>9. QED
    BY <2>1, <2>2, <2>4, <2>8 DEF HeldInv
<1>3. QED
  BY <1>1, <1>2

LEMMA WaitForHeld ==
  ASSUME HeldInv, NEW t \in Threads, WaitFor(t)
  PROVE  HeldInv'
<1>1. waiting' = [waiting EXCEPT ![t] = "yes"]
  BY DEF WaitFor
<1>2. callbacks' = Append(callbacks, t) /\ handles' = handles /\ waiting[t] = "no"
  BY Owners DEF WaitFor, Register, Resting
<1>3. t \in Callbacks /\ "log" # t
  BY Owners DEF Callbacks
<1>4. callbacks' \in Seq(Callbacks)
  BY <1>2, <1>3, AppendProperties DEF HeldInv
<1>5. ASSUME NEW c \in Callbacks
      PROVE  Cardinality(Places(callbacks', c)) = Cardinality(Places(callbacks, c)) + (IF t = c THEN 1 ELSE 0)
  BY <1>2, <1>3, PlacesAppend DEF HeldInv
<1>6. \A c \in Callbacks : Cardinality(Places(callbacks, c)) \in Nat
  BY PlacesFinite DEF HeldInv
<1>7. Cardinality(Places(callbacks', "log")) = Cardinality(Places(callbacks, "log"))
  BY <1>3, <1>5, <1>6 DEF Callbacks
<1>8. ASSUME NEW u \in Threads
      PROVE  Cardinality(Places(callbacks', u)) = IF waiting'[u] = "no" THEN 0 ELSE 1
  <2>0. u \in Callbacks
    BY DEF Callbacks
  <2>1. Cardinality(Places(callbacks, u)) = IF waiting[u] = "no" THEN 0 ELSE 1
    BY DEF HeldInv, RegisteredAsHeld
  <2>2. CASE u = t
    <3>1. Cardinality(Places(callbacks', u)) = 1
      BY <1>2, <1>5, <2>0, <2>1, <2>2
    <3>2. waiting'[u] # "no"
      BY <1>1, <2>2 DEF HeldInv
    <3>3. QED
      BY <3>1, <3>2
  <2>3. CASE u # t
    <3>1. waiting'[u] = waiting[u]
      BY <1>1, <2>3 DEF HeldInv
    <3>2. QED
      BY <1>5, <1>6, <2>0, <2>1, <2>3, <3>1
  <2>4. QED
    BY <2>2, <2>3
<1>9. RegisteredAsHeld'
  BY <1>2, <1>7, <1>8 DEF RegisteredAsHeld, HeldInv
<1>10. QED
  BY <1>1, <1>2, <1>4, <1>9 DEF HeldInv, LiveHandles

LEMMA WaitEndsHeld ==
  ASSUME HeldInv, NEW t \in Threads, WaitEnds(t)
  PROVE  HeldInv'
<1>1. /\ callbacks' = RemoveFirst(callbacks, t) /\ handles' = handles
      /\ waiting' = [waiting EXCEPT ![t] = "no"] /\ waiting[t] # "no"
  BY Owners DEF WaitEnds, Drop
<1>2. callbacks' \in Seq(Callbacks)
  BY <1>1, RemoveFirstSeq DEF HeldInv
<1>3. Places(callbacks, t) # {}
  <2>1. Cardinality(Places(callbacks, t)) = 1
    BY <1>1 DEF HeldInv, RegisteredAsHeld
  <2>2. QED
    BY <2>1, FS_EmptySet
<1>4. ASSUME NEW c
      PROVE  Cardinality(Places(callbacks', c)) = Cardinality(Places(callbacks, c)) - (IF c = t THEN 1 ELSE 0)
  BY <1>1, <1>3, PlacesRemove DEF HeldInv
<1>5. \A c \in Callbacks : Cardinality(Places(callbacks, c)) \in Nat
  BY PlacesFinite DEF HeldInv
<1>6. Cardinality(Places(callbacks', "log")) = Cardinality(Places(callbacks, "log"))
  BY <1>4, <1>5, Owners DEF Callbacks
<1>7. ASSUME NEW u \in Threads
      PROVE  Cardinality(Places(callbacks', u)) = IF waiting'[u] = "no" THEN 0 ELSE 1
  <2>0. u \in Callbacks
    BY DEF Callbacks
  <2>1. Cardinality(Places(callbacks, u)) = IF waiting[u] = "no" THEN 0 ELSE 1
    BY DEF HeldInv, RegisteredAsHeld
  <2>2. CASE u = t
    <3>1. Cardinality(Places(callbacks', u)) = 0
      BY <1>1, <1>4, <2>1, <2>2
    <3>2. waiting'[u] = "no"
      BY <1>1, <2>2 DEF HeldInv
    <3>3. QED
      BY <3>1, <3>2
  <2>3. CASE u # t
    <3>1. waiting'[u] = waiting[u]
      BY <1>1, <2>3 DEF HeldInv
    <3>2. QED
      BY <1>4, <1>5, <2>0, <2>1, <2>3, <3>1
  <2>4. QED
    BY <2>2, <2>3
<1>8. RegisteredAsHeld'
  BY <1>1, <1>6, <1>7 DEF RegisteredAsHeld, HeldInv
<1>9. QED
  BY <1>1, <1>2, <1>8 DEF HeldInv, LiveHandles

\* A wait that is hit is a wait still.
LEMMA RunCallbackHeld ==
  ASSUME HeldInv, RunCallback
  PROVE  HeldInv'
<1>1. /\ UNCHANGED <<callbacks, handles>>
      /\ \/ waiting' = waiting
         \/ \E c \in Threads : waiting' = [waiting EXCEPT ![c] = IF @ = "no" THEN @ ELSE "hit"]
  BY DEF RunCallback, Called
<1>2. waiting' \in [Threads -> {"no", "yes", "hit"}]
  BY <1>1 DEF HeldInv
<1>3. \A t \in Threads : (waiting'[t] = "no") = (waiting[t] = "no")
  BY <1>1 DEF HeldInv
<1>4. RegisteredAsHeld'
  BY <1>1, <1>3 DEF HeldInv, RegisteredAsHeld
<1>5. QED
  BY <1>1, <1>2, <1>4 DEF HeldInv, LiveHandles

LEMMA HeldNext == HeldInv /\ [Next]_vars => HeldInv'
<1> SUFFICES ASSUME HeldInv, [Next]_vars PROVE HeldInv'
  OBVIOUS
<1>1. CASE UNCHANGED watch
  BY <1>1 DEF HeldInv, RegisteredAsHeld, LiveHandles, watch
<1>2. CASE UNCHANGED vars
  BY <1>1, <1>2 DEF vars
<1>3. CASE Start \/ Go \/ Others \/ Publish \/ Connect \/ Close \/ DeliverStatus
  BY <1>1, <1>3 DEF Start, Go, Others, Publish, Connect, Close, DeliverStatus
<1>4. CASE \E r \in wire : Serve(r)
  BY <1>1, <1>4 DEF Serve
<1>5. CASE \E r \in RecorderNodes(Graph) : Discover(r)
  BY <1>1, <1>5 DEF Discover
<1>6. CASE \E t \in Threads, op \in Operations, selection \in Selections : Begin(t, op, selection)
  BY <1>1, <1>6 DEF Begin
<1>7. CASE \E c \in Callers : CallStep(c)
  BY <1>1, <1>7 DEF CallStep, Unavailable, Send, Return, Expire
<1>8. CASE \E r \in replies : TakeAnswer(r)
  BY <1>1, <1>8 DEF TakeAnswer
<1>9. CASE \E op \in CallbackOperations : CallBack(op)
  BY <1>1, <1>9 DEF CallBack
<1>10. CASE \E h \in Handles : OnStatus(h) \/ Cancel(h)
  BY <1>10, OnStatusHeld, CancelHeld
<1>11. CASE \E t \in Threads : WaitFor(t) \/ WaitEnds(t)
  BY <1>11, WaitForHeld, WaitEndsHeld
<1>12. CASE RunCallback
  BY <1>12, RunCallbackHeld
<1>13. QED
  BY <1>2, <1>3, <1>4, <1>5, <1>6, <1>7, <1>8, <1>9, <1>10, <1>11, <1>12 DEF Next

LEMMA HeldInit == Init => HeldInv
<1> SUFFICES ASSUME Init PROVE HeldInv
  OBVIOUS
<1>1. callbacks = <<>> /\ handles = [h \in Handles |-> "none"] /\ waiting = [t \in Threads |-> "no"]
  BY DEF Init
<1>2. LiveHandles = {} /\ \A c : Places(callbacks, c) = {}
  BY <1>1 DEF LiveHandles, Places
<1>3. Cardinality(LiveHandles) = 0 /\ IsFiniteSet(LiveHandles) /\ \A c : Cardinality(Places(callbacks, c)) = 0
  BY <1>2, FS_EmptySet
<1>4. RegisteredAsHeld
  BY <1>1, <1>3 DEF RegisteredAsHeld, LiveHandles
<1>5. callbacks \in Seq(Callbacks)
  BY <1>1
<1>6. QED
  BY <1>1, <1>3, <1>4, <1>5 DEF HeldInv

\* In every behaviour, for any number of handles and threads, a callback is
\* registered exactly as often as a live handle or a wait in progress holds it.
THEOREM HeldCorrect == Spec => []RegisteredAsHeld
<1>1. HeldInv => RegisteredAsHeld
  BY DEF HeldInv
<1>2. QED
  BY <1>1, HeldInit, HeldNext, PTL DEF Spec

-----------------------------------------------------------------------------
(* Who is told of a status *)

\* The script's callback keeps a status only while it is registered, and has the
\* latest, and a wait is over that it satisfies, unless the fan-out has still to
\* come to it or it has registered since.
SeenInv ==
  /\ callbacks \in Seq(Callbacks) /\ todo \in Seq(Callbacks)
  /\ seen # None => Contains(callbacks, "log")
  /\ seen \in {payload, None} \/ Contains(todo, "log")
  /\ Contains(callbacks, "log") /\ "log" \notin ghost.late => seen = payload \/ Contains(todo, "log")
  /\ \A t \in Threads : payload = FALSE /\ waiting[t] = "yes" /\ t \notin ghost.late => Contains(todo, t)

LEMMA ContainsPlaces ==
  ASSUME NEW S, NEW s \in Seq(S), NEW c
  PROVE  (Contains(s, c) <=> Places(s, c) # {}) /\ (Contains(s, c) <=> c \in Range(s))
BY LenProperties DEF Contains, Places, Range

\* Who waits is registered.
LEMMA WaitersRegistered ==
  ASSUME HeldInv, NEW t \in Threads, waiting[t] # "no"
  PROVE  Contains(callbacks, t)
<1>1. Cardinality(Places(callbacks, t)) = 1
  BY DEF HeldInv, RegisteredAsHeld
<1>2. Places(callbacks, t) # {}
  BY <1>1, FS_EmptySet
<1>3. QED
  BY <1>2, ContainsPlaces DEF HeldInv

\* What remains after one is taken out was there before.
LEMMA RemoveFirstContains ==
  ASSUME NEW S, NEW s \in Seq(S), NEW e, NEW c, Contains(RemoveFirst(s, e), c)
  PROVE  Contains(s, c)
<1>1. RemoveFirst(s, e) \in Seq(S)
  BY RemoveFirstSeq
<1>2. Places(RemoveFirst(s, e), c) # {}
  BY <1>1, ContainsPlaces
<1>3. IsFiniteSet(Places(RemoveFirst(s, e), c)) /\ IsFiniteSet(Places(s, c))
      /\ Cardinality(Places(s, c)) \in Nat /\ Cardinality(Places(RemoveFirst(s, e), c)) \in Nat
  BY <1>1, PlacesFinite
<1>4. Cardinality(Places(RemoveFirst(s, e), c)) # 0
  BY <1>2, <1>3, FS_EmptySet
<1>5. Cardinality(Places(RemoveFirst(s, e), c)) =
           Cardinality(Places(s, c)) - (IF c = e /\ Places(s, c) # {} THEN 1 ELSE 0)
  BY PlacesRemove
<1>6. Cardinality(Places(s, c)) # 0
  BY <1>3, <1>4, <1>5
<1>7. Places(s, c) # {}
  BY <1>6, FS_EmptySet
<1>8. QED
  BY <1>7, ContainsPlaces

\* One more in the list.
LEMMA AppendContains ==
  ASSUME NEW S, NEW s \in Seq(S), NEW e \in S, NEW c
  PROVE  Contains(Append(s, e), c) <=> Contains(s, c) \/ c = e
<1>1. /\ Append(s, e) \in Seq(S) /\ Len(Append(s, e)) = Len(s) + 1
      /\ \A i \in 1 .. Len(s) : Append(s, e)[i] = s[i]
      /\ Append(s, e)[Len(s) + 1] = e
  BY AppendProperties
<1>2. Len(s) \in Nat
  BY LenProperties
<1>3. QED
  BY <1>1, <1>2 DEF Contains

\* Dropping: who is registered still, and was told or waits, is as before.
LEMMA DropKeeps ==
  ASSUME FlightInv, HeldInv, HeldInv', SeenInv, NEW owner, Drop(owner), UNCHANGED <<todo, payload>>,
         \A t \in Threads : waiting'[t] \in {waiting[t], "no"}
  PROVE  SeenInv'
<1>1. callbacks' \in Seq(Callbacks)
  BY RemoveFirstSeq DEF SeenInv, Drop
<1>2. seen' = (IF Contains(callbacks', "log") THEN seen ELSE None)
  BY DEF Drop
<1>3. ghost'.late = ghost.late \cap Range(callbacks')
  BY DEF Drop, FlightInv, FlightOK, Ghosts
<1>4. Contains(callbacks', "log") => Contains(callbacks, "log") /\ seen' = seen /\ "log" \in Range(callbacks')
  BY <1>1, <1>2, RemoveFirstContains, ContainsPlaces DEF SeenInv, Drop
<1>5. ASSUME NEW t \in Threads, waiting'[t] = "yes"
      PROVE  waiting[t] = "yes" /\ t \in Range(callbacks')
  <2>1. Contains(callbacks', t)
    <3>1. Cardinality(Places(callbacks', t)) = 1
      BY <1>5 DEF HeldInv, RegisteredAsHeld
    <3>2. Places(callbacks', t) # {}
      BY <3>1, FS_EmptySet
    <3>3. QED
      BY <1>1, <3>2, ContainsPlaces
  <2>2. QED
    BY <1>1, <1>5, <2>1, ContainsPlaces
<1>6. QED
  BY <1>1, <1>2, <1>3, <1>4, <1>5 DEF SeenInv

LEMMA OnStatusSeen ==
  ASSUME FlightInv, SeenInv, NEW h \in Handles, OnStatus(h)
  PROVE  SeenInv'
<1>1. /\ callbacks' = Append(callbacks, "log") /\ UNCHANGED <<waiting, todo, payload, seen>>
      /\ "log" \in Callbacks
  BY Owners DEF OnStatus, Register, fan, Callbacks
<1>2. /\ callbacks' \in Seq(Callbacks)
      /\ \A c : Contains(callbacks', c) <=> Contains(callbacks, c) \/ c = "log"
  BY <1>1, AppendProperties, AppendContains DEF SeenInv
<1>3. /\ Contains(callbacks, "log") => ghost' = ghost
      /\ ~Contains(callbacks, "log") => ghost'.late = ghost.late \cup {"log"}
  BY DEF OnStatus, FlightInv, FlightOK, Ghosts
<1>4. QED
  BY <1>1, <1>2, <1>3 DEF SeenInv

LEMMA WaitForSeen ==
  ASSUME FlightInv, HeldInv, SeenInv, NEW t \in Threads, WaitFor(t)
  PROVE  SeenInv'
<1>1. /\ callbacks' = Append(callbacks, t) /\ UNCHANGED <<todo, payload, seen>>
      /\ waiting' = [waiting EXCEPT ![t] = "yes"] /\ t \in Callbacks /\ t # "log"
  BY Owners DEF WaitFor, Register, fan, Callbacks
<1>2. /\ callbacks' \in Seq(Callbacks)
      /\ \A c : Contains(callbacks', c) <=> Contains(callbacks, c) \/ c = t
  BY <1>1, AppendProperties, AppendContains DEF SeenInv
<1>3. ghost'.late = ghost.late \cup {t}
  BY DEF WaitFor, FlightInv, FlightOK, Ghosts
<1>4. \A u \in Threads : u # t => waiting'[u] = waiting[u]
  BY <1>1 DEF HeldInv
<1>5. QED
  BY <1>1, <1>2, <1>3, <1>4 DEF SeenInv

LEMMA DeliverSeen ==
  ASSUME FlightInv, HeldInv, SeenInv, DeliverStatus
  PROVE  SeenInv'
<1>1. todo' = callbacks /\ UNCHANGED <<callbacks, waiting, seen>> /\ ghost'.late = {}
  BY DEF DeliverStatus, watch, FlightInv, FlightOK, Ghosts
<1>2. \A t \in Threads : waiting[t] = "yes" => Contains(callbacks, t)
  BY WaitersRegistered
<1>3. QED
  BY <1>1, <1>2 DEF SeenInv

LEMMA RunCallbackSeen ==
  ASSUME FlightInv, HeldInv, SeenInv, RunCallback
  PROVE  SeenInv'
<1>1. /\ todo # <<>> /\ todo' = Tail(todo) /\ UNCHANGED <<callbacks, payload>>
      /\ seen' = IF Head(todo) = "log" /\ Contains(callbacks, Head(todo)) THEN payload ELSE seen
      /\ waiting' = IF Head(todo) \in Threads /\ ~payload
                    THEN [waiting EXCEPT ![Head(todo)] = IF @ = "no" THEN @ ELSE "hit"] ELSE waiting
      /\ Anew(Exec)
  BY DEF RunCallback, Called
<1>2. /\ Tail(todo) \in Seq(Callbacks) /\ Len(Tail(todo)) = Len(todo) - 1
      /\ \A i \in 1 .. Len(Tail(todo)) : Tail(todo)[i] = todo[i + 1]
      /\ Head(todo) = todo[1]
  BY <1>1, HeadTailProperties DEF SeenInv
<1>3. ASSUME NEW c, Head(todo) # c, Contains(todo, c) PROVE Contains(todo', c)
  <2>1. PICK i \in 1 .. Len(todo) : todo[i] = c
    BY <1>3 DEF Contains
  <2>2. i # 1
    BY <1>2, <1>3, <2>1
  <2>3. i - 1 \in 1 .. Len(Tail(todo))
    BY <2>2, <1>2, LenProperties DEF SeenInv
  <2>4. Tail(todo)[i - 1] = c
    BY <2>1, <2>3, <1>2
  <2>5. QED
    BY <1>1, <2>3, <2>4 DEF Contains
<1>4. ghost'.late = ghost.late
  BY <1>1 DEF Anew, FlightInv, FlightOK, Ghosts
<1>5. ASSUME NEW t \in Threads, payload' = FALSE, waiting'[t] = "yes", t \notin ghost'.late
      PROVE  Contains(todo', t)
  <2>1. Head(todo) # t /\ waiting[t] = "yes"
    BY <1>1, <1>5 DEF HeldInv
  <2>2. QED
    BY <2>1, <1>1, <1>3, <1>4, <1>5 DEF SeenInv
<1>6. /\ seen' # None => Contains(callbacks', "log")
      /\ seen' \in {payload', None} \/ Contains(todo', "log")
      /\ Contains(callbacks', "log") /\ "log" \notin ghost'.late => seen' = payload' \/ Contains(todo', "log")
  <2>1. CASE Head(todo) = "log"
    BY <1>1, <2>1 DEF SeenInv
  <2>2. CASE Head(todo) # "log"
    BY <1>1, <1>3, <1>4, <2>2 DEF SeenInv
  <2>3. QED
    BY <2>1, <2>2
<1>7. QED
  BY <1>1, <1>2, <1>5, <1>6 DEF SeenInv

LEMMA SeenNext == FlightInv /\ HeldInv /\ HeldInv' /\ SeenInv /\ [Next]_vars => SeenInv'
<1> SUFFICES ASSUME FlightInv, HeldInv, HeldInv', SeenInv, [Next]_vars PROVE SeenInv'
  OBVIOUS
<1>0. ghost \in Ghosts
  BY DEF FlightInv, FlightOK
<1>1. CASE UNCHANGED <<callbacks, waiting, todo, payload, seen>> /\ ghost'.late = ghost.late
  BY <1>1 DEF SeenInv
<1>2. ASSUME NEW h \in Handles, OnStatus(h) PROVE SeenInv'
  BY <1>2, OnStatusSeen
<1>3. ASSUME NEW h \in Handles, Cancel(h) PROVE SeenInv'
  <2>1. CASE handles[h] = "live"
    <3>1. \A t \in Threads : waiting'[t] \in {waiting[t], "no"}
      BY <1>3 DEF Cancel
    <3>2. QED
      BY <1>3, <2>1, <3>1, DropKeeps DEF Cancel
  <2>2. CASE handles[h] # "live"
    BY <1>1, <1>3, <2>2 DEF Cancel
  <2>3. QED
    BY <2>1, <2>2
<1>4. ASSUME NEW t \in Threads, WaitFor(t) PROVE SeenInv'
  BY <1>4, WaitForSeen
<1>5. ASSUME NEW t \in Threads, WaitEnds(t) PROVE SeenInv'
  <2>1. \A u \in Threads : waiting'[u] \in {waiting[u], "no"}
    BY <1>5 DEF WaitEnds, HeldInv
  <2>2. QED
    BY <1>5, <2>1, DropKeeps DEF WaitEnds
<1>6. CASE DeliverStatus
  BY <1>6, DeliverSeen
<1>7. CASE RunCallback
  BY <1>7, RunCallbackSeen
<1>8. QED
  <2>1. CASE UNCHANGED vars
    BY <1>1, <2>1 DEF vars, watch, fan
  <2>2. CASE Start \/ Go \/ Others \/ Publish \/ Connect \/ Close
    <3>1. CASE Start
      BY <1>1, <3>1 DEF Start, watch, fan
    <3>2. CASE Go
      BY <1>0, <1>1, <3>2 DEF Go, watch, fan, Ghosts
    <3>3. CASE Others
      BY <1>0, <1>1, <3>3 DEF Others, watch, fan, Ghosts
    <3>4. CASE Publish
      BY <1>1, <3>4 DEF Publish, watch, fan
    <3>5. CASE Connect
      BY <1>1, <3>5 DEF Connect, watch, fan
    <3>6. CASE Close
      BY <1>1, <3>6 DEF Close, watch, fan
    <3>7. QED
      BY <2>2, <3>1, <3>2, <3>3, <3>4, <3>5, <3>6
  <2>3. CASE \E r \in wire : Serve(r)
    <3>1. PICK r \in wire : Serve(r)
      BY <2>3
    <3>2. PICK refused : Served(r, refused)
      BY <3>1, ServeFacts
    <3>3. ghost'.late = ghost.late
      BY <1>0, <3>2 DEF Served, Ghosts
    <3>4. QED
      BY <1>1, <3>1, <3>3 DEF Serve, watch, fan
  <2>4. CASE \E r \in RecorderNodes(Graph) : Discover(r)
    BY <1>1, <2>4 DEF Discover, watch, fan
  <2>5. CASE \E t \in Threads, op \in Operations, selection \in Selections : Begin(t, op, selection)
    <3>1. PICK t \in Threads, op \in Operations, selection \in Selections : Begin(t, op, selection)
      BY <2>5
    <3>2. Anew(t)
      BY <3>1 DEF Begin, Ask
    <3>3. ghost'.late = ghost.late
      BY <1>0, <3>2 DEF Anew, Ghosts
    <3>4. QED
      BY <1>1, <3>1, <3>3 DEF Begin, watch, fan
  <2>6. CASE \E c \in Callers : CallStep(c)
    <3> SUFFICES ASSUME NEW c \in Callers, CallStep(c) PROVE SeenInv'
      BY <2>6
    <3>0. ASSUME NEW kind, End(c, kind) PROVE ghost'.late = ghost.late
      BY <1>0, <3>0 DEF End, Ghosts
    <3>1. CASE Unavailable(c)
      BY <1>1, <3>0, <3>1 DEF Unavailable, watch, fan
    <3>2. CASE Send(c)
      BY <1>1, <3>2 DEF Send, watch, fan
    <3>3. CASE Return(c)
      <4>1. ghost'.late = ghost.late
        BY <3>0, <3>3 DEF Return
      <4>2. QED
        BY <1>1, <3>3, <4>1 DEF Return, watch, fan
    <3>4. CASE Expire(c)
      BY <1>1, <3>0, <3>4 DEF Expire, watch, fan
    <3>5. QED
      BY <3>1, <3>2, <3>3, <3>4 DEF CallStep
  <2>7. CASE \E r \in replies : TakeAnswer(r)
    BY <1>1, <2>7 DEF TakeAnswer, watch, fan
  <2>8. CASE \E op \in CallbackOperations : CallBack(op)
    <3>1. PICK op \in CallbackOperations : CallBack(op)
      BY <2>8
    <3>2. ghost'.late = ghost.late
      BY <1>0, <3>1 DEF CallBack, Ask, Anew, Ghosts
    <3>3. QED
      BY <1>1, <3>1, <3>2 DEF CallBack, watch, fan
  <2>9. QED
    BY <1>2, <1>3, <1>4, <1>5, <1>6, <1>7, <2>1, <2>2, <2>3, <2>4, <2>5, <2>6, <2>7, <2>8 DEF Next

LEMMA SeenInit == Init => SeenInv
<1> SUFFICES ASSUME Init PROVE SeenInv
  OBVIOUS
<1>1. callbacks = <<>> /\ todo = <<>> /\ seen = None /\ payload = None
  BY DEF Init
<1>2. ~Contains(callbacks, "log")
  BY <1>1, EmptySeq DEF Contains
<1>3. \A t \in Threads : waiting[t] = "no"
  BY DEF Init
<1>4. QED
  BY <1>1, <1>2, <1>3, EmptySeq DEF SeenInv

\* In every behaviour, once a fan-out is over, the script's callback has the last
\* status delivered and no wait it satisfies goes on, but those registered since:
\* whatever ran before it, raised, was cancelled or registered meanwhile.
THEOREM WatchCorrect == Spec => []NobodyLeftBehind
<1>1. SeenInv => NobodyLeftBehind
  <2> SUFFICES ASSUME SeenInv, todo = <<>>
               PROVE  /\ seen \in {payload, None}
                      /\ Contains(callbacks, "log") /\ "log" \notin ghost.late => seen = payload
                      /\ payload = FALSE => \A t \in Threads \ ghost.late : waiting[t] # "yes"
    BY DEF NobodyLeftBehind
  <2>1. \A c : ~Contains(todo, c)
    BY EmptySeq DEF Contains
  <2>2. QED
    BY <2>1 DEF SeenInv
<1>2. FlightInv /\ HeldInv /\ SeenInv /\ [Next]_vars => (FlightInv /\ HeldInv /\ SeenInv)'
  BY FlightNext, HeldNext, SeenNext
<1>3. QED
  BY FlightInit, HeldInit, SeenInit, <1>1, <1>2, PTL DEF Spec

-----------------------------------------------------------------------------
(* Which recorder *)

\* The name asked for is one it may be, and what has been found runs.
FoundInv ==
  /\ connection = [asked |-> connection.asked, found |-> connection.found, name |-> connection.name]
  /\ connection.asked \in Names \cup {None}
  /\ connection.found \subseteq RecorderNodes(Graph)

LEMMA ConnectionSteps ==
  ASSUME [Next]_vars
  PROVE  connection' = connection \/ Connect \/ \E r \in RecorderNodes(Graph) : Discover(r)
<1>1. CASE Start \/ Go \/ Others \/ Publish \/ Close
  BY <1>1 DEF Start, Go, Others, Publish, Close
<1>2. CASE DeliverStatus
  BY <1>2 DEF DeliverStatus
<1>3. CASE RunCallback
  BY <1>3 DEF RunCallback
<1>4. ASSUME NEW c \in Callers, CallStep(c) PROVE connection' = connection
  <2>1. CASE Unavailable(c)
    BY <2>1 DEF Unavailable
  <2>2. CASE Send(c)
    BY <2>2 DEF Send
  <2>3. CASE Return(c)
    BY <2>3 DEF Return
  <2>4. CASE Expire(c)
    BY <2>4 DEF Expire
  <2>5. QED
    BY <1>4, <2>1, <2>2, <2>3, <2>4 DEF CallStep
<1>5. ASSUME NEW t \in Threads, WaitFor(t) \/ WaitEnds(t) PROVE connection' = connection
  BY <1>5 DEF WaitFor, WaitEnds
<1>6. ASSUME NEW h \in Handles, OnStatus(h) \/ Cancel(h) PROVE connection' = connection
  BY <1>6 DEF OnStatus, Cancel
<1>7. ASSUME NEW r \in wire, Serve(r) PROVE connection' = connection
  BY <1>7 DEF Serve
<1>8. ASSUME NEW r \in replies, TakeAnswer(r) PROVE connection' = connection
  BY <1>8 DEF TakeAnswer
<1>9. ASSUME NEW t \in Threads, NEW op \in Operations, NEW selection \in Selections, Begin(t, op, selection)
      PROVE  connection' = connection
  BY <1>9 DEF Begin
<1>10. ASSUME NEW op \in CallbackOperations, CallBack(op) PROVE connection' = connection
  BY <1>10 DEF CallBack
<1>11. CASE UNCHANGED vars
  BY <1>11 DEF vars
<1>12. QED
  BY <1>1, <1>2, <1>3, <1>4, <1>5, <1>6, <1>7, <1>8, <1>9, <1>10, <1>11 DEF Next

LEMMA FoundNext == FoundInv /\ [Next]_vars => FoundInv'
<1> SUFFICES ASSUME FoundInv, [Next]_vars PROVE FoundInv'
  OBVIOUS
<1>1. CASE connection' = connection
  BY <1>1 DEF FoundInv
<1>2. ASSUME NEW r \in RecorderNodes(Graph), Discover(r) PROVE FoundInv'
  <2>1. connection' = [asked |-> connection.asked, found |-> connection.found \cup {r},
                       name |-> connection.name]
    BY <1>2 DEF Discover, FoundInv
  <2>2. QED
    BY <2>1 DEF FoundInv
<1>3. CASE Connect
  <2>1. connection' = [asked |-> None, found |-> {}, name |-> connection'.name]
    BY <1>3 DEF Connect
  <2>2. QED
    BY <2>1 DEF FoundInv
<1>4. QED
  BY <1>1, <1>2, <1>3, ConnectionSteps

LEMMA FoundInit == Init => FoundInv
BY DEF Init, FoundInv

-----------------------------------------------------------------------------
(* Types *)

ShapeOK ==
  /\ connection.name \in {None, NotFound, Ambiguous} \cup RecorderNodes(Graph) \cup DOMAIN Spellings
  /\ up \in BOOLEAN /\ watching \in BOOLEAN /\ closed \in BOOLEAN
  /\ \A c \in Callers : call[c].op \in Operations \cup CallbackOperations \cup {None}
  /\ handles \in [Handles -> {"none", "live", "cancelled"}]
  /\ waiting \in [Threads -> {"no", "yes", "hit"}]
  /\ inbox \in BOOLEAN \cup {None} /\ payload \in BOOLEAN \cup {None} /\ seen \in BOOLEAN \cup {None}

\* A call keeps its method until it ends; toggle()'s question is part of it.
LEMMA CallStepShape ==
  ASSUME FlightInv, ShapeOK, NEW c \in Callers, CallStep(c)
  PROVE  ShapeOK'
<1>1. /\ UNCHANGED <<connection, up, watching, closed, handles, waiting, inbox, payload, seen>>
  BY DEF CallStep, Unavailable, Send, Return, Expire, server, feed, watch, fan
<1>2. call \in [Callers -> Calls]
  BY DEF FlightInv, FlightOK
<1>3. \A d \in Callers : d # c => call'[d] = call[d]
  BY <1>2 DEF CallStep, Unavailable, Send, Return, Expire, End
<1>4. call'[c].op \in {call[c].op, None}
  <2>1. ASSUME NEW kind, End(c, kind) PROVE call'[c].op = None
    BY <1>2, <2>1 DEF End, NoCall
  <2>2. CASE Unavailable(c) \/ Expire(c)
    BY <2>1, <2>2 DEF Unavailable, Expire
  <2>3. CASE Send(c)
    BY <1>2, <2>3 DEF Send, Calls
  <2>4. CASE Return(c)
    <3>1. call[c].pc = "sent"
      BY <2>4 DEF Return
    <3>2. CASE ~call[c].answer.refused /\ call[c].service = "toggle_paused"
      <4>1. call[c].op = "toggle"
        BY <3>1, <3>2, ServiceFacts DEF FlightInv, CallInv, SentInv, Asked
      <4>2. call'[c].op = "toggle"
        BY <1>2, <2>4, <3>2 DEF Return, NoCall
      <4>3. QED
        BY <4>1, <4>2
    <3>3. CASE ~(~call[c].answer.refused /\ call[c].service = "toggle_paused")
      BY <2>1, <2>4, <3>3 DEF Return
    <3>4. QED
      BY <3>2, <3>3
  <2>5. QED
    BY <2>2, <2>3, <2>4 DEF CallStep
<1>5. QED
  BY <1>1, <1>3, <1>4 DEF ShapeOK

LEMMA ShapeNext == FlightInv /\ FoundInv /\ ShapeOK /\ [Next]_vars => ShapeOK'
<1> SUFFICES ASSUME FlightInv, FoundInv, ShapeOK, [Next]_vars PROVE ShapeOK'
  OBVIOUS
<1> call \in [Callers -> Calls] /\ rec \in Recs /\ rec.recording \in BOOLEAN
  BY DEF FlightInv, FlightOK, Recs
<1>1. CASE Start
  BY <1>1 DEF ShapeOK, Start, flight, feed, watch, fan
<1>2. CASE Go
  BY <1>2 DEF ShapeOK, Go, feed, watch, fan
<1>3. CASE Publish
  BY <1>3 DEF ShapeOK, Publish, server, flight, watch, fan
<1>4. ASSUME NEW r \in wire, Serve(r) PROVE ShapeOK'
  BY <1>4 DEF ShapeOK, Serve, feed, watch, fan
<1>5. ASSUME NEW r \in RecorderNodes(Graph), Discover(r) PROVE ShapeOK'
  <2>1. connection'.name = connection.name
    BY <1>5 DEF Discover, FoundInv
  <2>2. QED
    BY <1>5, <2>1 DEF ShapeOK, Discover, server, flight, feed, watch, fan
<1>6. CASE Connect
  <2> DEFINE asked == connection.asked
             found == connection.found
             chosen == ChooseRecorder(found, asked)
  <2>1. chosen \in {NotFound, Ambiguous} \cup RecorderNodes(Graph) \cup DOMAIN Spellings
    <3>1. asked # None => NodeName(asked) \in DOMAIN Spellings
      BY NameAssumption DEF NodeName, FoundInv
    <3>2. found # {} => (CHOOSE r \in found : TRUE) \in RecorderNodes(Graph)
      BY DEF FoundInv
    <3>3. QED
      BY <3>1, <3>2 DEF ChooseRecorder
  <2>2. connection'.name = chosen /\ closed' = (chosen \in {NotFound, Ambiguous})
        /\ UNCHANGED <<server, flight, feed, watch, fan>>
    BY <1>6 DEF Connect
  <2> HIDE DEF chosen
  <2>3. QED
    BY <2>1, <2>2 DEF ShapeOK, server, flight, feed, watch, fan
<1>7. CASE Close
  BY <1>7 DEF ShapeOK, Close, server, flight, feed, watch, fan
<1>8. ASSUME NEW t \in Threads, NEW op \in Operations, NEW selection \in Selections, Begin(t, op, selection)
      PROVE  ShapeOK'
  <2>1. \A c \in Callers : call'[c].op \in {call[c].op, op}
    BY <1>8 DEF Begin, Ask, NoCall
  <2>2. QED
    BY <1>8, <2>1 DEF ShapeOK, Begin, server, feed, watch, fan
<1>9. ASSUME NEW c \in Callers, CallStep(c) PROVE ShapeOK'
  BY <1>9, CallStepShape
<1>10. ASSUME NEW r \in replies, TakeAnswer(r) PROVE ShapeOK'
  <2>1. \A c \in Callers : call'[c].op = call[c].op
    BY <1>10 DEF TakeAnswer, Calls
  <2>2. QED
    BY <1>10, <2>1 DEF ShapeOK, TakeAnswer, server, feed, watch, fan
<1>11. ASSUME NEW h \in Handles, OnStatus(h) PROVE ShapeOK'
  BY <1>11 DEF ShapeOK, OnStatus, Register, server, flight, fan
<1>12. ASSUME NEW h \in Handles, Cancel(h) PROVE ShapeOK'
  BY <1>12 DEF ShapeOK, Cancel, Drop, server, flight, feed
<1>13. ASSUME NEW t \in Threads, WaitFor(t) PROVE ShapeOK'
  BY <1>13 DEF ShapeOK, WaitFor, Register, server, fan
<1>14. ASSUME NEW t \in Threads, WaitEnds(t) PROVE ShapeOK'
  BY <1>14 DEF ShapeOK, WaitEnds, Drop, server, flight, feed
<1>15. CASE DeliverStatus
  BY <1>15 DEF ShapeOK, DeliverStatus, server, flight, watch
<1>16. CASE RunCallback
  <2>1. \A c \in Callers : call'[c].op \in {call[c].op, None}
    BY <1>16 DEF RunCallback, Called, NoCall
  <2>2. seen' \in BOOLEAN \cup {None} /\ waiting' \in [Threads -> {"no", "yes", "hit"}]
    BY <1>16 DEF ShapeOK, RunCallback, Called
  <2>3. QED
    BY <1>16, <2>1, <2>2 DEF ShapeOK, RunCallback, server, feed
<1>17. ASSUME NEW op \in CallbackOperations, CallBack(op) PROVE ShapeOK'
  <2>1. \A c \in Callers : call'[c].op \in {call[c].op, op}
    BY <1>17 DEF CallBack, Ask, NoCall
  <2>2. QED
    BY <1>17, <2>1 DEF ShapeOK, CallBack, server, feed, watch, fan
<1>18. CASE UNCHANGED vars
  BY <1>18 DEF ShapeOK, vars, server, flight, feed, watch, fan
<1>19. CASE Others
  BY <1>19 DEF ShapeOK, Others, flight, feed, watch, fan
<1>20. QED
  BY <1>19, <1>1, <1>2, <1>3, <1>4, <1>5, <1>6, <1>7, <1>8, <1>9, <1>10, <1>11, <1>12, <1>13, <1>14, <1>15,
     <1>16, <1>17, <1>18 DEF Next

\* In every behaviour the client's variables have the shapes TypeOK gives them.
THEOREM TypeCorrect == Spec => []TypeOK
<1> DEFINE Inv == FlightInv /\ HeldInv /\ SeenInv /\ FoundInv /\ ShapeOK
<1>1. Init => Inv
  <2>1. ASSUME Init PROVE ShapeOK
    <3>1. connection.name = None /\ \A c \in Callers : call[c].op = None
      BY <2>1 DEF Init, NoCall
    <3>2. QED
      BY <2>1, <3>1 DEF Init, ShapeOK
  <2>2. QED
    BY <2>1, FlightInit, HeldInit, SeenInit, FoundInit
<1>2. Inv /\ [Next]_vars => Inv'
  BY FlightNext, HeldNext, SeenNext, FoundNext, ShapeNext
<1>3. Inv => TypeOK
  <2> SUFFICES ASSUME Inv PROVE TypeOK
    OBVIOUS
  <2>1. \A c \in Callers : call[c].pc \in {"idle", "service", "sent", "over"}
                           /\ call[c].service \in Services \cup {None}
    BY DEF FlightInv, FlightOK, Calls
  <2>2. QED
    BY <2>1 DEF TypeOK, FlightInv, FlightOK, Recs, Asks, Answers, SeenInv, ShapeOK
<1>4. QED
  BY <1>1, <1>2, <1>3, PTL DEF Spec
=============================================================================
