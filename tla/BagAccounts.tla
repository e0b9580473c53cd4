---------------------------- MODULE BagAccounts ----------------------------
(***************************************************************************)
(* What the bag's books say, for every value of Bag's constants: where     *)
(* each message went, what the counters count, what the rollovers were     *)
(* told, and how full the stage is.                                        *)
(***************************************************************************)
EXTENDS BagProofs

\* The invariants proved of every behaviour in BagProofs, for the steps below.
BaseInv == TypeOK /\ LockDiscipline /\ OrderInv

LEMMA BaseHolds == Spec => []BaseInv
BY TypeCorrect, LockDisciplined, OrderHolds, PTL DEF BaseInv

-----------------------------------------------------------------------------
(* What is open, and who is in a call.                                     *)

\* Every step keeps the bag open under whoever writes to it: the one that closes
\* it holds the lock.
LEMMA OpenStep == TypeOK /\ LockDiscipline /\ OpenWhileWriting /\ [Next]_vars => OpenWhileWriting'
<1> SUFFICES ASSUME TypeOK, LockDiscipline, OpenWhileWriting, [Next]_vars PROVE OpenWhileWriting'
  OBVIOUS
<1> USE DEF TypeOK, ThreadsOK, LockDiscipline, Holds, OpenWhileWriting, Threads, Goto, Return, Leave,
            EndBusy, threadVars, bagVars
<1>1. ASSUME NEW t \in Threads, NEW c \in Calls(t), Begin(t, c) PROVE OpenWhileWriting'
  <2>1. c # Write
    BY <1>1 DEF Calls, Write, Call
  <2>2. QED
    BY <1>1, <2>1 DEF Begin
<1>2. ASSUME NEW t \in Threads, TakeLock(t) PROVE OpenWhileWriting'
  BY <1>2 DEF TakeLock
<1>3. ASSUME NEW t \in Threads, ReturnEarly(t) PROVE OpenWhileWriting'
  BY <1>3, NoCallIsNotWrite DEF ReturnEarly
<1>4. ASSUME NEW t \in Threads, OpenBag(t) PROVE OpenWhileWriting'
  BY <1>4, NoCallIsNotWrite DEF OpenBag, ResetCounters
<1>5. ASSUME NEW t \in Threads, BeginSlow(t) PROVE OpenWhileWriting'
  BY <1>5 DEF BeginSlow, IsSlow, ReturnsEarly
<1>6. ASSUME NEW t \in Threads, BeginClose(t) PROVE OpenWhileWriting'
  BY <1>6 DEF BeginClose
<1>7. ASSUME NEW t \in Threads, MarkClosed(t) PROVE OpenWhileWriting'
  BY <1>7 DEF MarkClosed
<1>8. ASSUME NEW t \in Threads, TakeStage(t) PROVE OpenWhileWriting'
  BY <1>8, OnlyWrite, NoCallIsNotWrite DEF TakeStage, EmptyStage, AfterFlush
<1>9. ASSUME NEW t \in Threads, WriteStaged(t) PROVE OpenWhileWriting'
  BY <1>9, NoCallIsNotWrite DEF WriteStaged, AfterFlush
<1>10. ASSUME NEW t \in Threads, SlowStep(t) PROVE OpenWhileWriting'
  <2>1. pc[t] \in {"slow", "closing"} /\ lock = t /\ open' = open /\ op' = op
        /\ pc' = [pc EXCEPT ![t] = "flush"]
    BY <1>10 DEF SlowStep, CreateChannel, WriteEvent, Split, TakeSnapshot, CloseWriter
  <2>2. op[t].kind # "write" /\ Write.kind = "write"
    BY <1>10 DEF SlowStep, CreateChannel, WriteEvent, Split, TakeSnapshot, CloseWriter, Write, Call
  <2>3. QED
    BY <2>1, <2>2
<1>11. CASE Arrive
  BY <1>11 DEF Arrive
<1>12. CASE TryLock \/ TryLockFor \/ SeeBusy
  BY <1>12 DEF TryLock, TryLockFor, SeeBusy
<1>13. CASE Stage
  BY <1>13, NoCallIsNotWrite DEF Stage
<1>14. CASE DropMessage \/ FlushFirst
  BY <1>14, NoCallIsNotWrite DEF DropMessage, FlushFirst
<1>15. CASE WriteMessage
  BY <1>15, NoCallIsNotWrite DEF WriteMessage
<1>16. CASE UNCHANGED vars
  BY <1>16 DEF vars
<1>17. QED
  BY <1>1, <1>2, <1>3, <1>4, <1>5, <1>6, <1>7, <1>8, <1>9, <1>10, <1>11, <1>12, <1>13, <1>14, <1>15, <1>16
     DEF Next, QuickStep, MessageStep

\* Whatever is written goes into an open bag.
LEMMA OpenHolds == Spec => []OpenWhileWriting
<1>1. Init => OpenWhileWriting
  BY DEF Init, OpenWhileWriting, Threads, NoCall, Write, Call
<1>2. QED
  BY <1>1, OpenStep, TypeCorrect, LockDisciplined, PTL DEF Spec

-----------------------------------------------------------------------------
(* The counters.                                                           *)

\* The writer accepts an entry and it is counted, or neither.
LEMMA WriterCounts ==
  ASSUME WriterOK, BagOK, CountersDescribeThisBag, UNCHANGED logStart,
         NEW n \in Numbers, NEW hasChannel, WriteLocked(n, hasChannel)
  PROVE  CountersDescribeThisBag'
<1>1. CASE log' = Append(log, n) /\ messages_written' = messages_written + 1
  BY <1>1 DEF WriterOK, BagOK, CountersDescribeThisBag
<1>2. CASE UNCHANGED <<log, messages_written>>
  BY <1>2 DEF CountersDescribeThisBag
<1>3. QED
  BY <1>1, <1>2 DEF WriteLocked

\* Every step keeps the count of the current bag's entries.
LEMMA CountersStep == TypeOK /\ CountersDescribeThisBag /\ [Next]_vars => CountersDescribeThisBag'
<1> SUFFICES ASSUME TypeOK, CountersDescribeThisBag, [Next]_vars PROVE CountersDescribeThisBag'
  OBVIOUS
<1>0. /\ WriterOK /\ BagOK /\ 0 \in Numbers /\ arrived \in Numbers
      /\ (batch # <<>> => Head(batch) \in Numbers)
  <2>1. WriterOK /\ BagOK /\ arrived \in Numbers /\ batch \in Seq(Numbers)
    BY DEF TypeOK, BagOK, StageOK
  <2>2. 0 \in Numbers
    BY BagAssumption DEF Numbers, BagAssumption
  <2>3. batch # <<>> => Head(batch) \in Numbers
    BY <2>1
  <2>4. QED
    BY <2>1, <2>2, <2>3
<1>1. ASSUME NEW t \in Threads, OpenBag(t) PROVE CountersDescribeThisBag'
  BY <1>0, <1>1 DEF OpenBag, ResetCounters, WriterOK, CountersDescribeThisBag, counters, bagVars
<1>2. ASSUME NEW t \in Threads, WriteEvent(t) PROVE CountersDescribeThisBag'
  <2>1. CASE UNCHANGED writerVars
    BY <1>2, <2>1 DEF WriteEvent, writerVars, counters, bagVars, CountersDescribeThisBag
  <2>2. CASE WriteLocked(0, TRUE)
    BY <1>0, <1>2, <2>2, WriterCounts DEF WriteEvent, bagVars
  <2>3. QED
    BY <1>2, <2>1, <2>2 DEF WriteEvent
<1>3. ASSUME NEW t \in Threads, WriteStaged(t) PROVE CountersDescribeThisBag'
  BY <1>0, <1>3, WriterCounts DEF WriteStaged, bagVars
<1>4. CASE WriteMessage
  BY <1>0, <1>4, WriterCounts DEF WriteMessage, bagVars
<1>5. CASE UNCHANGED <<log, messages_written, logStart>>
  BY <1>5 DEF CountersDescribeThisBag
<1>6. \/ \E t \in Threads : OpenBag(t) \/ WriteEvent(t) \/ WriteStaged(t)
      \/ WriteMessage
      \/ UNCHANGED <<log, messages_written, logStart>>
  BY DEF Next, Begin, TakeLock, QuickStep, ReturnEarly, BeginSlow, BeginClose, MarkClosed, TakeStage,
         SlowStep, CreateChannel, Split, TakeSnapshot, CloseWriter, MessageStep, Arrive, TryLock,
         TryLockFor, SeeBusy, Stage, DropMessage, FlushFirst, vars, writerVars, counters, bagVars
<1>7. QED
  BY <1>1, <1>2, <1>3, <1>4, <1>5, <1>6

\* The count reported is of the entries of the current bag, through any number of
\* bags, write errors and rollovers.
THEOREM CountersCorrect == Spec => []CountersDescribeThisBag
<1>1. Init => CountersDescribeThisBag
  BY DEF Init, CountersDescribeThisBag
<1>2. QED
  BY <1>1, CountersStep, TypeCorrect, PTL DEF Spec

-----------------------------------------------------------------------------
(* What the rollover callback is told.                                     *)

\* Every step keeps the reason to the time split() is in the writer.
LEMMA ReasonStep == TypeOK /\ LockDiscipline /\ ReasonInv /\ [Next]_vars => ReasonInv'
<1> SUFFICES ASSUME TypeOK, LockDiscipline, ReasonInv, [Next]_vars PROVE ReasonInv'
  OBVIOUS
<1> USE DEF TypeOK, ThreadsOK, LockDiscipline, Holds, ReasonInv, Threads
<1>1. ASSUME NEW t \in Threads, BeginSlow(t) PROVE ReasonInv'
  BY <1>1 DEF BeginSlow, Goto
<1>2. ASSUME NEW t \in Threads, Split(t) PROVE ReasonInv'
  BY <1>2 DEF Split, EndBusy, Goto
<1>3. CASE /\ UNCHANGED splitReason
           /\ \A t \in Threads : pc[t] = "slow" /\ op[t].kind = "split" <=> pc'[t] = "slow" /\ op'[t].kind = "split"
           /\ \A t \in Threads : pc'[t] = "slow" => op'[t] = op[t]
  BY <1>3
<1>4. ASSUME NEW t \in Threads, TakeLock(t) \/ ReturnEarly(t) \/ OpenBag(t) \/ BeginClose(t) \/ MarkClosed(t)
                                  \/ TakeStage(t) \/ WriteStaged(t) \/ CreateChannel(t) \/ WriteEvent(t)
                                  \/ TakeSnapshot(t) \/ CloseWriter(t)
      PROVE ReasonInv'
  BY <1>3, <1>4 DEF TakeLock, ReturnEarly, OpenBag, BeginClose, MarkClosed, TakeStage, WriteStaged, CreateChannel,
       WriteEvent, TakeSnapshot, CloseWriter, AfterFlush, Leave, Return, Goto, EndBusy, threadVars
<1>5. ASSUME NEW t \in Threads, NEW c \in Calls(t), Begin(t, c) PROVE ReasonInv'
  BY <1>3, <1>5 DEF Begin
<1>6. CASE Arrive \/ MessageStep \/ TryLockFor \/ SeeBusy
  BY <1>3, <1>6 DEF Arrive, MessageStep, TryLock, Stage, DropMessage, FlushFirst, WriteMessage, TryLockFor, SeeBusy,
       Leave, Return, Goto
<1>7. CASE UNCHANGED vars
  BY <1>7 DEF vars, threadVars
<1>8. QED
  BY <1>1, <1>2, <1>4, <1>5, <1>6, <1>7 DEF Next, QuickStep, SlowStep

\* A rollover of the writer's own, by a thread that is not in split(), is told no
\* reason.
LEMMA WriterTells ==
  ASSUME LockDiscipline, ReasonInv, RolloversTellTheirReason, NEW t \in Threads, Holds(t),
         ~(pc[t] = "slow" /\ op[t].kind = "split"), NEW n, NEW hasChannel, WriteLocked(n, hasChannel)
  PROVE  RolloversTellTheirReason'
<1>1. splitReason = NoReason
  BY DEF LockDiscipline, Holds, ReasonInv, Threads
<1>2. \A r \in rollovers' : r \in rollovers \/ r = [asked |-> NoReason, told |-> NoReason]
  BY <1>1 DEF WriteLocked, Rollover
<1>3. QED
  BY <1>2 DEF RolloversTellTheirReason

\* Every step tells each rollover what it is for.
LEMMA TellStep ==
  LockDiscipline /\ ReasonInv /\ RolloversTellTheirReason /\ [Next]_vars => RolloversTellTheirReason'
<1> SUFFICES ASSUME LockDiscipline, ReasonInv, RolloversTellTheirReason, [Next]_vars
             PROVE  RolloversTellTheirReason'
  OBVIOUS
<1>1. ASSUME NEW t \in Threads, Split(t) PROVE RolloversTellTheirReason'
  <2>1. splitReason = op[t].arg
    BY <1>1 DEF Split, ReasonInv
  <2>2. \A r \in rollovers' : r \in rollovers \/ r = [asked |-> op[t].arg, told |-> op[t].arg]
    BY <1>1, <2>1 DEF Split, Rollover
  <2>3. QED
    BY <2>2 DEF RolloversTellTheirReason
<1>2. ASSUME NEW t \in Threads, WriteEvent(t) PROVE RolloversTellTheirReason'
  <2>1. CASE UNCHANGED writerVars
    BY <2>1 DEF writerVars, RolloversTellTheirReason
  <2>2. CASE WriteLocked(0, TRUE)
    BY <1>2, <2>2, WriterTells DEF WriteEvent, Holds
  <2>3. QED
    BY <1>2, <2>1, <2>2 DEF WriteEvent
<1>3. ASSUME NEW t \in Threads, WriteStaged(t) PROVE RolloversTellTheirReason'
  BY <1>3, WriterTells DEF WriteStaged, Holds
<1>4. CASE WriteMessage
  BY <1>4, WriterTells DEF WriteMessage, Holds, Threads
<1>5. CASE UNCHANGED rollovers
  BY <1>5 DEF RolloversTellTheirReason
<1>6. \/ \E t \in Threads : Split(t) \/ WriteEvent(t) \/ WriteStaged(t)
      \/ WriteMessage
      \/ UNCHANGED rollovers
  BY DEF Next, Begin, TakeLock, QuickStep, ReturnEarly, OpenBag, BeginSlow, BeginClose, MarkClosed, TakeStage,
         SlowStep, CreateChannel, TakeSnapshot, CloseWriter, MessageStep, Arrive, TryLock,
         TryLockFor, SeeBusy, Stage, DropMessage, FlushFirst, vars, writerVars
<1>7. QED
  BY <1>1, <1>2, <1>3, <1>4, <1>5, <1>6

\* A rollover split() asked for is told its reason and one at a limit none: no
\* reason is left behind by a split that threw.
THEOREM ReasonsCorrect == Spec => []RolloversTellTheirReason
<1>1. Init => ReasonInv /\ RolloversTellTheirReason
  BY DEF Init, ReasonInv, RolloversTellTheirReason, Threads
<1>2. QED
  BY <1>1, ReasonStep, TellStep, TypeCorrect, LockDisciplined, PTL DEF Spec

-----------------------------------------------------------------------------
(* Where each message went.                                                *)

\* What is in a sequence that gained or lost an element, or was joined.
LEMMA MessagesFacts ==
  ASSUME NEW s \in Seq(Nat), NEW n \in Nat
  PROVE  /\ Messages(<<>>) = {} /\ Messages(<<n>>) = {n}
         /\ Messages(Append(s, n)) = Messages(s) \cup {n}
         /\ s # <<>> => Messages(s) = {Head(s)} \cup Messages(Tail(s))
         /\ Messages(s) \subseteq Nat
<1>1. Messages(<<>>) = {} /\ Messages(<<n>>) = {n}
  BY DEF Messages
<1>2. Messages(Append(s, n)) = Messages(s) \cup {n}
  BY DEF Messages
<1>3. ASSUME s # <<>> PROVE Messages(s) = {Head(s)} \cup Messages(Tail(s))
  <2>1. \A i \in 1..Len(s) : i = 1 \/ (i - 1 \in 1..Len(Tail(s)) /\ Tail(s)[i - 1] = s[i])
    BY <1>3, TailFacts
  <2>2. \A i \in 1..Len(Tail(s)) : i + 1 \in 1..Len(s) /\ Tail(s)[i] = s[i + 1]
    BY <1>3, TailFacts
  <2>3. 1 \in 1..Len(s) /\ Head(s) = s[1]
    BY <1>3, TailFacts
  <2>4. Messages(s) \subseteq {Head(s)} \cup Messages(Tail(s))
    BY <2>1, <2>3 DEF Messages
  <2>5. {Head(s)} \cup Messages(Tail(s)) \subseteq Messages(s)
    BY <2>2, <2>3 DEF Messages
  <2>6. QED
    BY <2>4, <2>5
<1>4. Messages(s) \subseteq Nat
  BY DEF Messages
<1>5. QED
  BY <1>1, <1>2, <1>3, <1>4

\* What is in a concatenation is in one of its parts.
LEMMA MessagesConcat ==
  ASSUME NEW s \in Seq(Nat), NEW t \in Seq(Nat)
  PROVE  Messages(s \o t) = Messages(s) \cup Messages(t)
<1>1. Messages(s \o t) \subseteq Messages(s) \cup Messages(t)
  <2> SUFFICES ASSUME NEW i \in 1..Len(s \o t) PROVE (s \o t)[i] \in Messages(s) \cup Messages(t)
    BY DEF Messages
  <2>1. CASE i <= Len(s)
    BY <2>1, ConcatFacts DEF Messages
  <2>2. CASE i > Len(s)
    BY <2>2, ConcatFacts DEF Messages
  <2>3. QED
    BY <2>1, <2>2
<1>2. Messages(s) \subseteq Messages(s \o t)
  BY ConcatFacts DEF Messages
<1>3. Messages(t) \subseteq Messages(s \o t)
  <2> SUFFICES ASSUME NEW i \in 1..Len(t) PROVE t[i] \in Messages(s \o t)
    BY DEF Messages
  <2>1. Len(s) + i \in 1..Len(s \o t) /\ (s \o t)[Len(s) + i] = t[i]
    OBVIOUS
  <2>2. QED
    BY <2>1 DEF Messages
<1>4. QED
  BY <1>1, <1>2, <1>3

\* Two sequences in order have no message in common, and what is below a number
\* does not have it.
LEMMA Apart ==
  ASSUME NEW s \in Seq(Nat), NEW t \in Seq(Nat), NEW n \in Nat
  PROVE  /\ Before(s, t) => Messages(s) \cap Messages(t) \subseteq {0}
         /\ Below(s, n) => n \notin Messages(s)
<1>1. ASSUME Before(s, t), NEW m \in Messages(s) \cap Messages(t) PROVE m = 0
  <2>1. PICK i \in 1..Len(s) : s[i] = m
    BY <1>1 DEF Messages
  <2>2. PICK j \in 1..Len(t) : t[j] = m
    BY <1>1 DEF Messages
  <2>3. m # 0 => m < m
    BY <1>1, <2>1, <2>2 DEF Before
  <2>4. m \in Nat
    BY <2>1
  <2>5. QED
    BY <2>3, <2>4
<1>2. Below(s, n) => n \notin Messages(s)
  BY DEF Below, Messages
<1>3. QED
  BY <1>1, <1>2

\* The parts of the pipeline as sets.
InBag   == Messages(log) \ {0}
Waiting == Messages(batch) \cup Messages(staged)
InCall  == IF op["msg"] = Write THEN {arrived} ELSE {}
Settled == lost \cup dropped \cup failed

\* The books, part by part.
Books ==
  /\ 1..arrived = InBag \cup Waiting \cup InCall \cup Settled
  /\ (InBag \cup Waiting \cup InCall) \cap Settled = {}
  /\ lost \cap (dropped \cup failed) = {} /\ dropped \cap failed = {}
BooksInv == NoEventOnItsWay /\ Books

\* A sequence of members of a set is one of any larger set.
LEMMA SeqOfFewer ==
  ASSUME NEW N, NEW M, N \subseteq M, NEW s \in Seq(N)
  PROVE  s \in Seq(M)
<1>1. Len(s) \in Nat /\ s \in [1..Len(s) -> N]
  OBVIOUS
<1>2. s \in [1..Len(s) -> M]
  BY <1>1
<1>3. QED
  BY <1>1, <1>2

\* The sequences and numbers of the bag are of naturals.
LEMMA OfNaturals ==
  ASSUME TypeOK
  PROVE  log \in Seq(Nat) /\ batch \in Seq(Nat) /\ staged \in Seq(Nat) /\ arrived \in Nat
<1>1. log \in Seq(Numbers) /\ batch \in Seq(Numbers) /\ staged \in Seq(Numbers) /\ arrived \in Numbers
  BY DEF TypeOK, WriterOK, StageOK, BagOK
<1>2. Numbers \subseteq Nat
  BY BagAssumption DEF Numbers, BagAssumption
<1>3. log \in Seq(Nat) /\ batch \in Seq(Nat) /\ staged \in Seq(Nat)
  BY <1>1, <1>2, SeqOfFewer
<1>4. QED
  BY <1>1, <1>2, <1>3

\* The parts make up the pipeline.
LEMMA BooksAreWhole ==
  TypeOK /\ LockDiscipline /\ BooksInv => EveryMessageAccountedFor
<1> SUFFICES ASSUME TypeOK, LockDiscipline, BooksInv PROVE EveryMessageAccountedFor
  OBVIOUS
<1>1. log \in Seq(Nat) /\ batch \in Seq(Nat) /\ staged \in Seq(Nat) /\ arrived \in Nat
  BY OfNaturals
<1>2. InFlight \in Seq(Nat) /\ Messages(InFlight) = InCall /\ 0 \notin InCall
  <2>1. CASE op["msg"] = Write
    BY <1>1, <2>1, MessagesFacts DEF InFlight, InCall, LockDiscipline
  <2>2. CASE op["msg"] # Write
    BY <2>2 DEF InFlight, InCall, Messages
  <2>3. QED
    BY <2>1, <2>2
<1>3. Messages(Pipeline) = Messages(log) \cup Messages(batch) \cup Messages(staged) \cup InCall
  <2>1. log \o batch \in Seq(Nat) /\ (log \o batch) \o staged \in Seq(Nat)
    BY <1>1, ConcatFacts
  <2>2. Messages(log \o batch) = Messages(log) \cup Messages(batch)
    BY <1>1, MessagesConcat
  <2>3. Messages((log \o batch) \o staged) = Messages(log \o batch) \cup Messages(staged)
    BY <1>1, <2>1, MessagesConcat
  <2>4. Messages(((log \o batch) \o staged) \o InFlight) = Messages((log \o batch) \o staged) \cup InCall
    BY <1>2, <2>1, MessagesConcat
  <2>5. QED
    BY <2>2, <2>3, <2>4 DEF Pipeline
<1>4. OnItsWayOrIn = InBag \cup Waiting \cup InCall
  BY <1>2, <1>3 DEF OnItsWayOrIn, InBag, Waiting, BooksInv, NoEventOnItsWay
<1>5. QED
  BY <1>4 DEF BooksInv, Books, Settled, EveryMessageAccountedFor

\* The message in write() is nowhere else yet.
LEMMA InCallIsNew ==
  ASSUME BaseInv, op["msg"] = Write
  PROVE  arrived > 0 /\ InCall = {arrived} /\ arrived \notin InBag \cup Waiting
<1>1. log \in Seq(Nat) /\ batch \in Seq(Nat) /\ staged \in Seq(Nat) /\ arrived \in Nat
  BY OfNaturals DEF BaseInv
<1>2. Below(log, arrived) /\ Below(batch, arrived) /\ Below(staged, arrived)
  BY DEF BaseInv, OrderInv, Fresh
<1>3. arrived > 0
  BY DEF BaseInv, LockDiscipline
<1>4. arrived \notin Messages(log) /\ arrived \notin Messages(batch) /\ arrived \notin Messages(staged)
  BY <1>1, <1>2, Apart
<1>5. arrived \notin InBag \cup Waiting
  BY <1>4 DEF InBag, Waiting
<1>6. QED
  BY <1>3, <1>5 DEF InCall

\* Nor is the oldest of the batch.
LEMMA OldestIsAlone ==
  ASSUME BaseInv, NoEventOnItsWay, batch # <<>>
  PROVE  /\ Messages(batch) = {Head(batch)} \cup Messages(Tail(batch)) /\ Head(batch) # 0
         /\ Head(batch) \notin InBag \cup Messages(Tail(batch)) \cup Messages(staged) \cup InCall
<1>1. log \in Seq(Nat) /\ batch \in Seq(Nat) /\ staged \in Seq(Nat) /\ arrived \in Nat
  BY OfNaturals DEF BaseInv
<1>2. Head(batch) \in Nat /\ Tail(batch) \in Seq(Nat)
  BY <1>1
<1>3. Messages(batch) = {Head(batch)} \cup Messages(Tail(batch)) /\ Head(batch) # 0
  <2>1. Messages(batch) = {Head(batch)} \cup Messages(Tail(batch))
    BY <1>1, <1>2, MessagesFacts
  <2>2. 0 \notin Messages(batch)
    BY DEF NoEventOnItsWay
  <2>3. QED
    BY <2>1, <2>2, Zenon
<1>4. Messages(log) \cap Messages(batch) \subseteq {0} /\ Messages(batch) \cap Messages(staged) \subseteq {0}
  BY <1>1, Apart DEF BaseInv, OrderInv
<1>5. Head(batch) \notin Messages(Tail(batch))
  <2>1. \A j \in 1..Len(Tail(batch)) :
          Head(batch) # 0 /\ Tail(batch)[j] # 0 => Head(batch) < Tail(batch)[j]
    BY <1>1, OrderTail DEF BaseInv, OrderInv
  <2>2. QED
    BY <1>2, <1>3, <2>1 DEF Messages
<1>6. Head(batch) \notin InCall
  BY <1>3, InCallIsNew DEF InCall, Waiting
<1>7. Head(batch) \in Messages(batch)
  BY <1>3
<1>8. Head(batch) \notin InBag /\ Head(batch) \notin Messages(staged)
  BY <1>3, <1>4, <1>7 DEF InBag
<1>9. QED
  BY <1>3, <1>5, <1>6, <1>8

\* What reached write() is settled there, by giving it up.
LEMMA SettledThere ==
  ASSUME BaseInv, BooksInv, op["msg"] = Write, op'["msg"] # Write,
         UNCHANGED <<log, batch, staged, arrived>>,
         \/ lost' = lost \cup {arrived} /\ UNCHANGED <<dropped, failed>>
         \/ dropped' = dropped \cup {arrived} /\ UNCHANGED <<lost, failed>>
         \/ failed' = failed \cup {arrived} /\ UNCHANGED <<lost, dropped>>
  PROVE  BooksInv'
<1>1. InCall = {arrived} /\ arrived \notin InBag \cup Waiting /\ InCall' = {}
  BY InCallIsNew DEF InCall
<1>2. InBag' = InBag /\ Waiting' = Waiting /\ NoEventOnItsWay'
  BY DEF InBag, Waiting, BooksInv, NoEventOnItsWay
<1>3. Settled' = Settled \cup {arrived} /\ arrived \notin Settled
  BY <1>1 DEF Settled, BooksInv, Books
<1>4. Books'
  BY <1>1, <1>2, <1>3 DEF BooksInv, Books, Settled
<1>5. QED
  BY <1>2, <1>4 DEF BooksInv

\* A step that settles nothing and moves a message from one part to another.
LEMMA MovedOn ==
  ASSUME BooksInv, NoEventOnItsWay', UNCHANGED <<arrived, lost, dropped, failed>>,
         InBag' \cup Waiting' \cup InCall' = InBag \cup Waiting \cup InCall
  PROVE  BooksInv'
BY DEF BooksInv, Books, Settled

\* Every step keeps the books.
LEMMA BooksStep == BaseInv /\ OpenWhileWriting /\ BooksInv /\ [Next]_vars => BooksInv'
<1> SUFFICES ASSUME BaseInv, OpenWhileWriting, BooksInv, [Next]_vars PROVE BooksInv'
  OBVIOUS
<1>0. /\ log \in Seq(Nat) /\ batch \in Seq(Nat) /\ staged \in Seq(Nat) /\ arrived \in Nat
      /\ pc \in [Threads -> Labels] /\ op \in [Threads -> AllCalls]
  BY OfNaturals DEF BaseInv, TypeOK, ThreadsOK
<1>1. CASE Arrive
  <2>1. op["msg"] # Write /\ op'["msg"] = Write /\ arrived' = arrived + 1
    BY <1>0, <1>1, NoCallIsNotWrite DEF Arrive, OpenWhileWriting, Threads
  <2>2. InCall = {} /\ InCall' = {arrived + 1} /\ InBag' = InBag /\ Waiting' = Waiting /\ Settled' = Settled
    BY <1>1, <2>1 DEF Arrive, InCall, InBag, Waiting, Settled, writerVars, stageVars
  <2>3. NoEventOnItsWay'
    BY <1>1 DEF Arrive, stageVars, BooksInv, NoEventOnItsWay
  <2>4. 1..arrived' = (1..arrived) \cup {arrived + 1} /\ arrived + 1 \notin 1..arrived
    BY <1>0, <2>1
  <2>5. Books'
    BY <1>1, <2>2, <2>4 DEF Arrive, BooksInv, Books, writerVars, stageVars, Settled
  <2>6. QED
    BY <2>3, <2>5 DEF BooksInv
<1>2. CASE Stage
  <2>1. op["msg"] = Write /\ op'["msg"] # Write
    BY <1>0, <1>2, NoCallIsNotWrite DEF Stage, Return, BaseInv, LockDiscipline, Threads
  <2>2. CASE staged' = Append(staged, arrived) /\ UNCHANGED lost
    <3>1. Messages(staged') = Messages(staged) \cup {arrived}
      BY <1>0, <2>2, MessagesFacts
    <3>2. InCall = {arrived} /\ InCall' = {} /\ arrived > 0
      BY <2>1, InCallIsNew DEF InCall
    <3>3. NoEventOnItsWay'
      BY <1>2, <3>1, <3>2 DEF Stage, BooksInv, NoEventOnItsWay
    <3>4. InBag' \cup Waiting' \cup InCall' = InBag \cup Waiting \cup InCall
      BY <1>2, <3>1, <3>2 DEF Stage, InBag, Waiting, writerVars
    <3>5. QED
      BY <1>2, <2>2, <3>3, <3>4, MovedOn DEF Stage, writerVars
  <2>3. CASE lost' = lost \cup {arrived} /\ UNCHANGED staged
    BY <1>2, <2>1, <2>3, SettledThere DEF Stage, writerVars
  <2>4. QED
    BY <1>2, <2>2, <2>3 DEF Stage
<1>3. CASE DropMessage
  BY <1>0, <1>3, NoCallIsNotWrite, SettledThere DEF DropMessage, Leave, Return, writerVars, stageVars, Threads
<1>4. CASE WriteMessage
  <2>1. op["msg"] = Write /\ op'["msg"] # Write /\ arrived > 0 /\ UNCHANGED <<batch, staged, arrived, lost, dropped>>
    BY <1>0, <1>4, NoCallIsNotWrite, InCallIsNew
       DEF WriteMessage, Leave, Return, stageVars, BaseInv, LockDiscipline, Threads
  <2>2. CASE log' = Append(log, arrived) /\ UNCHANGED failed
    <3>1. Messages(log') = Messages(log) \cup {arrived}
      BY <1>0, <2>2, MessagesFacts
    <3>2. InCall = {arrived} /\ InCall' = {}
      BY <2>1 DEF InCall
    <3>3. NoEventOnItsWay'
      BY <2>1 DEF BooksInv, NoEventOnItsWay
    <3>4. InBag' \cup Waiting' \cup InCall' = InBag \cup Waiting \cup InCall
      BY <2>1, <3>1, <3>2 DEF InBag, Waiting
    <3>5. QED
      BY <2>1, <2>2, <3>3, <3>4, MovedOn
  <2>3. CASE failed' = failed \cup ({arrived} \ {0}) /\ UNCHANGED log
    BY <2>1, <2>3, SettledThere
  <2>4. QED
    BY <1>4, <2>2, <2>3 DEF WriteMessage, WriteLocked
<1>5. ASSUME NEW t \in Threads, WriteStaged(t) PROVE BooksInv'
  <2>1. batch # <<>> /\ batch' = Tail(batch) /\ UNCHANGED <<staged, arrived, lost, dropped>>
    BY <1>5 DEF WriteStaged, stageVars
  <2>2. InCall' = InCall
    BY <1>0, <1>5, NoCallIsNotWrite, OnlyWrite
       DEF WriteStaged, AfterFlush, Leave, Return, Goto, threadVars, InCall, Threads, Write, Call
  <2>3. /\ Messages(batch) = {Head(batch)} \cup Messages(Tail(batch)) /\ Head(batch) # 0
        /\ Head(batch) \notin InBag \cup Messages(Tail(batch)) \cup Messages(staged) \cup InCall
    BY <2>1, OldestIsAlone DEF BooksInv
  <2>4. NoEventOnItsWay'
    BY <2>1, <2>3 DEF BooksInv, NoEventOnItsWay
  <2>5. CASE log' = Append(log, Head(batch)) /\ UNCHANGED failed
    <3>1. Messages(log') = Messages(log) \cup {Head(batch)}
      BY <1>0, <2>1, <2>5, MessagesFacts
    <3>2. InBag' \cup Waiting' \cup InCall' = InBag \cup Waiting \cup InCall
      BY <2>1, <2>2, <2>3, <3>1 DEF InBag, Waiting
    <3>3. QED
      BY <2>1, <2>4, <2>5, <3>2, MovedOn
  <2>6. CASE failed' = failed \cup ({Head(batch)} \ {0}) /\ UNCHANGED log
    <3>1. InBag' = InBag /\ Waiting' \cup {Head(batch)} = Waiting /\ Settled' = Settled \cup {Head(batch)}
      BY <2>1, <2>3, <2>6 DEF InBag, Waiting, Settled
    <3>2. Head(batch) \notin Waiting' /\ Head(batch) \notin Settled
      BY <2>1, <2>3 DEF Waiting, Settled, BooksInv, Books
    <3>3. failed' = failed \cup {Head(batch)}
      BY <2>3, <2>6
    <3>4. Books'
      BY <2>1, <2>2, <2>3, <3>1, <3>2, <3>3 DEF BooksInv, Books, Settled
    <3>5. QED
      BY <2>4, <3>4 DEF BooksInv
  <2>7. QED
    BY <1>5, <2>5, <2>6 DEF WriteStaged, WriteLocked
<1>6. ASSUME NEW t \in Threads, TakeStage(t) PROVE BooksInv'
  <2>1. batch = <<>> /\ staged' = <<>> /\ UNCHANGED <<log, arrived, lost, failed>>
    BY <1>6 DEF TakeStage, EmptyStage, BaseInv, LockDiscipline, Holds, Threads, writerVars
  <2>2. InCall' = InCall
    BY <1>0, <1>6, NoCallIsNotWrite, OnlyWrite
       DEF TakeStage, AfterFlush, Leave, Return, Goto, InCall, Threads, Write, Call
  <2>3. Messages(<<>>) = {} /\ InBag' = InBag
    BY <2>1 DEF Messages, InBag
  <2>4. CASE batch' = staged /\ UNCHANGED dropped
    <3>1. NoEventOnItsWay' /\ Waiting' = Waiting
      BY <2>1, <2>3, <2>4 DEF BooksInv, NoEventOnItsWay, Waiting
    <3>2. QED
      BY <2>1, <2>2, <2>3, <2>4, <3>1, MovedOn
  <2>5. CASE batch' = batch /\ dropped' = dropped \cup Messages(staged)
    <3>1. NoEventOnItsWay' /\ Waiting' = {} /\ Waiting = Messages(staged)
      BY <2>1, <2>3, <2>5 DEF BooksInv, NoEventOnItsWay, Waiting
    <3>2. (InBag \cup InCall) \cap Messages(staged) = {}
      <4>1. Messages(log) \cap Messages(staged) \subseteq {0}
        BY <1>0, Apart DEF BaseInv, OrderInv
      <4>2. InCall \cap Messages(staged) = {}
        BY InCallIsNew DEF InCall, Waiting
      <4>3. QED
        BY <4>1, <4>2 DEF InBag
    <3>3. Messages(staged) \cap Settled = {}
      BY <3>1 DEF BooksInv, Books
    <3>4. Books'
      BY <2>1, <2>2, <2>3, <2>5, <3>1, <3>2, <3>3 DEF BooksInv, Books, Settled
    <3>5. QED
      BY <3>1, <3>4 DEF BooksInv
  <2>6. QED
    BY <1>6, <2>4, <2>5 DEF TakeStage
<1>7. ASSUME NEW t \in Threads, WriteEvent(t) PROVE BooksInv'
  <2>1. UNCHANGED <<batch, staged, arrived, lost, dropped, op>>
    BY <1>7 DEF WriteEvent, EndBusy, Goto, stageVars
  <2>2. failed' = failed /\ (log' = log \/ log' = Append(log, 0))
    BY <1>7 DEF WriteEvent, WriteLocked, writerVars
  <2>3. InBag' = InBag
    <3>1. Messages(Append(log, 0)) = Messages(log) \cup {0}
      BY <1>0, MessagesFacts
    <3>2. QED
      BY <2>2, <3>1 DEF InBag
  <2>4. NoEventOnItsWay' /\ Waiting' = Waiting /\ InCall' = InCall
    BY <2>1 DEF BooksInv, NoEventOnItsWay, Waiting, InCall
  <2>5. QED
    BY <2>1, <2>2, <2>3, <2>4, MovedOn
<1>8. CASE /\ UNCHANGED <<log, batch, staged, arrived, lost, dropped, failed>>
           /\ op'["msg"] = Write <=> op["msg"] = Write
  BY <1>8 DEF BooksInv, Books, NoEventOnItsWay, InBag, Waiting, InCall, Settled
<1>9. ASSUME NEW t \in Threads, NEW c \in Calls(t), Begin(t, c) PROVE BooksInv'
  <2>1. c # Write
    BY <1>9 DEF Calls, Write, Call
  <2>2. op'["msg"] = Write <=> op["msg"] = Write
    BY <1>0, <1>9, <2>1, NoCallIsNotWrite DEF Begin, OpenWhileWriting, Threads
  <2>3. QED
    BY <1>8, <1>9, <2>2 DEF Begin, writerVars, stageVars
<1>10. ASSUME NEW t \in Threads, ReturnEarly(t) \/ OpenBag(t) PROVE BooksInv'
  <2>1. op[t].kind # "write"
    BY <1>10 DEF ReturnEarly, ReturnsEarly, OpenBag
  <2>2. op'["msg"] = Write <=> op["msg"] = Write
    BY <1>0, <1>10, <2>1, NoCallIsNotWrite DEF ReturnEarly, OpenBag, Leave, Return, Threads, Write, Call
  <2>3. UNCHANGED <<log, batch, staged, arrived, lost, dropped, failed>>
    BY <1>10 DEF ReturnEarly, OpenBag, ResetCounters, writerVars, stageVars
  <2>4. QED
    BY <1>8, <2>2, <2>3
<1>11. ASSUME NEW t \in Threads,
              TakeLock(t) \/ BeginSlow(t) \/ BeginClose(t) \/ MarkClosed(t) \/ CreateChannel(t) \/ Split(t)
                \/ TakeSnapshot(t) \/ CloseWriter(t)
       PROVE  BooksInv'
  BY <1>8, <1>11 DEF TakeLock, BeginSlow, BeginClose, MarkClosed, CreateChannel, Split, TakeSnapshot, CloseWriter,
       EndBusy, Goto, writerVars, stageVars
<1>12. CASE TryLock \/ FlushFirst \/ TryLockFor \/ SeeBusy
  BY <1>8, <1>12 DEF TryLock, FlushFirst, TryLockFor, SeeBusy, Goto, writerVars, stageVars
<1>13. CASE UNCHANGED vars
  BY <1>8, <1>13 DEF vars, threadVars, writerVars, stageVars
<1>14. QED
  BY <1>1, <1>2, <1>3, <1>4, <1>5, <1>6, <1>7, <1>9, <1>10, <1>11, <1>12, <1>13
     DEF Next, QuickStep, SlowStep, MessageStep

\* Each message that reached write() is on its way, in a bag, a write error, a
\* loss or found the bag closed, and only one of these: for any number of bags,
\* stalls, errors and stage sizes.
THEOREM NothingDisappears == Spec => []EveryMessageAccountedFor
<1>1. Init => BooksInv
  <2> SUFFICES ASSUME Init PROVE BooksInv
    OBVIOUS
  <2>1. Messages(<<>>) = {} /\ op["msg"] # Write /\ 1..0 = {}
    BY NoCallIsNotWrite DEF Init, Messages, Threads
  <2>2. QED
    BY <2>1 DEF Init, BooksInv, NoEventOnItsWay, Books, InBag, Waiting, InCall, Settled
<1>2. QED
  BY <1>1, BaseHolds, OpenHolds, BooksStep, BooksAreWhole, PTL DEF Spec, BaseInv

-----------------------------------------------------------------------------
(* What a stop keeps.                                                      *)

\* Every step keeps what is staged during a stop to what had not returned when it
\* was asked for, and drops nothing else.
LEMMA StopStep ==
  ASSUME BaseInv, OpenWhileWriting, EveryMessageAccountedFor, StopInv, StopKeepsWhatCameBefore, [Next]_vars
  PROVE  StopInv' /\ StopKeepsWhatCameBefore'
<1>0. /\ Fresh \in Nat /\ Fresh' \in Nat /\ Fresh <= Fresh'
      /\ arrived \in Nat /\ returnedBefore \in Nat /\ openedAfter \in Nat /\ staged \in Seq(Nat)
      /\ dropped \subseteq 1..arrived
      /\ pc \in [Threads -> Labels] /\ op \in [Threads -> AllCalls]
  <2>1. arrived \in Nat /\ staged \in Seq(Nat)
    BY OfNaturals DEF BaseInv
  <2>2. returnedBefore \in Nat /\ openedAfter \in Nat
    BY BagAssumption DEF BagAssumption, BaseInv, TypeOK, BagOK, Numbers
  <2>3. dropped \subseteq 1..arrived
    BY DEF EveryMessageAccountedFor
  <2>4. Fresh \in Nat /\ Fresh' \in Nat /\ Fresh <= Fresh'
    BY FreshGrows DEF BaseInv
  <2>5. QED
    BY <2>1, <2>2, <2>3, <2>4 DEF BaseInv, TypeOK, ThreadsOK
<1>1. ASSUME NEW t \in Threads, OpenBag(t) PROVE StopInv' /\ StopKeepsWhatCameBefore'
  <2>1. CASE open' = TRUE /\ openedAfter' = arrived /\ UNCHANGED <<returnedBefore, arrived, dropped>>
    <3>1. ~Stopping'
      BY <1>0, <1>1, <2>1 DEF OpenBag, Leave, Return, Stopping, BaseInv, LockDiscipline, Holds, Threads
    <3>2. QED
      BY <1>0, <2>1, <3>1 DEF StopInv, StopKeepsWhatCameBefore
  <2>2. CASE UNCHANGED bagVars
    <3>1. Stopping' => Stopping
      BY <1>0, <1>1, <2>2 DEF OpenBag, Leave, Return, Stopping, Threads, bagVars
    <3>2. QED
      BY <1>0, <1>1, <2>2, <3>1 DEF OpenBag, bagVars, stageVars, StopInv, StopKeepsWhatCameBefore
  <2>3. QED
    BY <1>1, <2>1, <2>2 DEF OpenBag
<1>2. ASSUME NEW t \in Threads, BeginClose(t) PROVE StopInv' /\ StopKeepsWhatCameBefore'
  <2>1. ~Stopping'
    BY <1>0, <1>2 DEF BeginClose, Goto, Stopping, BaseInv, LockDiscipline, Holds, Threads
  <2>2. UNCHANGED <<open, openedAfter, arrived, dropped>> /\ open /\ returnedBefore' = Fresh
    BY <1>2 DEF BeginClose
  <2>3. QED
    BY <1>0, <2>1, <2>2 DEF StopInv, StopKeepsWhatCameBefore
<1>3. ASSUME NEW t \in Threads, MarkClosed(t) PROVE StopInv' /\ StopKeepsWhatCameBefore'
  <2>1. Stopping /\ open /\ UNCHANGED <<staged, returnedBefore, openedAfter, arrived, dropped>>
    BY <1>3 DEF MarkClosed, Stopping, OpenWhileWriting, stageVars
  <2>2. QED
    BY <1>0, <2>1 DEF StopInv, StopKeepsWhatCameBefore
<1>4. ASSUME NEW t \in Threads, TakeStage(t) PROVE StopInv' /\ StopKeepsWhatCameBefore'
  <2>1. staged' = <<>> /\ UNCHANGED <<open, returnedBefore, openedAfter, arrived>>
    BY <1>4 DEF TakeStage, EmptyStage, bagVars
  <2>2. StopInv'
    BY <1>0, <2>1 DEF StopInv, Messages
  <2>3. dropped' = dropped \/ (~open /\ dropped' = dropped \cup Messages(staged))
        \/ dropped' = dropped \cup Messages(<<>>)
    BY <1>4 DEF TakeStage
  <2>4. Messages(<<>>) = {}
    BY DEF Messages
  <2>5. StopKeepsWhatCameBefore'
    BY <2>1, <2>3, <2>4 DEF StopKeepsWhatCameBefore, StopInv, Stopping
  <2>6. QED
    BY <2>2, <2>5
<1>5. CASE Stage
  <2>1. Messages(staged') \subseteq Messages(staged) \cup {arrived}
    <3>1. Messages(Append(staged, arrived)) = Messages(staged) \cup {arrived}
      BY <1>0, MessagesFacts
    <3>2. QED
      BY <1>5, <3>1 DEF Stage
  <2>2. UNCHANGED <<open, returnedBefore, openedAfter, arrived, dropped>> /\ (Stopping' => Stopping)
    BY <1>0, <1>5 DEF Stage, Return, bagVars, Stopping, Threads
  <2>3. Fresh = arrived
    BY <1>5 DEF Stage, Fresh, BaseInv, LockDiscipline
  <2>4. QED
    BY <1>0, <2>1, <2>2, <2>3 DEF StopInv, StopKeepsWhatCameBefore
<1>6. CASE DropMessage
  <2>1. UNCHANGED <<open, returnedBefore, openedAfter, arrived, staged>> /\ ~open /\ dropped' = dropped \cup {arrived}
    BY <1>6 DEF DropMessage, bagVars, stageVars
  <2>2. Fresh = arrived
    BY <1>6 DEF DropMessage, Fresh
  <2>3. Stopping
    BY <2>1 DEF Stopping
  <2>4. StopInv'
    BY <1>0, <2>1, <2>3 DEF StopInv
  <2>5. arrived >= returnedBefore
    BY <2>2 DEF StopInv
  <2>6. StopKeepsWhatCameBefore'
    BY <2>1, <2>5 DEF StopKeepsWhatCameBefore
  <2>7. QED
    BY <2>4, <2>6
<1>7. ASSUME NEW t \in Threads, WriteStaged(t) PROVE StopInv' /\ StopKeepsWhatCameBefore'
  <2>1. Stopping' => Stopping
    BY <1>0, <1>7 DEF WriteStaged, AfterFlush, Leave, Return, Goto, threadVars, bagVars, Stopping, Threads
  <2>2. QED
    BY <1>0, <1>7, <2>1 DEF WriteStaged, bagVars, stageVars, StopInv, StopKeepsWhatCameBefore
<1>8. CASE /\ UNCHANGED <<open, staged, returnedBefore, openedAfter, dropped>>
           /\ arrived' = arrived \/ arrived' = arrived + 1
           /\ \A t \in Threads : pc'[t] \in {"drain", "stop"} => pc[t] = pc'[t] /\ op[t] = op'[t]
  <2>1. Stopping' => Stopping
    BY <1>8 DEF Stopping
  <2>2. QED
    BY <1>0, <1>8, <2>1 DEF StopInv, StopKeepsWhatCameBefore
<1>9. ASSUME NEW t \in Threads,
             TakeLock(t) \/ ReturnEarly(t) \/ BeginSlow(t) \/ SlowStep(t) \/ (\E c \in Calls(t) : Begin(t, c))
      PROVE  StopInv' /\ StopKeepsWhatCameBefore'
  <2>1. /\ UNCHANGED <<open, staged, returnedBefore, openedAfter, dropped, arrived>>
        /\ \A u \in Threads : pc'[u] \in {"drain", "stop"} => pc[u] = pc'[u] /\ op[u] = op'[u]
    BY <1>0, <1>9 DEF TakeLock, ReturnEarly, BeginSlow, SlowStep, CreateChannel, WriteEvent, Split, TakeSnapshot,
         CloseWriter, Begin, EndBusy, Leave, Return, Goto, bagVars, stageVars, Threads
  <2>2. QED
    BY <1>8, <2>1
<1>10. CASE Arrive \/ TryLock \/ FlushFirst \/ WriteMessage \/ TryLockFor \/ SeeBusy
  <2>1. /\ UNCHANGED <<open, staged, returnedBefore, openedAfter, dropped>>
        /\ arrived' = arrived \/ arrived' = arrived + 1
        /\ \A u \in Threads : pc'[u] \in {"drain", "stop"} => pc[u] = pc'[u] /\ op[u] = op'[u]
    BY <1>0, <1>10 DEF Arrive, TryLock, FlushFirst, WriteMessage, TryLockFor, SeeBusy, Leave, Return, Goto, bagVars,
         stageVars, Threads
  <2>2. QED
    BY <1>8, <2>1
<1>11. CASE UNCHANGED vars
  BY <1>8, <1>11 DEF vars, threadVars, bagVars, stageVars
<1>12. QED
  BY <1>1, <1>2, <1>3, <1>4, <1>5, <1>6, <1>7, <1>9, <1>10, <1>11 DEF Next, QuickStep, MessageStep

\* No message whose write() had returned when the bag was asked to close is
\* dropped, for any number of messages, stalls and bags: staged or not, it was
\* written, or counted as an error or a loss.
THEOREM StopCorrect == Spec => []StopKeepsWhatCameBefore
<1>1. Init => StopInv /\ StopKeepsWhatCameBefore
  BY NoCallIsNotWrite DEF Init, StopInv, StopKeepsWhatCameBefore, Messages, Fresh, Threads
<1>2. BaseInv /\ OpenWhileWriting /\ EveryMessageAccountedFor /\ (StopInv /\ StopKeepsWhatCameBefore) /\ [Next]_vars
        => (StopInv /\ StopKeepsWhatCameBefore)'
  BY StopStep
<1>3. QED
  BY <1>1, <1>2, BaseHolds, OpenHolds, NothingDisappears, PTL DEF Spec

-----------------------------------------------------------------------------
(* How full the stage is.                                                  *)

\* The running total of an empty stage.
LEMMA TotalOfNothing ==
  \E total \in [0..Len(<<>>) -> 0..MaxStaged] : RunningTotal(total, <<>>) /\ total[Len(<<>>)] = 0
<1> DEFINE zero == [i \in 0..0 |-> 0]
<1>1. Len(<<>>) = 0 /\ 1..0 = {}
  OBVIOUS
<1>2. zero \in [0..0 -> 0..MaxStaged] /\ zero[0] = 0
  BY BagAssumption DEF BagAssumption
<1> HIDE DEF zero
<1>3. RunningTotal(zero, <<>>)
  BY <1>1, <1>2 DEF RunningTotal
<1>4. QED
  BY <1>1, <1>2, <1>3

\* Staging a message that has room extends the running total by its size.
LEMMA TotalGrows ==
  ASSUME NEW s \in Seq(Nat), NEW n \in Nat, NEW b \in Nat, SizeOf(n) \in Nat, b + SizeOf(n) <= MaxStaged,
         NEW total \in [0..Len(s) -> 0..MaxStaged], RunningTotal(total, s), total[Len(s)] = b
  PROVE  \E longer \in [0..Len(Append(s, n)) -> 0..MaxStaged] :
           RunningTotal(longer, Append(s, n)) /\ longer[Len(Append(s, n))] = b + SizeOf(n)
<1> DEFINE longer == [i \in 0..Len(s) + 1 |-> IF i = Len(s) + 1 THEN b + SizeOf(n) ELSE total[i]]
<1>1. Len(Append(s, n)) = Len(s) + 1 /\ Len(s) \in Nat
  OBVIOUS
<1>2. longer \in [0..Len(s) + 1 -> 0..MaxStaged]
  BY <1>1, BagAssumption DEF BagAssumption
<1>3. longer[0] = 0
  BY <1>1 DEF RunningTotal
<1>4. ASSUME NEW i \in 1..Len(s) + 1
      PROVE  longer[i] = longer[i - 1] + SizeOf(Append(s, n)[i])
  <2>1. CASE i = Len(s) + 1
    <3>1. longer[i] = b + SizeOf(n) /\ longer[i - 1] = total[Len(s)] /\ Append(s, n)[i] = n
      BY <1>1, <2>1
    <3>2. QED
      BY <3>1
  <2>2. CASE i # Len(s) + 1
    <3>1. i \in 1..Len(s) /\ longer[i] = total[i] /\ longer[i - 1] = total[i - 1] /\ Append(s, n)[i] = s[i]
      BY <1>1, <2>2
    <3>2. QED
      BY <3>1 DEF RunningTotal
  <2>3. QED
    BY <2>1, <2>2
<1>5. longer[Len(s) + 1] = b + SizeOf(n)
  BY <1>1
<1> HIDE DEF longer
<1>6. QED
  BY <1>1, <1>2, <1>3, <1>4, <1>5 DEF RunningTotal

\* Every step keeps the stage's byte count equal to what it holds.
LEMMA StageStep == TypeOK /\ StageAccounting /\ [Next]_vars => StageAccounting'
<1> SUFFICES ASSUME TypeOK, StageAccounting, [Next]_vars PROVE StageAccounting'
  OBVIOUS
<1>1. CASE UNCHANGED <<staged, stagedBytes>>
  BY <1>1 DEF StageAccounting, RunningTotal
<1>2. CASE staged' = <<>> /\ stagedBytes' = 0
  BY <1>2, TotalOfNothing DEF StageAccounting, RunningTotal
<1>3. CASE Stage
  <2>1. /\ staged \in Seq(Nat) /\ arrived \in Nat /\ stagedBytes \in Nat
        /\ SizeOf(arrived) \in Nat
    BY BagAssumption DEF TypeOK, BagOK, StageOK, Numbers, BagAssumption
  <2>2. CASE stagedBytes + SizeOf(arrived) <= MaxStaged /\ stagedBytes' = stagedBytes + SizeOf(arrived)
             /\ staged' = Append(staged, arrived)
    <3>1. PICK sums \in [0..Len(staged) -> 0..MaxStaged] :
            RunningTotal(sums, staged) /\ sums[Len(staged)] = stagedBytes
      BY DEF StageAccounting
    <3>2. \E total \in [0..Len(staged') -> 0..MaxStaged] :
            RunningTotal(total, staged') /\ total[Len(staged')] = stagedBytes'
      BY <2>1, <2>2, <3>1, TotalGrows
    <3>3. QED
      BY <3>2 DEF StageAccounting, RunningTotal
  <2>3. QED
    BY <1>1, <1>3, <2>2 DEF Stage
<1>4. Stage \/ (staged' = <<>> /\ stagedBytes' = 0) \/ UNCHANGED <<staged, stagedBytes>>
  BY DEF Next, Begin, TakeLock, QuickStep, ReturnEarly, OpenBag, BeginSlow, BeginClose, MarkClosed, TakeStage,
         EmptyStage, WriteStaged, SlowStep, CreateChannel, WriteEvent, Split, TakeSnapshot, CloseWriter,
         MessageStep, Arrive, TryLock, TryLockFor, SeeBusy, DropMessage, FlushFirst, WriteMessage, vars, stageVars
<1>5. QED
  BY <1>1, <1>2, <1>3, <1>4

\* The stage's byte count is what it holds and never passes the limit, whatever
\* the sizes and the limit, through every flush and close.
THEOREM StageCorrect == Spec => []StageAccounting
<1>1. Init => StageAccounting
  BY TotalOfNothing DEF Init, StageAccounting
<1>2. QED
  BY <1>1, StageStep, TypeCorrect, PTL DEF Spec
=============================================================================
