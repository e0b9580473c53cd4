--------------------------- MODULE BagRefinement ---------------------------
(***************************************************************************)
(* The bag is a MessageLog: every step of either thread is a step of the   *)
(* first in, first out queue or leaves it as it is, for every value of     *)
(* Bag's constants.                                                        *)
(***************************************************************************)
EXTENDS BagAccounts, SequenceTheorems

\* What the argument takes from the invariants of the other modules.
RefInv == BaseInv /\ OpenWhileWriting

-----------------------------------------------------------------------------
(* Sequences at their ends.                                                *)

\* Taking the oldest of a queue whose front part has one.
LEMMA TakeOldest ==
  ASSUME NEW b \in Seq(Nat), NEW s \in Seq(Nat), b # <<>>
  PROVE  /\ b \o s \in Seq(Nat) /\ b \o s # <<>>
         /\ Head(b \o s) = Head(b) /\ Tail(b \o s) = Tail(b) \o s
<1>1. b \o s \in Seq(Nat) /\ Len(b \o s) = Len(b) + Len(s) /\ Len(b) > 0 /\ Len(s) \in Nat /\ Len(b) \in Nat
  OBVIOUS
<1>2. b \o s # <<>> /\ Head(b \o s) = Head(b)
  BY <1>1
<1>3. Tail(b \o s) \in Seq(Nat) /\ Tail(b) \o s \in Seq(Nat) /\ Len(Tail(b \o s)) = Len(Tail(b) \o s)
  BY <1>1, <1>2
<1>4. ASSUME NEW i \in 1..Len(Tail(b \o s)) PROVE Tail(b \o s)[i] = (Tail(b) \o s)[i]
  BY <1>1, <1>2
<1>5. QED
  BY <1>1, <1>2, <1>3, <1>4, SeqEqual

\* So it is with three parts.
LEMMA TakeOldestOfThree ==
  ASSUME NEW b \in Seq(Nat), NEW s \in Seq(Nat), NEW f \in Seq(Nat), b # <<>>
  PROVE  /\ b \o s \o f # <<>> /\ Head(b \o s \o f) = Head(b)
         /\ Tail(b \o s \o f) = Tail(b) \o s \o f
<1> DEFINE front == b \o s
<1>1. front \in Seq(Nat) /\ front # <<>> /\ Head(front) = Head(b) /\ Tail(front) = Tail(b) \o s
  BY TakeOldest
<1> HIDE DEF front
<1>2. front \o f # <<>> /\ Head(front \o f) = Head(front) /\ Tail(front \o f) = Tail(front) \o f
  BY <1>1, TakeOldest
<1>3. QED
  BY <1>1, <1>2 DEF front

\* Giving up the newest, when it is all the last part has.
LEMMA GiveUpNewest ==
  ASSUME NEW s \in Seq(Nat), NEW n \in Nat
  PROVE  s \o <<n>> # <<>> /\ SubSeq(s \o <<n>>, 1, Len(s \o <<n>>) - 1) = s
<1>1. s \o <<n>> \in Seq(Nat) /\ Len(s \o <<n>>) = Len(s) + 1 /\ Len(s) \in Nat
  OBVIOUS
<1>2. SubSeq(s \o <<n>>, 1, Len(s)) \in Seq(Nat) /\ Len(SubSeq(s \o <<n>>, 1, Len(s))) = Len(s)
  BY <1>1
<1>3. \A i \in 1..Len(s) : SubSeq(s \o <<n>>, 1, Len(s))[i] = s[i]
  BY <1>1
<1>4. SubSeq(s \o <<n>>, 1, Len(s)) = s
  BY <1>2, <1>3, SeqEqual
<1>5. QED
  BY <1>1, <1>4

\* Discarding the front part.
LEMMA DiscardFront ==
  ASSUME NEW s \in Seq(Nat), NEW f \in Seq(Nat)
  PROVE  SubSeq(s \o f, Len(s) + 1, Len(s \o f)) = f
<1>1. s \o f \in Seq(Nat) /\ Len(s \o f) = Len(s) + Len(f) /\ Len(s) \in Nat /\ Len(f) \in Nat
  OBVIOUS
<1>2. /\ SubSeq(s \o f, Len(s) + 1, Len(s \o f)) \in Seq(Nat)
      /\ Len(SubSeq(s \o f, Len(s) + 1, Len(s \o f))) = Len(f)
  BY <1>1
<1>3. \A i \in 1..Len(f) : SubSeq(s \o f, Len(s) + 1, Len(s \o f))[i] = f[i]
  BY <1>1
<1>4. QED
  BY <1>2, <1>3, SeqEqual

\* A message joins the back, and moves from the call into the stage.
LEMMA Joins ==
  ASSUME NEW b \in Seq(Nat), NEW s \in Seq(Nat), NEW n \in Nat
  PROVE  /\ b \o s \o <<>> = b \o s /\ <<>> \o s = s
         /\ b \o s \o <<n>> = Append(b \o s, n)
         /\ b \o Append(s, n) = b \o s \o <<n>>
<1>0. ASSUME NEW r \in Seq(Nat) PROVE Append(r, n) = r \o <<n>>
  <2>1. Append(r, n) \in Seq(Nat) /\ r \o <<n>> \in Seq(Nat) /\ Len(Append(r, n)) = Len(r \o <<n>>)
    OBVIOUS
  <2>2. \A i \in 1..Len(Append(r, n)) : Append(r, n)[i] = (r \o <<n>>)[i]
    OBVIOUS
  <2>3. QED
    BY <2>1, <2>2, SeqEqual
<1>1. b \o s \in Seq(Nat) /\ <<n>> \in Seq(Nat) /\ Append(s, n) = s \o <<n>>
  BY <1>0
<1>2. b \o s \o <<>> = b \o s /\ <<>> \o s = s
  BY <1>1, ConcatEmptySeq
<1>3. (b \o s) \o <<n>> = b \o (s \o <<n>>)
  BY <1>1, ConcatAssociative
<1>4. b \o s \o <<n>> = Append(b \o s, n)
  BY <1>0, <1>1
<1>5. QED
  BY <1>1, <1>2, <1>3, <1>4

-----------------------------------------------------------------------------
(* The steps.                                                              *)

\* The parts of the queue are sequences of numbers.
LEMMA QueueParts ==
  ASSUME RefInv
  PROVE  /\ log \in Seq(Nat) /\ batch \in Seq(Nat) /\ staged \in Seq(Nat) /\ arrived \in Nat
         /\ InFlight \in Seq(Nat) /\ Queue = batch \o staged \o InFlight
         /\ pc \in [Threads -> Labels] /\ op \in [Threads -> AllCalls] /\ open \in BOOLEAN
<1>1. log \in Seq(Nat) /\ batch \in Seq(Nat) /\ staged \in Seq(Nat) /\ arrived \in Nat
  BY OfNaturals DEF RefInv, BaseInv
<1>2. InFlight \in Seq(Nat)
  BY <1>1 DEF InFlight
<1>3. QED
  BY <1>1, <1>2 DEF RefInv, BaseInv, TypeOK, ThreadsOK, BagOK, Queue

\* A step that moves no message and neither opens nor closes is none of the queue's.
LEMMA MovesNothing ==
  ASSUME UNCHANGED <<open, arrived, log, batch, staged>>,
         op'["msg"] = Write <=> op["msg"] = Write
  PROVE  UNCHANGED FIFO!vars
<1>1. InFlight' = InFlight
  BY DEF InFlight
<1>2. QED
  BY <1>1 DEF FIFO!vars, Queue

\* Writing the oldest message of the queue records or refuses it.
LEMMA WritesOldest ==
  ASSUME NEW n \in Nat, NEW hasChannel, WriteLocked(n, hasChannel), open, UNCHANGED <<open, arrived>>,
         Queue # <<>>, n = Head(Queue), Queue' = Tail(Queue)
  PROVE  FIFO!Record \/ FIFO!Refuse
BY DEF WriteLocked, FIFO!Record, FIFO!Refuse

\* A message given up on its way in was the last of the queue.
LEMMA GivesUpNewest ==
  ASSUME RefInv, op["msg"] = Write, op'["msg"] # Write, UNCHANGED <<open, arrived, log, batch, staged>>
  PROVE  FIFO!GiveUp
<1>1. batch \o staged \in Seq(Nat) /\ Queue = batch \o staged \o <<arrived>> /\ Queue' = batch \o staged
  BY QueueParts, Joins DEF InFlight, Queue
<1>2. QED
  BY <1>1, QueueParts, GiveUpNewest DEF FIFO!GiveUp

\* Every step of the bag is a step of the queue or leaves it as it is.
LEMMA RefinementStep == RefInv /\ [Next]_vars => [FIFO!Next]_(FIFO!vars)
<1> SUFFICES ASSUME RefInv, [Next]_vars PROVE FIFO!Next \/ UNCHANGED FIFO!vars
  OBVIOUS
<1> USE DEF Threads
<1>0. /\ log \in Seq(Nat) /\ batch \in Seq(Nat) /\ staged \in Seq(Nat) /\ arrived \in Nat
      /\ InFlight \in Seq(Nat) /\ Queue = batch \o staged \o InFlight
      /\ pc \in [Threads -> Labels] /\ op \in [Threads -> AllCalls] /\ open \in BOOLEAN
      /\ LockDiscipline /\ OpenWhileWriting
  BY QueueParts DEF RefInv, BaseInv
<1>1. ASSUME NEW t \in Threads, NEW c \in Calls(t), Begin(t, c) PROVE UNCHANGED FIFO!vars
  <2>1. c # Write
    BY DEF Calls, Write, Call
  <2>2. op["msg"] # Write \/ t # "msg"
    BY <1>0, <1>1, NoCallIsNotWrite DEF Begin, OpenWhileWriting
  <2>3. QED
    BY <1>0, <1>1, <2>1, <2>2, MovesNothing DEF Begin, writerVars, bagVars, stageVars
<1>2. ASSUME NEW t \in Threads,
             TakeLock(t) \/ BeginSlow(t) \/ BeginClose(t) \/ CreateChannel(t) \/ Split(t)
               \/ TakeSnapshot(t) \/ CloseWriter(t)
      PROVE  UNCHANGED FIFO!vars
  BY <1>2, MovesNothing DEF TakeLock, BeginSlow, BeginClose, CreateChannel, Split, TakeSnapshot, CloseWriter,
       EndBusy, Goto, writerVars, bagVars, stageVars
<1>3. ASSUME NEW t \in Threads, ReturnEarly(t) PROVE UNCHANGED FIFO!vars
  <2>1. op[t] # Write
    BY <1>3 DEF ReturnEarly, ReturnsEarly, Write, Call
  <2>2. QED
    BY <1>0, <1>3, <2>1, MovesNothing, NoCallIsNotWrite
       DEF ReturnEarly, Leave, Return, writerVars, bagVars, stageVars
<1>4. ASSUME NEW t \in Threads, OpenBag(t) PROVE FIFO!StartOrStop \/ UNCHANGED FIFO!vars
  <2>1. InFlight' = InFlight /\ Queue' = Queue
    <3>1. op[t] # Write
      BY <1>4 DEF OpenBag, Write, Call
    <3>2. (op'["msg"] = Write <=> op["msg"] = Write) /\ UNCHANGED <<batch, staged, arrived>>
      BY <1>0, <1>4, <3>1, NoCallIsNotWrite DEF OpenBag, Leave, Return, stageVars
    <3>3. QED
      BY <3>2 DEF InFlight, Queue
  <2>2. QED
    BY <1>4, <2>1 DEF OpenBag, bagVars, FIFO!StartOrStop, FIFO!vars
<1>5. ASSUME NEW t \in Threads, MarkClosed(t) PROVE FIFO!StartOrStop
  <2>1. open
    BY <1>0, <1>5 DEF MarkClosed, OpenWhileWriting
  <2>2. Queue' = Queue
    BY <1>5 DEF MarkClosed, Goto, stageVars, Queue, InFlight
  <2>3. QED
    BY <1>5, <2>1, <2>2 DEF MarkClosed, writerVars, FIFO!StartOrStop
<1>6. ASSUME NEW t \in Threads, WriteEvent(t) PROVE FIFO!RecordEvent \/ UNCHANGED FIFO!vars
  <2>1. open /\ UNCHANGED <<open, arrived, Queue>>
    BY <1>0, <1>6 DEF WriteEvent, OpenWhileWriting, EndBusy, Goto, bagVars, stageVars, Queue, InFlight
  <2>2. log' = Append(log, 0) \/ log' = log
    BY <1>6 DEF WriteEvent, WriteLocked, writerVars
  <2>3. QED
    BY <2>1, <2>2 DEF FIFO!RecordEvent, FIFO!vars
<1>7. ASSUME NEW t \in Threads, TakeStage(t) PROVE FIFO!Discard \/ UNCHANGED FIFO!vars
  <2>1. batch = <<>>
    BY <1>0, <1>7 DEF TakeStage, LockDiscipline, Holds
  <2>2. /\ UNCHANGED <<open, arrived, log, InFlight>> /\ staged' = <<>>
    <3>1. op'["msg"] = Write <=> op["msg"] = Write
      BY <1>0, <1>7, OnlyWrite, NoCallIsNotWrite
         DEF TakeStage, AfterFlush, Goto, Leave, Return, LockDiscipline, Write, Call
    <3>2. QED
      BY <1>7, <3>1 DEF TakeStage, EmptyStage, InFlight, writerVars, bagVars
  <2>3. CASE batch' = staged
    <3>1. batch \o staged = batch' \o staged'
      BY <1>0, <2>1, <2>2, <2>3, Joins, ConcatEmptySeq
    <3>2. QED
      BY <2>2, <3>1 DEF Queue, FIFO!vars
  <2>4. CASE batch' = batch /\ staged = <<>>
    BY <2>2, <2>4 DEF Queue, FIFO!vars
  <2>5. CASE batch' = batch /\ ~open /\ staged # <<>>
    <3>1. Queue = staged \o InFlight /\ Queue' = InFlight
      BY <1>0, <2>1, <2>2, <2>5, ConcatEmptySeq DEF Queue
    <3>2. Len(staged) \in 1..Len(Queue)
      BY <1>0, <2>5, <3>1
    <3>3. Queue' = SubSeq(Queue, Len(staged) + 1, Len(Queue))
      BY <1>0, <3>1, DiscardFront
    <3>4. QED
      BY <2>2, <2>5, <3>2, <3>3 DEF FIFO!Discard
  <2>6. QED
    BY <1>7, <2>3, <2>4, <2>5 DEF TakeStage
<1>8. ASSUME NEW t \in Threads, WriteStaged(t) PROVE FIFO!Record \/ FIFO!Refuse
  <2>1. open /\ batch # <<>> /\ Head(batch) \in Nat /\ batch' = Tail(batch) /\ UNCHANGED <<open, arrived, staged>>
    BY <1>0, <1>8 DEF WriteStaged, OpenWhileWriting, bagVars, stageVars
  <2>2. InFlight' = InFlight
    <3>1. op'["msg"] = Write <=> op["msg"] = Write
      BY <1>0, <1>8, NoCallIsNotWrite
         DEF WriteStaged, AfterFlush, Goto, Leave, Return, threadVars, Write, Call
    <3>2. QED
      BY <2>1, <3>1 DEF InFlight
  <2>3. /\ batch \o staged \o InFlight # <<>> /\ Head(batch \o staged \o InFlight) = Head(batch)
        /\ Tail(batch \o staged \o InFlight) = Tail(batch) \o staged \o InFlight
    <3>1. batch \in Seq(Nat) /\ staged \in Seq(Nat) /\ InFlight \in Seq(Nat) /\ batch # <<>>
      BY <1>0, <2>1
    <3>2. QED
      BY <3>1, TakeOldestOfThree
  <2>4. Queue # <<>> /\ Head(Queue) = Head(batch) /\ Queue' = Tail(Queue)
    BY <2>1, <2>2, <2>3 DEF Queue
  <2>5. QED
    BY <1>8, <2>1, <2>4, WritesOldest DEF WriteStaged
<1>9. CASE Arrive
  <2>1. op["msg"] # Write /\ op'["msg"] = Write /\ arrived' = arrived + 1
    BY <1>0, <1>9, NoCallIsNotWrite DEF Arrive, OpenWhileWriting
  <2>2. Queue = batch \o staged /\ Queue' = batch \o staged \o <<arrived'>>
    BY <1>0, <1>9, <2>1, Joins DEF Arrive, stageVars, Queue, InFlight
  <2>3. Queue' = Append(Queue, arrived')
    <3>1. batch \o staged \o <<arrived + 1>> = Append(batch \o staged, arrived + 1)
      <4>1. arrived + 1 \in Nat
        BY <1>0
      <4>2. QED
        BY <1>0, <4>1, Joins, Zenon
    <3>2. QED
      BY <2>1, <2>2, <3>1
  <2>4. QED
    BY <1>9, <2>3 DEF Arrive, writerVars, bagVars, FIFO!Offer, FIFO!Next
<1>10. CASE TryLock \/ FlushFirst \/ TryLockFor \/ SeeBusy
  BY <1>10, MovesNothing DEF TryLock, FlushFirst, TryLockFor, SeeBusy, Goto, writerVars, bagVars, stageVars
<1>11. CASE Stage
  <2>1. op["msg"] = Write /\ op'["msg"] # Write /\ UNCHANGED <<open, arrived, log, batch>>
    BY <1>0, <1>11, NoCallIsNotWrite DEF Stage, Return, LockDiscipline, writerVars, bagVars
  <2>2. CASE staged' = Append(staged, arrived)
    <3>1. Queue = batch \o staged \o <<arrived>> /\ Queue' = batch \o staged' \o <<>>
      BY <2>1 DEF Queue, InFlight
    <3>2. batch \o Append(staged, arrived) = batch \o staged \o <<arrived>>
      BY <1>0, Joins
    <3>3. batch \o Append(staged, arrived) \o <<>> = batch \o Append(staged, arrived)
      BY <1>0, ConcatEmptySeq
    <3>4. Queue' = Queue
      BY <2>2, <3>1, <3>2, <3>3
    <3>5. QED
      BY <2>1, <3>4 DEF FIFO!vars
  <2>3. CASE staged' = staged
    BY <2>1, <2>3, GivesUpNewest DEF FIFO!Next
  <2>4. QED
    BY <1>11, <2>2, <2>3 DEF Stage
<1>12. CASE DropMessage
  <2>1. op'["msg"] # Write
    BY <1>0, <1>12, NoCallIsNotWrite DEF DropMessage, Leave, Return
  <2>2. QED
    BY <1>12, <2>1, GivesUpNewest DEF DropMessage, writerVars, bagVars, stageVars, FIFO!Next
<1>13. CASE WriteMessage
  <2>1. /\ op["msg"] = Write /\ op'["msg"] # Write /\ open
        /\ UNCHANGED <<open, arrived, batch, staged>> /\ WriteLocked(arrived, TopicOf(arrived) \in channels)
    BY <1>0, <1>13, NoCallIsNotWrite
       DEF WriteMessage, Leave, Return, LockDiscipline, OpenWhileWriting, bagVars, stageVars
  <2>2. batch = <<>> /\ staged = <<>>
    BY <1>0, <1>13 DEF WriteMessage, LockDiscipline, Holds
  <2>3. Queue = <<arrived>> /\ Queue' = <<>>
    BY <1>0, <2>1, <2>2, ConcatEmptySeq DEF Queue, InFlight
  <2>4. Queue # <<>> /\ Head(Queue) = arrived /\ Tail(Queue) = <<>>
    BY <1>0, <2>3
  <2>5. QED
    BY <1>0, <2>1, <2>3, <2>4, WritesOldest DEF FIFO!Next
<1>14. CASE UNCHANGED vars
  BY <1>14, MovesNothing DEF vars, threadVars, writerVars, bagVars, stageVars
<1>15. QED
  BY <1>1, <1>2, <1>3, <1>4, <1>5, <1>6, <1>7, <1>8, <1>9, <1>10, <1>11, <1>12, <1>13, <1>14
     DEF Next, QuickStep, SlowStep, MessageStep, FIFO!Next

\* The bag implements the message log: first in, first out, recording only while
\* it is open, for any number of messages, bags, stalls and errors.
THEOREM BagIsAMessageLog == Spec => ImplementsMessageLog
<1>1. Init => FIFO!Init
  <2> SUFFICES ASSUME Init PROVE FIFO!Init
    OBVIOUS
  <2>1. InFlight = <<>> /\ batch = <<>> /\ staged = <<>>
    BY NoCallIsNotWrite DEF Init, InFlight, Threads
  <2>2. Queue = <<>>
    BY <2>1, ConcatEmptySeq DEF Queue
  <2>3. QED
    BY <2>2 DEF Init, FIFO!Init
<1>2. QED
  BY <1>1, RefinementStep, BaseHolds, OpenHolds, PTL DEF Spec, RefInv, ImplementsMessageLog, FIFO!Spec
=============================================================================
