----------------------------- MODULE BagProofs -----------------------------
(***************************************************************************)
(* Theorems about Bag for every value of its constants.                    *)
(***************************************************************************)
EXTENDS Bag, TLAPS

\* What the arguments of a call are, from the kind of call it is.
LEMMA CallArguments ==
  ASSUME NEW c \in AllCalls
  PROVE  /\ c.kind = "channel" => c.arg \in Topics
         /\ c.kind = "split" => c.arg \in Reasons
<1>1. CASE c \in {Call(k, "none") : k \in {"none", "write", "open", "close", "snapshot", "event", "query"}}
  <2>1. c.kind \in {"none", "write", "open", "close", "snapshot", "event", "query"}
    BY <1>1 DEF Call
  <2>2. QED
    BY <2>1
<1>2. CASE c \in {Call("channel", topic) : topic \in Topics}
  BY <1>2 DEF Call
<1>3. CASE c \in {Call("split", r) : r \in Reasons}
  BY <1>3 DEF Call
<1>4. QED
  BY <1>1, <1>2, <1>3 DEF AllCalls

\* An idle thread is not in write().
LEMMA NoCallIsNotWrite == NoCall # Write
BY DEF NoCall, Write, Call

\* write() is the one call of its kind.
LEMMA OnlyWrite ==
  ASSUME NEW c \in AllCalls, c.kind = "write"
  PROVE  c = Write
<1>1. ~ c \in {Call("channel", topic) : topic \in Topics} \cup {Call("split", r) : r \in Reasons}
  BY DEF Call
<1>2. PICK k \in {"none", "write", "open", "close", "snapshot", "event", "query"} : c = Call(k, "none")
  BY <1>1 DEF AllCalls
<1>3. k = "write"
  BY <1>2 DEF Call
<1>4. QED
  BY <1>2, <1>3 DEF Write

\* The calls a thread is in while it writes and while it is idle are calls.
LEMMA EndedCall == NoCall \in AllCalls /\ Write \in AllCalls
BY DEF AllCalls, NoCall, Write

\* A step to a label, and the return from a call, keep the types of pc and op.
LEMMA MoveType ==
  ASSUME ThreadsOK, NEW t \in Threads
  PROVE  /\ \A l \in Labels : Goto(t, l) => pc' \in [Threads -> Labels] /\ op' \in [Threads -> AllCalls]
         /\ Return(t) => pc' \in [Threads -> Labels] /\ op' \in [Threads -> AllCalls]
BY EndedCall DEF ThreadsOK, Goto, Return, Labels

\* So does whatever follows flush_staged_locked().
LEMMA AfterFlushType ==
  ASSUME ThreadsOK, NEW t \in Threads, AfterFlush(t)
  PROVE  /\ pc' \in [Threads -> Labels] /\ op' \in [Threads -> AllCalls]
         /\ lock' \in Threads \cup {"none"}
<1>1. {"write", "stop"} \subseteq Labels
  BY DEF Labels
<1>2. QED
  BY <1>1, MoveType DEF AfterFlush, Leave, ThreadsOK

\* A rollover and write_locked() keep the types of what they change.
LEMMA RolloverType ==
  ASSUME WriterOK, NEW asked \in Reasons \cup {NoReason}, Rollover(asked)
  PROVE  rollovers' \subseteq RolloverRecords /\ splits' \in Nat
<1>1. [asked |-> asked, told |-> splitReason] \in RolloverRecords
  BY DEF WriterOK, RolloverRecords
<1>2. QED
  BY <1>1 DEF WriterOK, Rollover

\* So does write_locked(), whatever the writer does with the message.
LEMMA WriteLockedType ==
  ASSUME WriterOK, NEW n \in Numbers, NEW hasChannel, WriteLocked(n, hasChannel)
  PROVE  /\ log' \in Seq(Numbers) /\ failed' \subseteq Numbers
         /\ messages_written' \in Nat /\ write_errors' \in Nat /\ splits' \in Nat
         /\ rollovers' \subseteq RolloverRecords
<1>1. rollovers' \subseteq RolloverRecords /\ splits' \in Nat
  <2>1. CASE UNCHANGED <<splits, rollovers>>
    BY <2>1 DEF WriterOK
  <2>2. CASE Rollover(NoReason)
    BY <2>2, RolloverType
  <2>3. QED
    BY <2>1, <2>2 DEF WriteLocked
<1>2. log' \in Seq(Numbers)
  BY DEF WriterOK, WriteLocked
<1>3. failed' \subseteq Numbers /\ messages_written' \in Nat /\ write_errors' \in Nat
  BY DEF WriterOK, WriteLocked
<1>4. QED
  BY <1>1, <1>2, <1>3

\* Parts no step of an action touches keep their types.
LEMMA SameParts ==
  ASSUME TypeOK
  PROVE  /\ UNCHANGED <<lock, busy, threadVars>> => ThreadsOK'
         /\ UNCHANGED <<writerVars, splitReason>> => WriterOK'
         /\ UNCHANGED <<bagVars, arrived>> => BagOK'
         /\ UNCHANGED <<stageVars, batch, dropped>> => StageOK'
BY DEF TypeOK, ThreadsOK, WriterOK, BagOK, StageOK, threadVars, writerVars, counters, bagVars,
       stageVars

\* Every step of either thread keeps the types.
LEMMA TypeStep == TypeOK /\ [Next]_vars => TypeOK'
<1> SUFFICES ASSUME TypeOK, [Next]_vars PROVE TypeOK'
  OBVIOUS
<1>0. ThreadsOK /\ WriterOK /\ BagOK /\ StageOK
  BY DEF TypeOK
<1>1. ASSUME NEW t \in Threads, NEW c \in Calls(t), Begin(t, c) PROVE TypeOK'
  <2>1. ThreadsOK'
    BY <1>1, <1>0 DEF Begin, Calls, ThreadsOK, Labels
  <2>2. QED
    BY <2>1, <1>1, SameParts DEF Begin, TypeOK
<1>2. ASSUME NEW t \in Threads, TakeLock(t) PROVE TypeOK'
  <2>1. ThreadsOK'
    BY <1>2, <1>0, MoveType DEF TakeLock, ThreadsOK, Labels
  <2>2. QED
    BY <2>1, <1>2, SameParts DEF TakeLock, TypeOK
<1>3. ASSUME NEW t \in Threads, ReturnEarly(t) PROVE TypeOK'
  <2>1. ThreadsOK'
    BY <1>3, <1>0, MoveType DEF ReturnEarly, Leave, ThreadsOK
  <2>2. QED
    BY <2>1, <1>3, SameParts DEF ReturnEarly, TypeOK
<1>4. ASSUME NEW t \in Threads, OpenBag(t) PROVE TypeOK'
  <2>1. ThreadsOK'
    BY <1>4, <1>0, MoveType DEF OpenBag, ResetCounters, Leave, ThreadsOK
  <2>2. WriterOK'
    BY <1>4, <1>0 DEF OpenBag, ResetCounters, WriterOK, counters
  <2>3. BagOK'
    <3>1. Len(log) \in Nat
      BY <1>0 DEF WriterOK
    <3>2. CASE UNCHANGED <<channels, counters, bagVars>>
      BY <1>4, <3>2, SameParts DEF OpenBag, ResetCounters
    <3>3. CASE /\ open' = TRUE /\ bags' = bags + 1
               /\ logStart' = Len(log) /\ openedAfter' = arrived
               /\ UNCHANGED <<returnedBefore, arrived>>
      BY <1>0, <3>1, <3>3 DEF BagOK
    <3>4. QED
      BY <1>4, <3>2, <3>3 DEF OpenBag, ResetCounters
  <2>4. QED
    BY <2>1, <2>2, <2>3, <1>4, SameParts DEF OpenBag, ResetCounters, TypeOK
<1>5. ASSUME NEW t \in Threads, BeginSlow(t) PROVE TypeOK'
  <2>1. ThreadsOK'
    BY <1>5, <1>0, MoveType DEF BeginSlow, ThreadsOK, Labels
  <2>2. WriterOK'
    BY <1>5, <1>0, CallArguments DEF BeginSlow, WriterOK, ThreadsOK, writerVars, counters
  <2>3. QED
    BY <2>1, <2>2, <1>5, SameParts DEF BeginSlow, TypeOK
<1>6. ASSUME NEW t \in Threads, BeginClose(t) PROVE TypeOK'
  <2>1. ThreadsOK'
    BY <1>6, <1>0, MoveType DEF BeginClose, ThreadsOK, Labels
  <2>2. BagOK'
    BY <1>6, <1>0 DEF BeginClose, BagOK, Fresh, Numbers
  <2>3. QED
    BY <2>1, <2>2, <1>6, SameParts DEF BeginClose, TypeOK
<1>7. ASSUME NEW t \in Threads, MarkClosed(t) PROVE TypeOK'
  <2>1. ThreadsOK'
    BY <1>7, <1>0, MoveType DEF MarkClosed, ThreadsOK, Labels
  <2>2. BagOK'
    BY <1>7, <1>0 DEF MarkClosed, BagOK
  <2>3. QED
    BY <2>1, <2>2, <1>7, SameParts DEF MarkClosed, TypeOK
<1>8. ASSUME NEW t \in Threads, TakeStage(t) PROVE TypeOK'
  <2>1. ThreadsOK'
    BY <1>8, <1>0, MoveType, AfterFlushType DEF TakeStage, EmptyStage, ThreadsOK, Labels
  <2>2. StageOK'
    BY <1>8, <1>0 DEF TakeStage, EmptyStage, StageOK, Messages
  <2>3. QED
    BY <2>1, <2>2, <1>8, SameParts DEF TakeStage, EmptyStage, TypeOK
<1>9. ASSUME NEW t \in Threads, WriteStaged(t) PROVE TypeOK'
  <2>1. Head(batch) \in Numbers /\ Tail(batch) \in Seq(Numbers)
    BY <1>9, <1>0 DEF WriteStaged, StageOK
  <2>2. ThreadsOK'
    BY <1>9, <1>0, AfterFlushType DEF WriteStaged, ThreadsOK, threadVars
  <2>3. WriterOK'
    BY <1>9, <1>0, <2>1, WriteLockedType DEF WriteStaged, WriterOK
  <2>4. StageOK'
    BY <1>9, <1>0, <2>1 DEF WriteStaged, StageOK, stageVars
  <2>5. QED
    BY <2>2, <2>3, <2>4, <1>9, SameParts DEF WriteStaged, TypeOK
<1>10. ASSUME NEW t \in Threads, CreateChannel(t) PROVE TypeOK'
  <2>1. ThreadsOK'
    BY <1>10, <1>0, MoveType DEF CreateChannel, EndBusy, ThreadsOK, Labels
  <2>2. WriterOK'
    <3>1. op[t].arg \in Topics
      BY <1>10, <1>0, CallArguments DEF CreateChannel, ThreadsOK
    <3>2. channels' \subseteq Topics \cup {EventTopic}
      BY <1>10, <1>0, <3>1 DEF CreateChannel, WriterOK
    <3>3. UNCHANGED <<log, counters, rollovers, failed, splitReason>>
      BY <1>10 DEF CreateChannel
    <3>4. QED
      BY <1>0, <3>2, <3>3 DEF WriterOK, counters
  <2>3. QED
    BY <2>1, <2>2, <1>10, SameParts DEF CreateChannel, TypeOK
<1>11. ASSUME NEW t \in Threads, WriteEvent(t) PROVE TypeOK'
  <2>1. ThreadsOK'
    BY <1>11, <1>0, MoveType DEF WriteEvent, EndBusy, ThreadsOK, Labels
  <2>2. WriterOK'
    <3>1. CASE UNCHANGED writerVars
      BY <1>11, <3>1, SameParts DEF WriteEvent
    <3>2. CASE channels' = channels \cup {EventTopic} /\ WriteLocked(0, TRUE)
      <4>1. 0 \in Numbers
        BY BagAssumption DEF BagAssumption, Numbers
      <4>2. QED
        <5>1. log' \in Seq(Numbers) /\ failed' \subseteq Numbers /\ rollovers' \subseteq RolloverRecords
        BY <1>0, <3>2, <4>1, WriteLockedType
      <5>2. messages_written' \in Nat /\ write_errors' \in Nat /\ splits' \in Nat
        BY <1>0, <3>2, <4>1, WriteLockedType
      <5>3. channels' \subseteq Topics \cup {EventTopic} /\ splitReason' \in Reasons \cup {NoReason}
        BY <1>11, <1>0, <3>2 DEF WriteEvent, WriterOK
      <5>4. QED
        BY <5>1, <5>2, <5>3 DEF WriterOK
    <3>3. QED
      BY <1>11, <3>1, <3>2 DEF WriteEvent
  <2>3. QED
    BY <2>1, <2>2, <1>11, SameParts DEF WriteEvent, TypeOK
<1>12. ASSUME NEW t \in Threads, Split(t) PROVE TypeOK'
  <2>1. ThreadsOK'
    BY <1>12, <1>0, MoveType DEF Split, EndBusy, ThreadsOK, Labels
  <2>2. WriterOK'
    BY <1>12, <1>0, CallArguments, RolloverType DEF Split, WriterOK, ThreadsOK
  <2>3. QED
    BY <2>1, <2>2, <1>12, SameParts DEF Split, TypeOK
<1>13. ASSUME NEW t \in Threads, TakeSnapshot(t) PROVE TypeOK'
  <2>1. ThreadsOK'
    BY <1>13, <1>0, MoveType DEF TakeSnapshot, EndBusy, ThreadsOK, Labels
  <2>2. QED
    BY <2>1, <1>13, SameParts DEF TakeSnapshot, TypeOK
<1>14. ASSUME NEW t \in Threads, CloseWriter(t) PROVE TypeOK'
  <2>1. ThreadsOK'
    BY <1>14, <1>0, MoveType DEF CloseWriter, EndBusy, ThreadsOK, Labels
  <2>2. QED
    BY <2>1, <1>14, SameParts DEF CloseWriter, TypeOK
<1>15. CASE Arrive
  <2>1. ThreadsOK'
    BY <1>15, <1>0, EndedCall DEF Arrive, ThreadsOK, Labels, Threads
  <2>2. BagOK'
    BY <1>15, <1>0, BagAssumption DEF Arrive, BagOK, bagVars, Numbers, BagAssumption
  <2>3. QED
    BY <2>1, <2>2, <1>15, SameParts DEF Arrive, TypeOK
<1>16. CASE TryLock
  <2>1. ThreadsOK'
    BY <1>16, <1>0, MoveType DEF TryLock, ThreadsOK, Labels, Threads
  <2>2. QED
    BY <2>1, <1>16, SameParts DEF TryLock, TypeOK
<1>17. CASE TryLockFor
  <2>1. ThreadsOK'
    BY <1>17, <1>0, MoveType DEF TryLockFor, ThreadsOK, Labels, Threads
  <2>2. QED
    BY <2>1, <1>17, SameParts DEF TryLockFor, TypeOK
<1>18. CASE SeeBusy
  <2>1. ThreadsOK'
    BY <1>18, <1>0, MoveType DEF SeeBusy, ThreadsOK, Labels, Threads
  <2>2. QED
    BY <2>1, <1>18, SameParts DEF SeeBusy, TypeOK
<1>19. CASE Stage
  <2>1. ThreadsOK'
    BY <1>19, <1>0, MoveType DEF Stage, ThreadsOK, Threads
  <2>2. StageOK'
    <3>1. arrived \in Numbers /\ SizeOf(arrived) \in Nat
      BY <1>0, BagAssumption DEF BagOK, Numbers, BagAssumption
    <3>2. staged' \in Seq(Numbers) /\ stagedBytes' \in Nat
      <4>1. Append(staged, arrived) \in Seq(Numbers)
        BY <1>0, <3>1 DEF StageOK
      <4>2. stagedBytes + SizeOf(arrived) \in Nat
        BY <1>0, <3>1 DEF StageOK
      <4>3. QED
        BY <1>19, <1>0, <4>1, <4>2 DEF Stage, StageOK
    <3>3. lateStaged' \subseteq Numbers /\ lost' \subseteq Numbers
      BY <1>19, <1>0, <3>1 DEF Stage, StageOK
    <3>4. batch' \in Seq(Numbers) /\ dropped' \subseteq Numbers
      BY <1>19, <1>0 DEF Stage, StageOK
    <3>5. QED
      BY <3>2, <3>3, <3>4 DEF StageOK
  <2>3. QED
    BY <2>1, <2>2, <1>19, SameParts DEF Stage, TypeOK
<1>20. CASE DropMessage
  <2>1. ThreadsOK'
    BY <1>20, <1>0, MoveType DEF DropMessage, Leave, ThreadsOK, Threads
  <2>2. StageOK'
    BY <1>20, <1>0 DEF DropMessage, StageOK, BagOK, stageVars
  <2>3. QED
    BY <2>1, <2>2, <1>20, SameParts DEF DropMessage, TypeOK
<1>21. CASE FlushFirst
  <2>1. ThreadsOK'
    BY <1>21, <1>0, MoveType DEF FlushFirst, ThreadsOK, Labels, Threads
  <2>2. QED
    BY <2>1, <1>21, SameParts DEF FlushFirst, TypeOK
<1>22. CASE WriteMessage
  <2>1. ThreadsOK'
    BY <1>22, <1>0, MoveType DEF WriteMessage, Leave, ThreadsOK, Threads
  <2>2. WriterOK'
    BY <1>22, <1>0, WriteLockedType DEF WriteMessage, WriterOK, BagOK
  <2>3. QED
    BY <2>1, <2>2, <1>22, SameParts DEF WriteMessage, TypeOK
<1>23. CASE UNCHANGED vars
  BY <1>23, SameParts DEF vars, TypeOK
<1>24. QED
  BY <1>1, <1>2, <1>3, <1>4, <1>5, <1>6, <1>7, <1>8, <1>9, <1>10, <1>11, <1>12, <1>13, <1>14, <1>15, <1>16, <1>17, <1>18, <1>19, <1>20, <1>21, <1>22, <1>23
     DEF Next, QuickStep, SlowStep, MessageStep

\* The type invariant holds of every behaviour of the bag.
THEOREM TypeCorrect == Spec => []TypeOK
<1>1. Init => TypeOK
  <2> SUFFICES ASSUME Init PROVE TypeOK
    OBVIOUS
  <2>1. 0 \in Numbers
    BY BagAssumption DEF BagAssumption, Numbers
  <2>2. ThreadsOK
    BY EndedCall DEF Init, ThreadsOK, Labels
  <2>3. WriterOK
    BY DEF Init, WriterOK
  <2>4. BagOK
    BY <2>1 DEF Init, BagOK
  <2>5. StageOK
    BY DEF Init, StageOK
  <2>6. QED
    BY <2>2, <2>3, <2>4, <2>5 DEF TypeOK
<1>2. QED
  BY <1>1, TypeStep, PTL DEF Spec

-----------------------------------------------------------------------------
(* The stage is left with at most one message.                             *)

\* Every step keeps the stage to the one message that saw busy_ before it
\* cleared: a second would find busy_ set again, and then a flush is to come.
LEMMA LeftoverStep == TypeOK /\ StageLeftover /\ [Next]_vars => StageLeftover'
<1> SUFFICES ASSUME TypeOK, StageLeftover, [Next]_vars PROVE StageLeftover'
  OBVIOUS
<1> USE DEF TypeOK, ThreadsOK, StageLeftover, FlushPending, Threads, Goto, Return, Leave, EndBusy,
            stageVars, threadVars
<1>1. ASSUME NEW t \in Threads, NEW c \in Calls(t), Begin(t, c) PROVE StageLeftover'
  BY <1>1 DEF Begin
<1>2. ASSUME NEW t \in Threads, TakeLock(t) PROVE StageLeftover'
  BY <1>2 DEF TakeLock
<1>3. ASSUME NEW t \in Threads, ReturnEarly(t) PROVE StageLeftover'
  BY <1>3 DEF ReturnEarly
<1>4. ASSUME NEW t \in Threads, OpenBag(t) PROVE StageLeftover'
  BY <1>4 DEF OpenBag, ResetCounters
<1>5. ASSUME NEW t \in Threads, BeginSlow(t) PROVE StageLeftover'
  BY <1>5 DEF BeginSlow
<1>6. ASSUME NEW t \in Threads, BeginClose(t) PROVE StageLeftover'
  BY <1>6 DEF BeginClose
<1>7. ASSUME NEW t \in Threads, MarkClosed(t) PROVE StageLeftover'
  BY <1>7 DEF MarkClosed
<1>8. ASSUME NEW t \in Threads, TakeStage(t) PROVE StageLeftover'
  BY <1>8 DEF TakeStage, EmptyStage, AfterFlush
<1>9. ASSUME NEW t \in Threads, WriteStaged(t) PROVE StageLeftover'
  BY <1>9 DEF WriteStaged, AfterFlush
<1>10. ASSUME NEW t \in Threads, CreateChannel(t) PROVE StageLeftover'
  BY <1>10 DEF CreateChannel
<1>11. ASSUME NEW t \in Threads, WriteEvent(t) PROVE StageLeftover'
  BY <1>11 DEF WriteEvent
<1>12. ASSUME NEW t \in Threads, Split(t) PROVE StageLeftover'
  BY <1>12 DEF Split
<1>13. ASSUME NEW t \in Threads, TakeSnapshot(t) PROVE StageLeftover'
  BY <1>13 DEF TakeSnapshot
<1>14. ASSUME NEW t \in Threads, CloseWriter(t) PROVE StageLeftover'
  BY <1>14 DEF CloseWriter
<1>15. CASE Arrive
  BY <1>15 DEF Arrive
<1>16. CASE TryLock
  BY <1>16 DEF TryLock
<1>17. CASE TryLockFor
  BY <1>17 DEF TryLockFor
<1>18. CASE SeeBusy
  BY <1>18 DEF SeeBusy
<1>19. CASE Stage
  BY <1>19 DEF Stage, StageOK, BagOK
<1>20. CASE DropMessage
  BY <1>20 DEF DropMessage
<1>21. CASE FlushFirst
  BY <1>21 DEF FlushFirst
<1>22. CASE WriteMessage
  BY <1>22 DEF WriteMessage
<1>23. CASE UNCHANGED vars
  BY <1>23 DEF vars
<1>24. QED
  BY <1>1, <1>2, <1>3, <1>4, <1>5, <1>6, <1>7, <1>8, <1>9, <1>10, <1>11, <1>12, <1>13, <1>14, <1>15, <1>16, <1>17, <1>18, <1>19, <1>20, <1>21, <1>22, <1>23
     DEF Next, QuickStep, SlowStep, MessageStep

\* Whatever the stalls and however the threads interleave, once no slow
\* operation has the writer and none is about to flush, at most one message is
\* or will be staged.
THEOREM StageBounded == Spec => []StageLeftover
<1>1. Init => StageLeftover
  BY DEF Init, StageLeftover, Threads
<1>2. QED
  BY <1>1, TypeCorrect, LeftoverStep, PTL DEF Spec

-----------------------------------------------------------------------------
(* The lock discipline.                                                    *)

\* Every step keeps the discipline of mutex_: the critical sections exclude
\* each other, and what a thread found empty there stays empty under it.
LEMMA DisciplineStep == TypeOK /\ LockDiscipline /\ [Next]_vars => LockDiscipline'
<1> SUFFICES ASSUME TypeOK, LockDiscipline, [Next]_vars PROVE LockDiscipline'
  OBVIOUS
<1> USE DEF TypeOK, ThreadsOK, LockDiscipline, Holds, Threads, Goto, Return, Leave, EndBusy,
            stageVars, threadVars, bagVars, NoCall, Write, Call
<1>0. arrived \in Nat
  BY BagAssumption DEF BagOK, Numbers, BagAssumption
<1>1. ASSUME NEW t \in Threads, NEW c \in Calls(t), Begin(t, c) PROVE LockDiscipline'
  BY <1>1 DEF Begin, Calls
<1>2. ASSUME NEW t \in Threads, TakeLock(t) PROVE LockDiscipline'
  BY <1>2 DEF TakeLock
<1>3. ASSUME NEW t \in Threads, ReturnEarly(t) PROVE LockDiscipline'
  BY <1>3 DEF ReturnEarly
<1>4. ASSUME NEW t \in Threads, OpenBag(t) PROVE LockDiscipline'
  BY <1>4 DEF OpenBag, ResetCounters
<1>5. ASSUME NEW t \in Threads, BeginSlow(t) PROVE LockDiscipline'
  BY <1>5 DEF BeginSlow
<1>6. ASSUME NEW t \in Threads, BeginClose(t) PROVE LockDiscipline'
  BY <1>6 DEF BeginClose
<1>7. ASSUME NEW t \in Threads, MarkClosed(t) PROVE LockDiscipline'
  BY <1>7 DEF MarkClosed
<1>8. ASSUME NEW t \in Threads, TakeStage(t) PROVE LockDiscipline'
  <2>1. lock = t /\ batch = <<>> /\ \A u \in Threads \ {t} : ~Holds(u) /\ pc'[u] = pc[u] /\ op'[u] = op[u]
    BY <1>8 DEF TakeStage, EmptyStage, AfterFlush
  <2>2. CASE pc' = [pc EXCEPT ![t] = "drain"] /\ UNCHANGED <<op, lock>>
    BY <1>8, <2>1, <2>2 DEF TakeStage, EmptyStage
  <2>3. CASE op[t].kind = "write" /\ Goto(t, "write") /\ UNCHANGED <<lock, batch>>
    <3>1. t = "msg" /\ op[t] = Write
      BY <2>3, OnlyWrite
    <3>2. staged' = <<>> /\ pc'["msg"] = "write" /\ op' = op /\ arrived' = arrived
      BY <1>8, <2>3, <3>1 DEF TakeStage, EmptyStage
    <3>3. QED
      BY <2>1, <2>3, <3>1, <3>2
  <2>4. CASE op[t].kind = "close" /\ Goto(t, "stop") /\ UNCHANGED <<lock, batch>>
    BY <1>8, <2>1, <2>4 DEF TakeStage, EmptyStage
  <2>5. CASE Leave(t) /\ UNCHANGED batch
    BY <1>8, <2>1, <2>5 DEF TakeStage, EmptyStage
  <2>6. QED
    BY <1>8, <2>2, <2>3, <2>4, <2>5 DEF TakeStage, EmptyStage, AfterFlush
<1>9. ASSUME NEW t \in Threads, WriteStaged(t) PROVE LockDiscipline'
  <2>1. /\ lock = t /\ UNCHANGED staged
        /\ \A u \in Threads \ {t} : ~Holds(u) /\ pc'[u] = pc[u] /\ op'[u] = op[u]
    BY <1>9 DEF WriteStaged, AfterFlush
  <2>2. CASE Len(batch) # 1
    BY <1>9, <2>1, <2>2 DEF WriteStaged
  <2>3. CASE Len(batch) = 1
    <3>1. batch' = <<>>
      BY <1>9, <2>3 DEF WriteStaged, StageOK
    <3>2. CASE op[t].kind = "write" /\ Goto(t, "write") /\ UNCHANGED lock
      <4>1. t = "msg" /\ op[t] = Write
        BY <3>2, OnlyWrite
      <4>2. QED
        BY <1>9, <2>1, <3>1, <3>2, <4>1 DEF WriteStaged
    <3>3. CASE op[t].kind = "close" /\ Goto(t, "stop") /\ UNCHANGED lock
      BY <1>9, <2>1, <3>1, <3>3 DEF WriteStaged
    <3>4. CASE Leave(t)
      BY <1>9, <2>1, <3>1, <3>4 DEF WriteStaged
    <3>5. QED
      BY <1>9, <2>3, <3>2, <3>3, <3>4 DEF WriteStaged, AfterFlush
  <2>4. QED
    BY <2>2, <2>3
<1>10. ASSUME NEW t \in Threads, CreateChannel(t) PROVE LockDiscipline'
  BY <1>10 DEF CreateChannel
<1>11. ASSUME NEW t \in Threads, WriteEvent(t) PROVE LockDiscipline'
  BY <1>11 DEF WriteEvent
<1>12. ASSUME NEW t \in Threads, Split(t) PROVE LockDiscipline'
  BY <1>12 DEF Split
<1>13. ASSUME NEW t \in Threads, TakeSnapshot(t) PROVE LockDiscipline'
  BY <1>13 DEF TakeSnapshot
<1>14. ASSUME NEW t \in Threads, CloseWriter(t) PROVE LockDiscipline'
  BY <1>14 DEF CloseWriter
<1>15. CASE Arrive
  BY <1>0, <1>15 DEF Arrive
<1>16. CASE TryLock
  BY <1>16 DEF TryLock
<1>17. CASE TryLockFor
  BY <1>17 DEF TryLockFor
<1>18. CASE SeeBusy
  BY <1>18 DEF SeeBusy
<1>19. CASE Stage
  BY <1>19 DEF Stage
<1>20. CASE DropMessage
  BY <1>20 DEF DropMessage
<1>21. CASE FlushFirst
  BY <1>21 DEF FlushFirst
<1>22. CASE WriteMessage
  BY <1>22 DEF WriteMessage
<1>23. CASE UNCHANGED vars
  BY <1>23 DEF vars
<1>24. QED
  BY <1>1, <1>2, <1>3, <1>4, <1>5, <1>6, <1>7, <1>8, <1>9, <1>10, <1>11, <1>12, <1>13, <1>14, <1>15, <1>16, <1>17, <1>18, <1>19, <1>20, <1>21, <1>22, <1>23
     DEF Next, QuickStep, SlowStep, MessageStep

\* Only the holder of the lock is inside the bag, and only the message thread
\* writes messages, stages them and leaves the stage empty behind it.
THEOREM LockDisciplined == Spec => []LockDiscipline
<1>1. Init => LockDiscipline
  BY DEF Init, LockDiscipline, Holds, Threads, NoCall, Write, Call
<1>2. QED
  BY <1>1, TypeCorrect, DisciplineStep, PTL DEF Spec

-----------------------------------------------------------------------------
(* Arrival order.  First, what order means under Append, Tail and \o.      *)

\* A message put behind an ordered sequence keeps it ordered.
LEMMA OrderAppend ==
  ASSUME NEW s \in Seq(Nat), NEW n \in Nat, Ordered(s),
         \A i \in 1..Len(s) : s[i] # 0 /\ n # 0 => s[i] < n
  PROVE  Ordered(Append(s, n))
BY DEF Ordered

\* It may go behind the later of two sequences, or behind the earlier one.
LEMMA BeforeAppend ==
  ASSUME NEW s \in Seq(Nat), NEW t \in Seq(Nat), NEW n \in Nat, Before(s, t)
  PROVE  /\ (\A j \in 1..Len(t) : n # 0 /\ t[j] # 0 => n < t[j]) => Before(Append(s, n), t)
         /\ (\A i \in 1..Len(s) : s[i] # 0 /\ n # 0 => s[i] < n) => Before(s, Append(t, n))
<1>1. \A i \in 1..Len(Append(s, n)) : (i \in 1..Len(s) /\ Append(s, n)[i] = s[i]) \/ Append(s, n)[i] = n
  OBVIOUS
<1>2. \A j \in 1..Len(Append(t, n)) : (j \in 1..Len(t) /\ Append(t, n)[j] = t[j]) \/ Append(t, n)[j] = n
  OBVIOUS
<1> DEFINE first == Append(s, n)
           second == Append(t, n)
<1> HIDE DEF first, second
<1>3. (\A j \in 1..Len(t) : n # 0 /\ t[j] # 0 => n < t[j]) => Before(first, t)
  BY <1>1 DEF Before, first
<1>4. (\A i \in 1..Len(s) : s[i] # 0 /\ n # 0 => s[i] < n) => Before(s, second)
  BY <1>2 DEF Before, second
<1>5. QED
  BY <1>3, <1>4 DEF first, second

\* A sequence and the message put behind it stay below a larger bound.
LEMMA BelowAppend ==
  ASSUME NEW s \in Seq(Nat), NEW n \in Nat, NEW m \in Nat, Below(s, m), n < m
  PROVE  Below(Append(s, n), m)
BY DEF Below

\* Taking the head off a sequence: it is before the rest and before whatever
\* the sequence was before.
LEMMA TailFacts ==
  ASSUME NEW s \in Seq(Nat), s # <<>>
  PROVE  /\ Head(s) \in Nat /\ Tail(s) \in Seq(Nat) /\ Len(s) > 0
         /\ Len(Tail(s)) = Len(s) - 1 /\ Head(s) = s[1]
         /\ \A i \in 1..Len(Tail(s)) : Tail(s)[i] = s[i + 1]
OBVIOUS

\* The rest of an ordered sequence is ordered.
LEMMA OrderTail ==
  ASSUME NEW s \in Seq(Nat), s # <<>>, Ordered(s)
  PROVE  /\ Ordered(Tail(s))
         /\ \A j \in 1..Len(Tail(s)) : Head(s) # 0 /\ Tail(s)[j] # 0 => Head(s) < Tail(s)[j]
BY TailFacts DEF Ordered

\* The rest of a sequence stays before, or after, the other.
LEMMA BeforeTail ==
  ASSUME NEW s \in Seq(Nat), NEW t \in Seq(Nat), s # <<>>
  PROVE  /\ Before(s, t) => /\ Before(Tail(s), t)
                            /\ \A j \in 1..Len(t) : Head(s) # 0 /\ t[j] # 0 => Head(s) < t[j]
         /\ Before(t, s) => /\ Before(t, Tail(s))
                            /\ \A i \in 1..Len(t) : t[i] # 0 /\ Head(s) # 0 => t[i] < Head(s)
BY TailFacts DEF Before

\* The rest of a sequence stays below the bound.
LEMMA BelowTail ==
  ASSUME NEW s \in Seq(Nat), s # <<>>, NEW m \in Nat, Below(s, m)
  PROVE  Below(Tail(s), m) /\ Head(s) < m
BY TailFacts DEF Below

\* The bound may grow.
LEMMA BelowGrows ==
  ASSUME NEW s \in Seq(Nat), NEW m \in Nat, NEW n \in Nat, Below(s, m), m <= n
  PROVE  Below(s, n)
BY DEF Below

\* Where the elements of a concatenation come from.
LEMMA ConcatFacts ==
  ASSUME NEW s \in Seq(Nat), NEW t \in Seq(Nat)
  PROVE  /\ s \o t \in Seq(Nat) /\ Len(s \o t) = Len(s) + Len(t)
         /\ \A i \in 1..Len(s) : (s \o t)[i] = s[i]
         /\ \A i \in 1..Len(s \o t) : i > Len(s) => i - Len(s) \in 1..Len(t) /\ (s \o t)[i] = t[i - Len(s)]
OBVIOUS

\* Two ordered sequences, one before the other, are ordered one after the other.
LEMMA OrderConcat ==
  ASSUME NEW s \in Seq(Nat), NEW t \in Seq(Nat), Ordered(s), Ordered(t), Before(s, t)
  PROVE  Ordered(s \o t)
<1> DEFINE u == s \o t
<1> SUFFICES ASSUME NEW i \in 1..Len(u), NEW j \in 1..Len(u), i < j, u[i] # 0, u[j] # 0
             PROVE  u[i] < u[j]
  BY DEF Ordered
<1>0. Len(s) \in Nat /\ Len(t) \in Nat /\ Len(u) = Len(s) + Len(t)
  BY ConcatFacts
<1>1. CASE j <= Len(s)
  <2>1. i \in 1..Len(s) /\ j \in 1..Len(s)
    BY <1>0, <1>1
  <2>2. u[i] = s[i] /\ u[j] = s[j]
    BY <2>1, ConcatFacts
  <2>3. QED
    BY <2>1, <2>2 DEF Ordered
<1>2. CASE i <= Len(s) /\ j > Len(s)
  <2>1. i \in 1..Len(s) /\ u[i] = s[i]
    BY <1>0, <1>2, ConcatFacts
  <2>2. j - Len(s) \in 1..Len(t) /\ u[j] = t[j - Len(s)]
    BY <1>2, ConcatFacts
  <2>3. QED
    BY <2>1, <2>2 DEF Before
<1>3. CASE i > Len(s)
  <2>1. i - Len(s) \in 1..Len(t) /\ u[i] = t[i - Len(s)]
    BY <1>3, ConcatFacts
  <2>2. j - Len(s) \in 1..Len(t) /\ u[j] = t[j - Len(s)]
    BY <1>0, <1>3, ConcatFacts
  <2>3. i - Len(s) < j - Len(s)
    BY <1>0
  <2>4. QED
    BY <2>1, <2>2, <2>3 DEF Ordered
<1>4. QED
  BY <1>0, <1>1, <1>2, <1>3

\* What is before two sequences is before their concatenation.
LEMMA BeforeConcat ==
  ASSUME NEW s \in Seq(Nat), NEW t \in Seq(Nat), NEW u \in Seq(Nat), Before(s, u), Before(t, u)
  PROVE  Before(s \o t, u)
<1> SUFFICES ASSUME NEW i \in 1..Len(s \o t), NEW j \in 1..Len(u), (s \o t)[i] # 0, u[j] # 0
             PROVE  (s \o t)[i] < u[j]
  BY DEF Before
<1>1. CASE i <= Len(s)
  <2>1. i \in 1..Len(s) /\ (s \o t)[i] = s[i]
    BY <1>1, ConcatFacts
  <2>2. QED
    BY <2>1 DEF Before
<1>2. CASE i > Len(s)
  <2>1. i - Len(s) \in 1..Len(t) /\ (s \o t)[i] = t[i - Len(s)]
    BY <1>2, ConcatFacts
  <2>2. QED
    BY <2>1 DEF Before
<1>3. QED
  BY <1>1, <1>2

\* The bound on what is in the pipeline never falls.
LEMMA FreshGrows ==
  ASSUME TypeOK, [Next]_vars
  PROVE  Fresh \in Nat /\ Fresh' \in Nat /\ Fresh <= Fresh'
<1>1. arrived \in Nat
  BY BagAssumption DEF TypeOK, BagOK, Numbers, BagAssumption
<1>2. Arrive \/ (arrived' = arrived /\ (op'["msg"] = op["msg"] \/ op'["msg"] # Write))
  <2> USE DEF Goto, Return, Leave, EndBusy, AfterFlush, threadVars, bagVars, vars
  <2>0. NoCall # Write /\ \A c \in AllCalls : c \in Calls("msg") => c # Write
    BY DEF NoCall, Write, Call, Calls
  <2>1. ASSUME NEW t \in Threads, NEW c \in Calls(t), Begin(t, c)
        PROVE arrived' = arrived /\ (op'["msg"] = op["msg"] \/ op'["msg"] # Write)
    BY <2>0, <2>1 DEF Begin, Calls, Threads, TypeOK, ThreadsOK
  <2>2. ASSUME NEW t \in Threads, TakeLock(t) \/ QuickStep(t) \/ SlowStep(t)
        PROVE arrived' = arrived /\ (op'["msg"] = op["msg"] \/ op'["msg"] # Write)
    BY <2>0, <2>2 DEF TakeLock, QuickStep, ReturnEarly, OpenBag, ResetCounters, BeginSlow, BeginClose, MarkClosed,
         TakeStage, EmptyStage, WriteStaged, SlowStep, CreateChannel, WriteEvent, Split, TakeSnapshot,
         CloseWriter, Threads, TypeOK, ThreadsOK
  <2>3. CASE MessageStep \/ TryLockFor \/ SeeBusy
    BY <2>0, <2>3 DEF MessageStep, TryLock, Stage, DropMessage, FlushFirst, WriteMessage, TryLockFor,
         SeeBusy, TypeOK, ThreadsOK, Threads
  <2>4. QED
    BY <2>1, <2>2, <2>3 DEF Next
<1>3. CASE Arrive
  BY <1>1, <1>3 DEF Arrive, Fresh
<1>4. CASE arrived' = arrived /\ (op'["msg"] = op["msg"] \/ op'["msg"] # Write)
  BY <1>1, <1>4 DEF Fresh
<1>5. QED
  BY <1>2, <1>3, <1>4

\* A step that touches none of the three sequences keeps their order.
LEMMA OrderSame ==
  ASSUME TypeOK, [Next]_vars, OrderInv, UNCHANGED <<log, batch, staged>>
  PROVE  OrderInv'
<1>1. log \in Seq(Nat) /\ batch \in Seq(Nat) /\ staged \in Seq(Nat)
  BY BagAssumption DEF TypeOK, WriterOK, StageOK, Numbers, BagAssumption
<1>2. QED
  BY <1>1, FreshGrows, BelowGrows DEF OrderInv, Ordered, Before

\* Accepting a message behind the batch or the stage, or leaving it out.
LEMMA OrderStep == TypeOK /\ LockDiscipline /\ OrderInv /\ [Next]_vars => OrderInv'
<1> SUFFICES ASSUME TypeOK, LockDiscipline, OrderInv, [Next]_vars PROVE OrderInv'
  OBVIOUS
<1>0. /\ log \in Seq(Nat) /\ batch \in Seq(Nat) /\ staged \in Seq(Nat) /\ arrived \in Nat
      /\ Fresh \in Nat /\ Fresh' \in Nat /\ Fresh <= Fresh'
  <2>1. log \in Seq(Nat) /\ batch \in Seq(Nat) /\ staged \in Seq(Nat) /\ arrived \in Nat
    BY BagAssumption DEF TypeOK, WriterOK, StageOK, BagOK, Numbers, BagAssumption
  <2>2. QED
    BY <2>1, FreshGrows
<1>1. ASSUME NEW t \in Threads, TakeStage(t) PROVE OrderInv'
  <2>1. batch = <<>> /\ UNCHANGED log /\ staged' = <<>>
    BY <1>1 DEF TakeStage, EmptyStage, LockDiscipline, Holds, Threads, writerVars
  <2>2. batch' = staged \/ batch' = batch
    BY <1>1 DEF TakeStage, EmptyStage
  <2>3. QED
    BY <1>0, <2>1, <2>2, BelowGrows DEF OrderInv, Ordered, Before, Below
<1>2. ASSUME NEW t \in Threads, WriteStaged(t) PROVE OrderInv'
  <2>1. /\ batch # <<>> /\ batch' = Tail(batch) /\ UNCHANGED staged
        /\ log' = log \/ log' = Append(log, Head(batch))
    BY <1>2 DEF WriteStaged, WriteLocked, stageVars
  <2>2. Head(batch) \in Nat /\ Tail(batch) \in Seq(Nat)
    BY <1>0, <2>1
  <2>3. Ordered(batch') /\ Before(batch', staged') /\ Below(batch', Fresh') /\ Head(batch) < Fresh'
    BY <1>0, <2>1, <2>2, OrderTail, BeforeTail, BelowTail, BelowGrows DEF OrderInv
  <2>4. Ordered(staged') /\ Below(staged', Fresh')
    BY <1>0, <2>1, BelowGrows DEF OrderInv
  <2>5. CASE log' = log
    BY <1>0, <2>1, <2>3, <2>4, <2>5, BeforeTail, BelowGrows DEF OrderInv
  <2>6. CASE log' = Append(log, Head(batch))
    <3>1. Ordered(log')
      BY <1>0, <2>1, <2>2, <2>6, BeforeTail, OrderAppend DEF OrderInv
    <3>2. Before(log', batch')
      BY <1>0, <2>1, <2>2, <2>6, BeforeTail, OrderTail, BeforeAppend DEF OrderInv
    <3>3. Before(log', staged')
      BY <1>0, <2>1, <2>2, <2>6, BeforeTail, BeforeAppend DEF OrderInv
    <3>4. Below(log', Fresh')
      BY <1>0, <2>2, <2>3, <2>6, BelowGrows, BelowAppend DEF OrderInv
    <3>5. QED
      BY <2>3, <2>4, <3>1, <3>2, <3>3, <3>4 DEF OrderInv
  <2>7. QED
    BY <2>1, <2>5, <2>6
<1>3. ASSUME NEW t \in Threads, WriteEvent(t) PROVE OrderInv'
  <2>1. UNCHANGED <<batch, staged>> /\ (log' = log \/ log' = Append(log, 0))
    BY <1>3 DEF WriteEvent, WriteLocked, writerVars, stageVars
  <2>2. CASE log' = Append(log, 0)
    <3>1. Ordered(log') /\ Before(log', batch) /\ Before(log', staged)
      BY <1>0, <2>2, OrderAppend, BeforeAppend DEF OrderInv
    <3>2. 0 < Fresh'
      <4>1. 0 < Fresh
        BY <1>0 DEF Fresh, LockDiscipline
      <4>2. QED
        BY <1>0, <4>1
    <3>3. Below(log', Fresh') /\ Below(batch', Fresh') /\ Below(staged', Fresh')
      BY <1>0, <2>1, <2>2, <3>2, BelowAppend, BelowGrows DEF OrderInv
    <3>4. QED
      BY <2>1, <3>1, <3>3 DEF OrderInv
  <2>3. QED
    BY <2>1, <2>2, OrderSame
<1>4. CASE Stage
  <2>1. UNCHANGED <<log, batch>> /\ (staged' = staged \/ staged' = Append(staged, arrived))
    BY <1>4 DEF Stage, writerVars
  <2>2. Fresh = arrived /\ Fresh' = arrived + 1
    BY <1>4, NoCallIsNotWrite DEF Stage, LockDiscipline, Fresh, Return, TypeOK, ThreadsOK, Threads
  <2>3. CASE staged' = Append(staged, arrived)
    <3>1. Ordered(staged') /\ Before(log, staged') /\ Before(batch, staged')
      BY <1>0, <2>2, <2>3, OrderAppend, BeforeAppend DEF OrderInv, Below
    <3>2. Below(log', Fresh') /\ Below(batch', Fresh') /\ Below(staged', Fresh')
      BY <1>0, <2>1, <2>2, <2>3, BelowAppend, BelowGrows DEF OrderInv
    <3>3. QED
      BY <2>1, <3>1, <3>2 DEF OrderInv
  <2>4. QED
    BY <2>1, <2>3, OrderSame
<1>5. CASE WriteMessage
  <2>1. /\ UNCHANGED <<batch, staged>> /\ batch = <<>> /\ staged = <<>> /\ op["msg"] = Write
        /\ log' = log \/ log' = Append(log, arrived)
    BY <1>5 DEF WriteMessage, WriteLocked, LockDiscipline, Holds, Threads, stageVars
  <2>2. Fresh = arrived /\ Fresh' = arrived + 1
    BY <1>5, <2>1, NoCallIsNotWrite DEF WriteMessage, Fresh, Leave, Return, TypeOK, ThreadsOK, Threads
  <2>3. CASE log' = Append(log, arrived)
    <3>1. Ordered(log')
      BY <1>0, <2>2, <2>3, OrderAppend DEF OrderInv, Below
    <3>2. Below(log', Fresh')
      BY <1>0, <2>2, <2>3, BelowAppend, BelowGrows DEF OrderInv
    <3>3. QED
      BY <2>1, <3>1, <3>2 DEF OrderInv, Ordered, Before, Below
  <2>4. QED
    BY <2>1, <2>3, OrderSame
<1>6. CASE UNCHANGED <<log, batch, staged>>
  BY <1>6, OrderSame
<1>7. \/ \E t \in Threads : TakeStage(t) \/ WriteStaged(t) \/ WriteEvent(t)
      \/ Stage \/ WriteMessage
      \/ UNCHANGED <<log, batch, staged>>
  BY DEF Next, Begin, TakeLock, QuickStep, ReturnEarly, OpenBag, ResetCounters, BeginSlow, BeginClose, MarkClosed,
         SlowStep, CreateChannel, Split, TakeSnapshot, CloseWriter, MessageStep, Arrive, TryLock,
         TryLockFor, SeeBusy, DropMessage, FlushFirst, vars, writerVars, stageVars
<1>8. QED
  BY <1>1, <1>2, <1>3, <1>4, <1>5, <1>6, <1>7

\* The parts in order are the pipeline in order.
LEMMA OrderWhole == TypeOK /\ OrderInv => ArrivalOrder
<1> SUFFICES ASSUME TypeOK, OrderInv PROVE ArrivalOrder
  OBVIOUS
<1> DEFINE front == log \o batch
           written == front \o staged
<1>1. log \in Seq(Nat) /\ batch \in Seq(Nat) /\ staged \in Seq(Nat) /\ arrived \in Nat
  BY BagAssumption DEF TypeOK, WriterOK, StageOK, BagOK, Numbers, BagAssumption
<1>2. /\ InFlight \in Seq(Nat) /\ Ordered(InFlight)
      /\ Before(log, InFlight) /\ Before(batch, InFlight) /\ Before(staged, InFlight)
  <2>1. CASE op["msg"] = Write
    BY <1>1, <2>1 DEF InFlight, Ordered, Before, Below, OrderInv, Fresh
  <2>2. CASE op["msg"] # Write
    BY <1>1, <2>2 DEF InFlight, Ordered, Before
  <2>3. QED
    BY <2>1, <2>2
<1>3. front \in Seq(Nat) /\ Ordered(front) /\ Before(front, staged) /\ Before(front, InFlight)
  BY <1>1, <1>2, ConcatFacts, OrderConcat, BeforeConcat DEF OrderInv
<1>4. written \in Seq(Nat) /\ Ordered(written) /\ Before(written, InFlight)
  BY <1>1, <1>2, <1>3, ConcatFacts, OrderConcat, BeforeConcat DEF OrderInv
<1>5. QED
  BY <1>2, <1>4, OrderConcat DEF ArrivalOrder, Pipeline

\* The order of the parts holds of every behaviour.
LEMMA OrderHolds == Spec => []OrderInv
<1>1. Init => OrderInv
  BY BagAssumption DEF Init, OrderInv, Ordered, Before, Below, BagAssumption
<1>2. QED
  BY <1>1, TypeCorrect, LockDisciplined, OrderStep, PTL DEF Spec

\* Whichever way each message took, the bag, the batch, the stage and the
\* message in write() are in arrival order, with no message twice.
THEOREM OrderCorrect == Spec => []ArrivalOrder
BY TypeCorrect, OrderHolds, OrderWhole, PTL
=============================================================================
