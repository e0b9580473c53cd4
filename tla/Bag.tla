-------------------------------- MODULE Bag --------------------------------
(***************************************************************************)
(* The bag being written (bag.cpp, bag.hpp): rosbag2's writer behind one   *)
(* timed mutex, the busy flag a slow operation raises, and the stage that  *)
(* keeps the messages arriving meanwhile.                                  *)
(*                                                                         *)
(* Two threads use it (main.cpp): "svc" runs the services and timers,      *)
(* "msg" the subscription callbacks.  A step is what one thread does       *)
(* between two points where the other can observe it.  The n-th message to *)
(* reach write() is the number n; an event in the log is 0.                *)
(***************************************************************************)
EXTENDS Naturals, Sequences

CONSTANTS
  Topics,       \* the data topics
  EventTopic,   \* the channel events are written to
  TopicOf(_),   \* the topic of the n-th message
  SizeOf(_),    \* its size in bytes
  MaxStaged,    \* max_staged_bytes_
  Reasons,      \* what split() is asked for
  MaxArrivals,  \* bound: messages that reach write()
  MaxBags,      \* bound: bags opened
  MaxWrites,    \* bound: an event is written while fewer entries were tried
  MaxSplits,    \* bound: rollovers of one bag
  MaxThrows     \* bound: the writer throws on a channel it has at this many errors

ASSUME BagAssumption ==
  /\ EventTopic \notin Topics
  /\ MaxStaged \in Nat
  /\ {MaxArrivals, MaxBags, MaxWrites, MaxSplits, MaxThrows} \subseteq Nat
  /\ \A n \in 0..MaxArrivals : TopicOf(n) \in Topics /\ SizeOf(n) \in Nat

VARIABLES
  lock,         \* who holds mutex_, or "none"
  busy,         \* busy_
  open,         \* open_
  channels,     \* the topics of channels_
  log,          \* what the writer accepted, over all bags
  logStart,     \* where the current bag starts in log
  bags,         \* how many bags were opened
  messages_written, write_errors, splits,
  splitReason,  \* split_reason_
  rollovers,    \* what each rollover was for, and what the callback was told
  staged,       \* staged_
  stagedBytes,  \* staged_bytes_
  batch,        \* the deque flush_staged_locked() is writing
  arrived,      \* the last message that reached write()
  returnedBefore, \* history: messages below it had left write() at the last stop
  openedAfter,  \* history: messages arrived when open_ became true
  lateStaged,   \* history: messages staged while open_ was false
  lost,         \* messages reported to on_lost_
  dropped,      \* messages that found the bag closed
  failed,       \* messages the writer threw on
  pc, op        \* per thread: where it is, and the call it is in

threadVars == <<pc, op>>
counters   == <<messages_written, write_errors, splits>>
writerVars == <<channels, log, counters, rollovers, failed>>
bagVars    == <<open, logStart, bags, returnedBefore, openedAfter>>
stageVars  == <<staged, stagedBytes, lateStaged, lost>>
vars == <<lock, busy, threadVars, writerVars, bagVars, stageVars,
          splitReason, batch, arrived, dropped>>

Threads == {"svc", "msg"}
NoReason == "none"
Call(kind, arg) == [kind |-> kind, arg |-> arg]
NoCall == Call("none", "none")
Write  == Call("write", "none")
AllCalls ==
  {Call(k, "none") : k \in {"none", "write", "open", "close", "snapshot", "event", "query"}}
    \cup {Call("channel", topic) : topic \in Topics}
    \cup {Call("split", r) : r \in Reasons}

\* Calls on each thread, write() apart.  on_message() acts on due schedules, so
\* the message thread also writes a resume event, splits, and reads the status.
Calls(t) ==
  {c \in AllCalls :
     c.kind \in {"event", "split", "query"}
       \cup IF t = "msg" THEN {} ELSE {"open", "close", "snapshot", "channel"}}

\* Bounds only: every other guard below is the code's.
Affordable(c) ==
  /\ c.kind = "open"  => bags < MaxBags
  /\ c.kind = "event" => messages_written + write_errors < MaxWrites
  /\ c.kind = "split" => splits < MaxSplits

Goto(t, label) == pc' = [pc EXCEPT ![t] = label] /\ UNCHANGED op
\* Mutant of Return: the argument of the call is left behind.
ReturnKeepsArgument(t) ==
  /\ pc' = [pc EXCEPT ![t] = "idle"]
  /\ op' = [op EXCEPT ![t].kind = "none"]
Return(t) ==
  /\ pc' = [pc EXCEPT ![t] = "idle"]
  /\ op' = [op EXCEPT ![t] = NoCall]
Leave(t) == lock' = "none" /\ Return(t)

Init ==
  /\ lock = "none" /\ busy = FALSE /\ open = FALSE
  /\ channels = {} /\ log = <<>> /\ logStart = 0 /\ bags = 0
  /\ messages_written = 0 /\ write_errors = 0 /\ splits = 0
  /\ splitReason = NoReason /\ rollovers = {}
  /\ staged = <<>> /\ stagedBytes = 0 /\ batch = <<>>
  /\ arrived = 0 /\ returnedBefore = 0 /\ openedAfter = 0
  /\ lateStaged = {} /\ lost = {} /\ dropped = {} /\ failed = {}
  /\ pc = [t \in Threads |-> "idle"]
  /\ op = [t \in Threads |-> NoCall]

-----------------------------------------------------------------------------
(* Every operation but write(): take the lock, return early or go on.      *)

Begin(t, c) ==
  /\ pc[t] = "idle" /\ Affordable(c)
  /\ pc' = [pc EXCEPT ![t] = "lock"]
  /\ op' = [op EXCEPT ![t] = c]
  /\ UNCHANGED <<lock, busy, writerVars, bagVars, stageVars, splitReason, batch, arrived, dropped>>

TakeLock(t) ==
  /\ pc[t] = "lock" /\ lock = "none"
  /\ lock' = t
  /\ Goto(t, "locked")
  /\ UNCHANGED <<busy, writerVars, bagVars, stageVars, splitReason, batch, arrived, dropped>>

\* is_open(), uri(), info(), channel_type(), and the early return of the rest.
ReturnsEarly(c) ==
  \/ c.kind = "query"
  \/ c.kind = "open" /\ open
  \/ c.kind \in {"close", "channel", "event", "split", "snapshot"} /\ ~open
  \/ c.kind = "channel" /\ c.arg \in channels

ReturnEarly(t) ==
  /\ pc[t] = "locked" /\ ReturnsEarly(op[t])
  /\ Leave(t)
  /\ UNCHANGED <<busy, writerVars, bagVars, stageVars, splitReason, batch, arrived, dropped>>

\* Mutant of ResetCounters: the count of the previous bag goes on.
ResetOthers == UNCHANGED messages_written /\ write_errors' = 0 /\ splits' = 0
ResetCounters == messages_written' = 0 /\ write_errors' = 0 /\ splits' = 0

\* open(): the writer opens with the lock held but busy_ clear, and may throw.
\* The stage is left as it is.
OpenBag(t) ==
  /\ pc[t] = "locked" /\ op[t].kind = "open" /\ ~open
  /\ Leave(t)
  /\ \/ /\ open' = TRUE /\ bags' = bags + 1
        /\ logStart' = Len(log) /\ openedAfter' = arrived
        /\ channels' = {}
        /\ ResetCounters
        /\ UNCHANGED returnedBefore
     \/ UNCHANGED <<channels, counters, bagVars>>
  /\ UNCHANGED <<busy, log, rollovers, failed, stageVars, splitReason, batch, arrived, dropped>>

\* The slow operations construct Busy with the lock held; split() then leaves
\* its reason for the rollover callback.
IsSlow(c) == c.kind \in {"channel", "event", "split", "snapshot"}

\* Mutant of BeginSlow: no Busy is constructed.
BeginSlowUnflagged(t) ==
  /\ pc[t] = "locked" /\ IsSlow(op[t]) /\ ~ReturnsEarly(op[t])
  /\ Goto(t, "slow")
  /\ UNCHANGED <<lock, busy, writerVars, bagVars, stageVars, splitReason, batch, arrived, dropped>>

BeginSlow(t) ==
  /\ pc[t] = "locked" /\ IsSlow(op[t]) /\ ~ReturnsEarly(op[t])
  /\ busy' = TRUE
  /\ splitReason' = IF op[t].kind = "split" THEN op[t].arg ELSE splitReason
  /\ Goto(t, "slow")
  /\ UNCHANGED <<lock, writerVars, bagVars, stageVars, batch, arrived, dropped>>

-----------------------------------------------------------------------------
(* The writer: write_locked() and the slow operations.  Each ends as Busy  *)
(* goes out of scope: the flag clears, then the stage is flushed.          *)

EndBusy(t) == busy' = FALSE /\ Goto(t, "flush")

\* A rollover calls back inside the writer, with the lock held.
Rollover(asked) ==
  /\ rollovers' = rollovers \cup {[asked |-> asked, told |-> splitReason]}
  /\ splits' = splits + 1

\* The writer takes the message, perhaps rolling over at a limit first, or
\* throws.  Whether it takes a message on a topic without a channel is its own
\* affair, so there it may throw beyond the bound too.
WriteLocked(n, hasChannel) ==
  \/ /\ log' = Append(log, n)
     /\ messages_written' = messages_written + 1
     /\ \/ UNCHANGED <<splits, rollovers>>
        \/ splits < MaxSplits /\ Rollover(NoReason)
     /\ UNCHANGED <<write_errors, failed>>
  \/ /\ hasChannel => write_errors < MaxThrows
     /\ write_errors' = write_errors + 1
     /\ failed' = failed \cup ({n} \ {0})
     /\ UNCHANGED <<log, messages_written, splits, rollovers>>

CreateChannel(t) ==
  /\ pc[t] = "slow" /\ op[t].kind = "channel"
  /\ \/ channels' = channels \cup {op[t].arg}
     \/ UNCHANGED channels
  /\ EndBusy(t)
  /\ UNCHANGED <<lock, log, counters, rollovers, failed, bagVars, stageVars,
                 splitReason, batch, arrived, dropped>>

\* write_event(): the channel on first use, then the event itself, ahead of
\* whatever is staged.
WriteEvent(t) ==
  /\ pc[t] = "slow" /\ op[t].kind = "event"
  /\ \/ EventTopic \notin channels /\ UNCHANGED writerVars
     \/ channels' = channels \cup {EventTopic} /\ WriteLocked(0, TRUE)
  /\ EndBusy(t)
  /\ UNCHANGED <<lock, bagVars, stageVars, splitReason, batch, arrived, dropped>>

\* Mutant of Split: the reason is cleared after the writer's call returns, so
\* not when it throws.
SplitKeepsReason(t) ==
  /\ pc[t] = "slow" /\ op[t].kind = "split"
  /\ \/ Rollover(op[t].arg) /\ splitReason' = NoReason
     \/ UNCHANGED <<rollovers, splits, splitReason>>
  /\ EndBusy(t)
  /\ UNCHANGED <<lock, channels, log, messages_written, write_errors, failed, bagVars, stageVars, batch, arrived, dropped>>

Split(t) ==
  /\ pc[t] = "slow" /\ op[t].kind = "split"
  /\ \/ Rollover(op[t].arg)
     \/ UNCHANGED <<rollovers, splits>>
  /\ splitReason' = NoReason
  /\ EndBusy(t)
  /\ UNCHANGED <<lock, channels, log, messages_written, write_errors, failed, bagVars, stageVars, batch, arrived, dropped>>

\* The snapshot buffer is the writer's own: nothing of the bag changes.
TakeSnapshot(t) ==
  /\ pc[t] = "slow" /\ op[t].kind = "snapshot"
  /\ EndBusy(t)
  /\ UNCHANGED <<lock, writerVars, bagVars, stageVars, splitReason, batch, arrived, dropped>>

-----------------------------------------------------------------------------
(* close(): busy, flush, open_ = false, the writer's close.                *)

\* The first message write() has not returned from yet.
Fresh == IF op["msg"] = Write THEN arrived ELSE arrived + 1

\* Mutant of BeginClose: the bag is marked closed before the stage is flushed.
BeginCloseUnflushed(t) ==
  /\ pc[t] = "locked" /\ op[t].kind = "close" /\ open
  /\ returnedBefore' = Fresh
  /\ busy' = TRUE
  /\ Goto(t, "stop")
  /\ UNCHANGED <<lock, writerVars, open, logStart, bags, openedAfter, stageVars,
                 splitReason, batch, arrived, dropped>>

BeginClose(t) ==
  /\ pc[t] = "locked" /\ op[t].kind = "close" /\ open
  /\ returnedBefore' = Fresh
  /\ busy' = TRUE
  /\ Goto(t, "flush")
  /\ UNCHANGED <<lock, writerVars, open, logStart, bags, openedAfter, stageVars,
                 splitReason, batch, arrived, dropped>>

MarkClosed(t) ==
  /\ pc[t] = "stop"
  /\ open' = FALSE
  /\ Goto(t, "closing")
  /\ UNCHANGED <<lock, busy, writerVars, logStart, bags, returnedBefore, openedAfter, stageVars,
                 splitReason, batch, arrived, dropped>>

CloseWriter(t) ==
  /\ pc[t] = "closing"
  /\ EndBusy(t)
  /\ UNCHANGED <<lock, writerVars, bagVars, stageVars, splitReason, batch, arrived, dropped>>

-----------------------------------------------------------------------------
(* flush_staged_locked(), called by write(), by close() before it marks    *)
(* the bag closed, and by a Busy going out of scope.                       *)

\* Mutant of AfterFlush: write() returns once it flushed the stage.
AfterFlushReturn(t) ==
  \/ op[t].kind = "close" /\ open /\ Goto(t, "stop") /\ UNCHANGED lock
  \/ ~(op[t].kind = "close" /\ open) /\ Leave(t)

AfterFlush(t) ==
  \/ op[t].kind = "write" /\ Goto(t, "write") /\ UNCHANGED lock
  \/ op[t].kind = "close" /\ open /\ Goto(t, "stop") /\ UNCHANGED lock
  \/ op[t].kind # "write" /\ ~(op[t].kind = "close" /\ open) /\ Leave(t)

Messages(s) == {s[i] : i \in 1..Len(s)}

\* Mutant of EmptyStage: only the deque is emptied.
EmptyDeque == staged' = <<>> /\ UNCHANGED stagedBytes
EmptyStage == staged' = <<>> /\ stagedBytes' = 0

TakeStage(t) ==
  /\ pc[t] = "flush"
  /\ EmptyStage
  /\ \/ /\ open /\ staged # <<>>
        /\ batch' = staged
        /\ Goto(t, "drain")
        /\ UNCHANGED <<lock, dropped>>
     \/ /\ ~open \/ staged = <<>>
        /\ dropped' = dropped \cup Messages(staged)
        /\ AfterFlush(t)
        /\ UNCHANGED batch
  /\ UNCHANGED <<busy, writerVars, bagVars, lateStaged, lost, splitReason, arrived>>

WriteStaged(t) ==
  /\ pc[t] = "drain" /\ batch # <<>>
  /\ WriteLocked(Head(batch), TopicOf(Head(batch)) \in channels)
  /\ batch' = Tail(batch)
  /\ IF Len(batch) = 1 THEN AfterFlush(t) ELSE UNCHANGED <<lock, threadVars>>
  /\ UNCHANGED <<busy, channels, bagVars, stageVars, splitReason, arrived, dropped>>

-----------------------------------------------------------------------------
(* write(), on the message thread.                                         *)

Arrive ==
  /\ pc["msg"] = "idle" /\ arrived < MaxArrivals
  /\ arrived' = arrived + 1
  /\ pc' = [pc EXCEPT !["msg"] = "try"]
  /\ op' = [op EXCEPT !["msg"] = Write]
  /\ UNCHANGED <<lock, busy, writerVars, bagVars, stageVars, splitReason, batch, dropped>>

TryLock ==
  /\ pc["msg"] = "try"
  /\ \/ lock = "none" /\ lock' = "msg" /\ Goto("msg", "locked")
     \/ lock # "none" /\ UNCHANGED lock /\ Goto("msg", "contend")
  /\ UNCHANGED <<busy, writerVars, bagVars, stageVars, splitReason, batch, arrived, dropped>>

\* One round of the polling loop: the lock within kBusyPoll, or a look at busy_.
TryLockFor ==
  /\ pc["msg"] = "contend" /\ lock = "none"
  /\ lock' = "msg"
  /\ Goto("msg", "locked")
  /\ UNCHANGED <<busy, writerVars, bagVars, stageVars, splitReason, batch, arrived, dropped>>

\* Mutant of SeeBusy: whoever holds the lock, the message is staged.
SeeLocked ==
  /\ pc["msg"] = "contend" /\ lock # "none"
  /\ Goto("msg", "stage")
  /\ UNCHANGED <<lock, busy, writerVars, bagVars, stageVars, splitReason, batch, arrived, dropped>>

SeeBusy ==
  /\ pc["msg"] = "contend" /\ busy
  /\ Goto("msg", "stage")
  /\ UNCHANGED <<lock, busy, writerVars, bagVars, stageVars, splitReason, batch, arrived, dropped>>

\* stage(), which takes staged_mutex_ only: busy_ may have cleared since.
Stage ==
  /\ pc["msg"] = "stage"
  /\ \/ /\ stagedBytes + SizeOf(arrived) <= MaxStaged
        /\ stagedBytes' = stagedBytes + SizeOf(arrived)
        /\ staged' = Append(staged, arrived)
        /\ lateStaged' = IF open THEN lateStaged ELSE lateStaged \cup {arrived}
        /\ UNCHANGED lost
     \/ /\ stagedBytes + SizeOf(arrived) > MaxStaged
        /\ lost' = lost \cup {arrived}
        /\ UNCHANGED <<staged, stagedBytes, lateStaged>>
  /\ Return("msg")
  /\ UNCHANGED <<lock, busy, writerVars, bagVars, splitReason, batch, arrived, dropped>>

\* With the lock: drop the message on a closed bag, let what is staged go
\* first, or write it.
DropMessage ==
  /\ pc["msg"] = "locked" /\ op["msg"] = Write /\ ~open
  /\ dropped' = dropped \cup {arrived}
  /\ Leave("msg")
  /\ UNCHANGED <<busy, writerVars, bagVars, stageVars, splitReason, batch, arrived>>

FlushFirst ==
  /\ pc["msg"] = "locked" /\ op["msg"] = Write /\ open /\ staged # <<>>
  /\ Goto("msg", "flush")
  /\ UNCHANGED <<lock, busy, writerVars, bagVars, stageVars, splitReason, batch, arrived, dropped>>

\* Mutant of WriteMessage: the message does not wait for what is staged.
WriteOverStaged ==
  /\ \/ pc["msg"] = "locked" /\ op["msg"] = Write /\ open
     \/ pc["msg"] = "write"
  /\ WriteLocked(arrived, TopicOf(arrived) \in channels)
  /\ Leave("msg")
  /\ UNCHANGED <<busy, channels, bagVars, stageVars, splitReason, batch, arrived, dropped>>

WriteMessage ==
  /\ \/ pc["msg"] = "locked" /\ op["msg"] = Write /\ open /\ staged = <<>>
     \/ pc["msg"] = "write"
  /\ WriteLocked(arrived, TopicOf(arrived) \in channels)
  /\ Leave("msg")
  /\ UNCHANGED <<busy, channels, bagVars, stageVars, splitReason, batch, arrived, dropped>>

-----------------------------------------------------------------------------
\* What a stalled disk holds up; open() is the one that keeps busy_ clear.
SlowStep(t) ==
  CreateChannel(t) \/ WriteEvent(t) \/ Split(t) \/ TakeSnapshot(t) \/ CloseWriter(t)

QuickStep(t) ==
  \/ ReturnEarly(t) \/ OpenBag(t) \/ BeginSlow(t) \/ BeginClose(t)
  \/ MarkClosed(t) \/ TakeStage(t) \/ WriteStaged(t)

MessageStep == TryLock \/ Stage \/ DropMessage \/ FlushFirst \/ WriteMessage

Next ==
  \/ \E t \in Threads :
       (\E c \in Calls(t) : Begin(t, c)) \/ TakeLock(t) \/ QuickStep(t) \/ SlowStep(t)
  \/ Arrive \/ MessageStep \/ TryLockFor \/ SeeBusy

Spec == Init /\ [][Next]_vars

(***************************************************************************)
(* Fairness: a running thread goes on running, and the polling loop, which *)
(* asks again every 200us, gets the lock if it is free again and again.    *)
(* Nothing is assumed of a slow step, which may never end.                 *)
(***************************************************************************)
FairSpec ==
  /\ Spec
  /\ \A t \in Threads : WF_vars(QuickStep(t)) /\ SF_vars(TakeLock(t))
  /\ WF_vars(MessageStep)
  /\ SF_vars(TryLockFor \/ SeeBusy)
-----------------------------------------------------------------------------
(* Properties.                                                             *)

Labels == {"idle", "lock", "locked", "slow", "stop", "closing", "flush", "drain",
           "try", "contend", "stage", "write"}
Numbers == 0..MaxArrivals

ThreadsOK ==
  /\ lock \in Threads \cup {"none"} /\ busy \in BOOLEAN
  /\ pc \in [Threads -> Labels]
  /\ op \in [Threads -> AllCalls]
RolloverRecords == [asked : Reasons \cup {NoReason}, told : Reasons \cup {NoReason}]
WriterOK ==
  /\ channels \subseteq Topics \cup {EventTopic}
  /\ log \in Seq(Numbers) /\ failed \subseteq Numbers
  /\ messages_written \in Nat /\ write_errors \in Nat /\ splits \in Nat
  /\ splitReason \in Reasons \cup {NoReason} /\ rollovers \subseteq RolloverRecords
BagOK ==
  /\ open \in BOOLEAN /\ bags \in Nat /\ logStart \in Nat
  /\ arrived \in Numbers /\ returnedBefore \in Nat /\ openedAfter \in Numbers
StageOK ==
  /\ staged \in Seq(Numbers) /\ stagedBytes \in Nat /\ batch \in Seq(Numbers)
  /\ lateStaged \subseteq Numbers /\ lost \subseteq Numbers /\ dropped \subseteq Numbers

\* Type invariant: the range of every variable.
TypeOK == ThreadsOK /\ WriterOK /\ BagOK /\ StageOK

\* The message write() is busy with on the message thread, as a sequence.
InFlight == IF op["msg"] = Write THEN <<arrived>> ELSE <<>>

\* "Anything staged arrived earlier, so goes first" (bag.cpp:249) and the
\* order of ~Busy() (bag.cpp:67): over the log, the batch being written, the
\* stage and the message in write(), messages stand in the order they arrived
\* and none stands twice, whichever way a message took.
Pipeline == log \o batch \o staged \o InFlight
Ordered(s) == \A i, j \in 1..Len(s) : i < j /\ s[i] # 0 /\ s[j] # 0 => s[i] < s[j]
ArrivalOrder == Ordered(Pipeline)

\* What makes that order inductive.  Lock discipline: who is in the critical
\* section, who writes, and when the batch and the stage are empty.
Holds(t) == pc[t] \in {"locked", "slow", "stop", "closing", "flush", "drain", "write"}
LockDiscipline ==
  /\ \A t \in Threads : Holds(t) <=> lock = t
  /\ pc["svc"] \notin {"try", "contend", "stage", "write"} /\ op["svc"] # Write
  /\ pc["msg"] \in {"try", "contend", "stage", "write"} => op["msg"] = Write
  /\ (\A t \in Threads : pc[t] # "drain") => batch = <<>>
  /\ pc["msg"] = "write" \/ (pc["msg"] = "drain" /\ op["msg"] = Write) => staged = <<>>
  /\ op["msg"] = Write => arrived > 0

\* Order part by part, and every message in the pipeline below the next one a
\* write() will bring.
Before(s, t) ==
  \A i \in 1..Len(s), j \in 1..Len(t) : s[i] # 0 /\ t[j] # 0 => s[i] < t[j]
Below(s, n) == \A i \in 1..Len(s) : s[i] < n
OrderInv ==
  /\ Ordered(log) /\ Ordered(batch) /\ Ordered(staged)
  /\ Before(log, batch) /\ Before(log, staged) /\ Before(batch, staged)
  /\ Below(log, Fresh) /\ Below(batch, Fresh) /\ Below(staged, Fresh)
BagInv == TypeOK /\ LockDiscipline /\ OrderInv

\* What an operation found on taking the lock is so as long as it holds it: the
\* bag it writes to is open.  Only close() closes, and a thread at rest is in no
\* call.
OpenWhileWriting ==
  /\ \A t \in Threads : pc[t] \in {"slow", "stop", "drain", "write"} => open
  /\ pc["msg"] = "flush" /\ op["msg"] = Write => open
  /\ \A t \in Threads : pc[t] \in {"stop", "closing"} => op[t].kind = "close"
  /\ \A t \in Threads : pc[t] = "idle" => op[t] = NoCall

\* No message disappears: one that reached write() is on its way, in a bag,
\* counted as a write error or a loss, or found the bag closed, and only one of
\* these.
OnItsWayOrIn == Messages(Pipeline) \ {0}
EveryMessageAccountedFor ==
  /\ 1..arrived = OnItsWayOrIn \cup lost \cup dropped \cup failed
  /\ OnItsWayOrIn \cap (lost \cup dropped \cup failed) = {}
  /\ lost \cap (dropped \cup failed) = {} /\ dropped \cap failed = {}

\* What makes that inductive beside the order: only the log has events in it.
NoEventOnItsWay == 0 \notin Messages(batch) \cup Messages(staged)

\* "What arrived before the stop is written" (bag.cpp:147), as far as the code
\* keeps it: a message whose write() had returned when close() took the lock is
\* never dropped, staged or not, however the lock is taken meanwhile.  The one
\* then still in write() may be: it staged itself after close()'s flush.  Nor is
\* all that arrives later dropped (against bag.cpp:142-144): what is staged
\* before that flush is written.
StopKeepsWhatCameBefore ==
  \A m \in dropped : m > openedAfter => ~open /\ m >= returnedBefore

\* What makes that inductive: from the flush close() begins with to the next
\* open(), only what had not returned when the stop came is staged.
Stopping == ~open \/ \E t \in Threads : op[t].kind = "close" /\ pc[t] \in {"drain", "stop"}
StopInv ==
  /\ returnedBefore <= Fresh /\ openedAfter <= arrived
  /\ Stopping => \A m \in Messages(staged) : m > openedAfter => m >= returnedBefore

\* The writer is free for writing once a slow operation has flushed the stage:
\* then at most one message is staged, the one that saw the flag just before it
\* cleared, so the stage never grows across slow operations.
FlushPending ==
  \/ busy
  \/ \E t \in Threads : pc[t] = "flush"
StageLeftover ==
  ~FlushPending => Len(staged) + (IF pc["msg"] = "stage" THEN 1 ELSE 0) <= 1

\* The rollover callback of split() is told split()'s reason and one of the
\* writer's own is told none (bag.hpp:63), a stale reason never.
RolloversTellTheirReason == \A r \in rollovers : r.told = r.asked

\* What makes that inductive: the reason is there exactly while split() is in the
\* writer.
ReasonInv ==
  /\ \A t \in Threads : pc[t] = "slow" /\ op[t].kind = "split" => splitReason = op[t].arg
  /\ (\A t \in Threads : ~(pc[t] = "slow" /\ op[t].kind = "split")) => splitReason = NoReason

\* "The counters restart: a new bag is a fresh episode" (bag.hpp:93): the count
\* reported is of the entries of the current bag, and of every one.
CountersDescribeThisBag == messages_written = Len(log) - logStart

\* The stage's byte count is what it holds (bag.cpp:277, 303), through every
\* flush and close: the running total of the sizes ends at the count, and never
\* passed the limit.  Were the count to drift upwards, messages would be lost with
\* room left; downwards, the stage would outgrow the writer's cache.
RunningTotal(total, s) ==
  total[0] = 0 /\ \A i \in 1..Len(s) : total[i] = total[i - 1] + SizeOf(s[i])
StageAccounting ==
  \E total \in [0..Len(staged) -> 0..MaxStaged] :
    RunningTotal(total, staged) /\ total[Len(staged)] = stagedBytes

\* "A recorded message never waits for a slow operation" (bag.hpp:51): a message
\* that finds the lock taken leaves the polling loop, even if the operation that
\* holds the writer never ends.
MessageNeverWaits == pc["msg"] = "contend" ~> pc["msg"] # "contend"

\* The bag implements MessageLog: with the batch, the stage and the message in
\* write() as one queue, every step of either thread is a step of a first in,
\* first out queue that records only while the bag is open.
Queue == batch \o staged \o InFlight
FIFO == INSTANCE MessageLog WITH
          Limit <- MaxArrivals, recording <- open, offered <- arrived, queue <- Queue
ImplementsMessageLog == FIFO!Spec

\* "stopped: what was staged after the stop is not recorded" (bag.cpp:307), in
\* any bag.  Violated: the stage survives into the next bag.
StagedAfterStopNotRecorded == lateStaged \cap Messages(log) = {}

\* "A recorded message never waits for a slow operation ... otherwise every
\* subscription callback would block" (bag.hpp:51): the message thread gets the
\* lock even if a slow operation never ends.  Violated when the callback acts on
\* a due schedule before it writes its message.
CallbackNeverWaits == pc["msg"] = "lock" ~> pc["msg"] # "lock"
=============================================================================
