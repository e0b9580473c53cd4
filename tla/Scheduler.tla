----------------------------- MODULE Scheduler -----------------------------
(***************************************************************************)
(* Resumes, splits and records asked for at a later time (scheduler.cpp).  *)
(* One slot and one timer per kind: a node-time schedule is a one-shot     *)
(* timer of the service thread, a message-time one is looked for in every  *)
(* message by the message thread.  Each operation below is what it does    *)
(* under mutex_, timers being the service thread's own.                    *)
(***************************************************************************)
EXTENDS Integers

CONSTANTS
  Topics,   \* what can be recorded
  Times,    \* the times a schedule is set for
  Stamps    \* a message's stamps; 0 is one the middleware did not supply

VARIABLES
  scheduled,             \* per kind, the schedule in its slot or NoSchedule
  timer,                 \* per kind, whether its timer is armed
  message_time_pending   \* read without the lock

schedulerVars == <<scheduled, timer, message_time_pending>>

Kinds == {"resume", "split", "record"}
Modes == {"node", "publish", "receive"}
AnyTopic   == "any"
NoSchedule == [mode |-> "none"]

FiresOnMessages(s) == s.mode \in {"publish", "receive"}

\* A message stamped at or after the time, on the topic tracked if there is one.
IsDue(s, topic, send, recv) ==
  LET stamp == IF s.mode = "publish" THEN send ELSE recv
  IN /\ FiresOnMessages(s)
     /\ s.tracking \in {AnyTopic, topic}
     /\ stamp # 0 /\ stamp >= s.at

\* update_message_time_pending(): of the slots as they become.
\* Mutant of UpdatePending: left as it was.
KeepPending == UNCHANGED message_time_pending
UpdatePending ==
  message_time_pending' = \E k \in {"resume", "split"} : FiresOnMessages(scheduled'[k])

SchedulerInit ==
  /\ scheduled = [k \in Kinds |-> NoSchedule]
  /\ timer = [k \in Kinds |-> FALSE]
  /\ message_time_pending = FALSE

\* schedule_at_node_time() and schedule_at_message_time(): replace(), which
\* cancels the kind's timer, then a timer if it is node time.
Schedule(k, s) ==
  /\ scheduled' = [scheduled EXCEPT ![k] = s]
  /\ timer' = [timer EXCEPT ![k] = (s.mode = "node")]
  /\ UpdatePending

\* A timer's callback, before its action: off the list.
TimerFires(k) ==
  /\ timer[k]
  /\ timer' = [timer EXCEPT ![k] = FALSE]
  /\ scheduled' = [scheduled EXCEPT ![k] = NoSchedule]
  /\ UNCHANGED message_time_pending

\* take_due(): the kinds a message fires, each leaving its slot.
Due(topic, send, recv) ==
  {k \in {"resume", "split"} :
     message_time_pending /\ IsDue(scheduled[k], topic, send, recv)}
TakeDue(topic, send, recv) ==
  /\ scheduled' = [k \in Kinds |-> IF k \in Due(topic, send, recv) THEN NoSchedule ELSE scheduled[k]]
  /\ IF message_time_pending THEN UpdatePending ELSE UNCHANGED message_time_pending
  /\ UNCHANGED timer

\* Mutant of Clear: what waits for a message is kept.
ClearTimers ==
  /\ timer' = [timer EXCEPT !["resume"] = FALSE, !["split"] = FALSE]
  /\ scheduled' = [k \in Kinds |-> IF timer[k] /\ k # "record" THEN NoSchedule ELSE scheduled[k]]
  /\ UNCHANGED message_time_pending
\* Mutant of Clear: the split is forgotten.
ClearResume ==
  /\ timer' = [timer EXCEPT !["resume"] = FALSE]
  /\ scheduled' = [scheduled EXCEPT !["resume"] = NoSchedule]
  /\ UpdatePending
\* clear(): the record is kept.
Clear ==
  /\ timer' = [timer EXCEPT !["resume"] = FALSE, !["split"] = FALSE]
  /\ scheduled' = [scheduled EXCEPT !["resume"] = NoSchedule, !["split"] = NoSchedule]
  /\ UpdatePending
=============================================================================
