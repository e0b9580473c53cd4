------------------------------- MODULE Results -------------------------------
(***************************************************************************)
(* What dynrec hands a script for the recorder's messages (results.py):    *)
(* the events of five streams, and of a status when it was built; and what *)
(* the UI node makes of that.  The constants of the messages are numbers,  *)
(* the script's are words.                                                 *)
(***************************************************************************)
EXTENDS Times, Sequences, TLC

SUBSCRIPTION_ACTIONS == <<"subscribed", "unsubscribed">>
PAUSE_ACTIONS == <<"paused", "resumed">>
STOP_ACTIONS == <<"stopped">>
\* A word, or the number of a constant this library does not know.
ActionName(names, number) == IF number + 1 \in DOMAIN names THEN names[number + 1] ELSE ToString(number)

\* EVENT_STREAMS, and the Event each makes of its message.
EventStreams ==
  [subscription_change |-> [kind |-> "subscription", names |-> SUBSCRIPTION_ACTIONS],
   pause |-> [kind |-> "pause", names |-> PAUSE_ACTIONS],
   file_split |-> [kind |-> "split", names |-> <<"split">>],
   low_disk |-> [kind |-> "low_disk", names |-> STOP_ACTIONS],
   bag_size_limit |-> [kind |-> "bag_size_limit", names |-> STOP_ACTIONS]]
EventFromMsg(msg) ==
  [kind |-> EventStreams[msg.stream].kind, topic |-> msg.topic, stamp |-> msg.stamp,
   action |-> ActionName(EventStreams[msg.stream].names, msg.action)]

\* Status.from_msg(): of a status, its stamp.
StatusFromMsg(msg) == [stamp |-> Seconds(msg.stamp)]

-----------------------------------------------------------------------------
(* The UI node (ui_node.py) *)

\* A sum of floats; age is counted from when the status arrived.
RecorderNow(status, age) == Float(status.stamp + age)

\* Mutant of ResolveAt: what was typed is left to the machine's clock.
ResolveByMachine(zone, at, status, age) == at
\* resolve_at(): on the recorder's clock, as of its last status; left for dynrec
\* without one.
ResolveAt(zone, at, status, age) ==
  IF at = None \/ status = None THEN at
  ELSE [form |-> "epoch", time |-> Seconds(ParseTime(zone, at, RecorderNow(status, age)))]
=============================================================================
