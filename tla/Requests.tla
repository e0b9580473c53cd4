------------------------------ MODULE Requests ------------------------------
(***************************************************************************)
(* What dynrec decides before anything is sent: which recorder is meant    *)
(* (discovery.py), whether a selection makes a request (topics.py), and    *)
(* which service a method calls (client.py).                               *)
(*                                                                         *)
(* A topic as typed is a topic, possibly empty, and what follows a colon:  *)
(* "none" without one, "" with nothing after it, or a type.                *)
(***************************************************************************)
EXTENDS Naturals, Sequences, FiniteSets

CONSTANTS None,       \* Python's None
          Spellings   \* what may be typed for a node: [node -> set of names]
NotFound == "RecorderNotFound"
Ambiguous == "AmbiguousRecorder"
Invalid == "InvalidRequest"

-----------------------------------------------------------------------------
(* Which recorder *)

GetStatusType == "rosbag2_dynamic_recorder_interfaces/srv/GetStatus"
\* What the graph lists, for a node that has a get_status service: its type.
RecorderNodes(graph) == {g.node : g \in {h \in graph : h.type = GetStatusType}}

\* One leading slash and none behind, however it was typed.
NodeName(typed) == CHOOSE node \in DOMAIN Spellings : typed \in Spellings[node]

\* Mutant of ChooseRecorder: the name goes on as it was typed.
ChooseAsTyped(discovered, requested) ==
  IF requested # None THEN requested
  ELSE IF discovered = {} THEN NotFound
  ELSE IF Cardinality(discovered) > 1 THEN Ambiguous
  ELSE CHOOSE r \in discovered : TRUE
\* A name is trusted without having been found; without one there must be one.
ChooseRecorder(discovered, requested) ==
  IF requested # None THEN NodeName(requested)
  ELSE IF discovered = {} THEN NotFound
  ELSE IF Cardinality(discovered) > 1 THEN Ambiguous
  ELSE CHOOSE r \in discovered : TRUE

-----------------------------------------------------------------------------
(* What is asked *)

\* parse_topic_specs(): an item without a topic, or with a colon and no type.
Malformed(values) == \E i \in DOMAIN values : values[i].topic = "" \/ values[i].type = ""

\* Naming nothing is a mistake for add() and remove(), a request for set_topics().
SelectionError(operation, values, regex) ==
  \/ Malformed(values)
  \/ operation \in {"add", "remove"} /\ values = <<>> /\ ~regex

\* The methods that read, that change what is recorded, that control it.
Reading == [status |-> "get_status", topics |-> "get_subscribed_topics",
            profiles |-> "get_profiles", is_paused |-> "is_paused"]
Selecting == [add |-> "subscribe_topics", remove |-> "unsubscribe_topics",
              set_topics |-> "set_topics", profile |-> "set_profile"]
Controlling == [pause |-> "pause", resume |-> "resume", toggle |-> "toggle_paused",
                split |-> "split_bagfile", snapshot |-> "snapshot", stop |-> "stop",
                record |-> "record"]
AllOperations == DOMAIN Reading \cup DOMAIN Selecting \cup DOMAIN Controlling
Service(operation) ==
  CASE operation \in DOMAIN Reading -> Reading[operation]
    [] operation \in DOMAIN Selecting -> Selecting[operation]
    [] OTHER -> Controlling[operation]

\* What a method raises; with_recorder() makes an exit code of it for a verb.
Raised == {NotFound, Ambiguous, Invalid, "ServiceUnavailable", "CallTimeout", "CallFailed"}
EXIT_OK == 0
EXIT_ERROR == 1
ExitCode(kind) == IF kind \in Raised THEN EXIT_ERROR ELSE EXIT_OK
=============================================================================
