----------------------------- MODULE MessageLog -----------------------------
(***************************************************************************)
(* What a bag promises its caller: messages offered one at a time pass     *)
(* through a queue into a log, first in first out, while a recording is    *)
(* open.  A message can be given up at the back of the queue when there is *)
(* no room or no recording, at the front when the writer refuses it, and   *)
(* the queue's contents when there is no recording.                        *)
(***************************************************************************)
EXTENDS Naturals, Sequences

CONSTANT Limit       \* bound: messages offered

VARIABLES
  recording,  \* a recording is open
  offered,    \* how many messages were offered: the n-th is the number n
  queue,      \* messages on their way, oldest first
  log         \* what was recorded, an event being 0

vars == <<recording, offered, queue, log>>

Init == recording = FALSE /\ offered = 0 /\ queue = <<>> /\ log = <<>>

StartOrStop == recording' = ~recording /\ UNCHANGED <<offered, queue, log>>

Offer ==
  /\ offered < Limit
  /\ offered' = offered + 1
  /\ queue' = Append(queue, offered')
  /\ UNCHANGED <<recording, log>>

Record ==
  /\ recording /\ queue # <<>>
  /\ log' = Append(log, Head(queue))
  /\ queue' = Tail(queue)
  /\ UNCHANGED <<recording, offered>>

RecordEvent ==
  /\ recording
  /\ log' = Append(log, 0)
  /\ UNCHANGED <<recording, offered, queue>>

Refuse ==
  /\ recording /\ queue # <<>>
  /\ queue' = Tail(queue)
  /\ UNCHANGED <<recording, offered, log>>

GiveUp ==
  /\ queue # <<>>
  /\ queue' = SubSeq(queue, 1, Len(queue) - 1)
  /\ UNCHANGED <<recording, offered, log>>

Discard ==
  /\ ~recording
  /\ \E k \in 1..Len(queue) : queue' = SubSeq(queue, k + 1, Len(queue))
  /\ UNCHANGED <<recording, offered, log>>

Next == StartOrStop \/ Offer \/ Record \/ RecordEvent \/ Refuse \/ GiveUp \/ Discard

Spec == Init /\ [][Next]_vars
=============================================================================
