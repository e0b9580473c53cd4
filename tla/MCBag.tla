------------------------------- MODULE MCBag -------------------------------
(***************************************************************************)
(* A small instance of Bag: messages of two sizes on one topic.            *)
(***************************************************************************)
EXTENDS Bag

MCTopicOf(n) == "a"
MCSizeOf(n)  == IF n % 2 = 1 THEN 1 ELSE 2
=============================================================================
