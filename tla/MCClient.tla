------------------------------ MODULE MCClient ------------------------------
(* Values for TLC: two scripts, or threads of one, and one callback under two handles. *)
EXTENDS Client

\* Another node's get_status is not a recorder's.
MCGraph == {[node |-> "/left", type |-> GetStatusType], [node |-> "/right", type |-> GetStatusType],
            [node |-> "/other", type |-> "std_srvs/srv/Trigger"]}
MCSpellings == [node \in {"/left"} |-> {"left", "/left/"}]
MCNames == {None, "left"}
\* One topic, and one that is not spelled right.
MCSelections == {<<[topic |-> "/scan", type |-> "none"]>>, <<[topic |-> "/odom", type |-> ""]>>}
MCStartTopics == {"/odom"}
=============================================================================
