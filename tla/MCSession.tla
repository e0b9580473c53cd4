------------------------------ MODULE MCSession ------------------------------
(* Values for TLC: days of four seconds; clocks put forward over midnight, back to *)
(* it, and back over it; and a time from now half a nanosecond short of a second, *)
(* where floats are two nanoseconds apart.                                        *)
EXTENDS Session

Forward == [change |-> 3, before |-> 0, after |-> 2, day |-> 4]
Back == [change |-> 3, before |-> 1, after |-> 0, day |-> 4]
BackOver == [change |-> 3, before |-> 2, after |-> 0, day |-> 4]
MCConfigs ==
  {[subscriptions |-> TRUE, pauses |-> TRUE, nanoseconds |-> 3, skew |-> 2, zone |-> Forward],
   [subscriptions |-> TRUE, pauses |-> FALSE, nanoseconds |-> 1, skew |-> -1, zone |-> Back],
   [subscriptions |-> FALSE, pauses |-> TRUE, nanoseconds |-> 0, skew |-> 0, zone |-> BackOver]}
MCTyped == {[form |-> "relative", time |-> Unit - 1], [form |-> "wall", clock |-> 3], [form |-> "soon"]}
MCSymmetry == Permutations(Topics)
=============================================================================
