------------------------------ MODULE BagReport ------------------------------
(***************************************************************************)
(* What a bag says of itself: dynrec/bag.py, from the messages it holds to *)
(* the report `ros2 dynrec info` prints, and the code it exits with.       *)
(*                                                                         *)
(* A bag is the receive stamps of each topic's messages, in the order they *)
(* were written, and the recorder's own event messages, each with its      *)
(* stream, its action as a number, a topic and a stamp.  A window is a     *)
(* pair of stamps, and what was a list of windows in order is their set.   *)
(***************************************************************************)
EXTENDS Results, SequencesExt

CONSTANTS Topics, Threshold   \* UNEXPLAINED_GAP_SECONDS

ASSUME BagReportAssumption == Threshold \in Nat \ {0} /\ None \notin Int

-----------------------------------------------------------------------------
(* Intervals *)

Earlier(v, w) == v[1] < w[1] \/ (v[1] = w[1] /\ v[2] < w[2])
Later(x, y) == IF x > y THEN x ELSE y
Sooner(x, y) == IF x < y THEN x ELSE y
Length(w) == w[2] - w[1]

\* sorted(): what comes last.
LastOf(windows) == CHOOSE w \in windows : \A v \in windows \ {w} : Earlier(v, w)

\* merge_windows(): in order, empty ones dropped, each joined to the last if it
\* overlaps or touches it.
JoinLast(w, merged) ==
  LET last == LastOf(merged) IN
  IF merged # {} /\ w[1] <= last[2]
  THEN (merged \ {last}) \cup {<<last[1], Later(last[2], w[2])>>}
  ELSE merged \cup {w}
MergeWindows(windows) ==
  MapThenFoldSet(JoinLast, {}, LAMBDA w : w, LastOf, {w \in windows : Length(w) > 0})

IntersectWindows(first, second) ==
  MergeWindows({<<Later(a[1], b[1]), Sooner(a[2], b[2])>> : a \in first, b \in second})

Overlap(v, w) == Later(0, Sooner(v[2], w[2]) - Later(v[1], w[1]))

\* Seconds of the windows with every pause taken out.
LiveSeconds(windows, pauses) ==
  LET Paused(w) == SumFunction([p \in MergeWindows(pauses) |-> Overlap(w, p)])
  IN Later(0, SumFunction([w \in MergeWindows(windows) |-> Length(w) - Paused(w)]))

RateOver(count, seconds) == IF seconds = None \/ seconds <= 0 THEN None ELSE <<count, seconds>>

-----------------------------------------------------------------------------
(* Events *)

\* sorted() keeps the order of what has one stamp: an event goes behind what is not later.
InsertByStamp(sorted, event) ==
  InsertAt(sorted, Cardinality({i \in DOMAIN sorted : sorted[i].stamp <= event.stamp}) + 1, event)
Sorted(events) == FoldLeft(InsertByStamp, <<>>, events)

\* One event of _event_windows(): opens, closes, or changes nothing.
WindowStep(state, event, opening, closing) ==
  IF event.action = opening /\ state.opened = None THEN [state EXCEPT !.opened = event.stamp]
  ELSE IF event.action = closing /\ state.opened # None
  THEN [windows |-> state.windows \cup {<<state.opened, event.stamp>>}, opened |-> None]
  ELSE state
\* Its loop, among the events that match.
WindowsSoFar(events, matching, opening, closing) ==
  FoldLeft(LAMBDA state, event : IF event \in matching THEN WindowStep(state, event, opening, closing) ELSE state,
           [windows |-> {}, opened |-> None], Sorted(events))
\* Mutant of EventWindows: a window that nothing closes is not one.
EventWindowsClosed(events, matching, opening, closing, end) ==
  MergeWindows(WindowsSoFar(events, matching, opening, closing).windows)
EventWindows(events, matching, opening, closing, end) ==
  LET last == WindowsSoFar(events, matching, opening, closing)
  IN MergeWindows(last.windows \cup IF last.opened = None THEN {} ELSE {<<last.opened, end>>})

\* Mutant of SubscribedWindows: whichever topic the event is about.
SubscribedWindowsOfAny(events, topic, end) ==
  EventWindows(events, {e \in Range(events) : e.kind = "subscription"}, "subscribed", "unsubscribed", end)
SubscribedWindows(events, topic, end) ==
  EventWindows(events, {e \in Range(events) : e.kind = "subscription" /\ e.topic = topic},
               "subscribed", "unsubscribed", end)
PauseWindows(events, end) ==
  EventWindows(events, {e \in Range(events) : e.kind = "pause"}, "paused", "resumed", end)

-----------------------------------------------------------------------------
(* Holes *)

\* From one stamp to the next; the threshold is not zero, so neither is a gap.
Neighbours(stamps) ==
  {w \in Range(stamps) \X Range(stamps) : w[1] < w[2] /\ ~\E x \in Range(stamps) : w[1] < x /\ x < w[2]}
\* Mutant of GapsIn: a gap as long as the threshold is not one.
GapsInBeyond(stamps, threshold) == {w \in Neighbours(stamps) : Length(w) > threshold}
GapsIn(stamps, threshold) == {w \in Neighbours(stamps) : Length(w) >= threshold}

\* The holes of every channel, but those a pause covers more than half of.
UnexplainedGaps(channelGaps, pauses, threshold) ==
  IF channelGaps = {} THEN {}
  ELSE LET first == CHOOSE gaps \in channelGaps : TRUE
           shared == FoldSet(IntersectWindows, MergeWindows(first), channelGaps \ {first})
       IN {w \in shared :
             /\ Length(w) >= threshold
             /\ ~\E p \in MergeWindows(pauses) : 2 * Overlap(w, p) > Length(w)}

-----------------------------------------------------------------------------
(* The report *)

\* ChannelStats
Channel(stamps, windows, pauses) ==
  LET span == <<Min(Range(stamps)), Max(Range(stamps))>>
      stats(basis, recorded, active) ==
        [count |-> Len(stamps), first |-> span[1], last |-> span[2], basis |-> basis, recorded |-> recorded,
         active |-> active, rate |-> RateOver(Len(stamps), active)]
  IN IF windows # {}
     THEN stats("events", LiveSeconds(windows, pauses),
                LiveSeconds(IntersectWindows(windows, {span}), pauses))
     ELSE IF Len(stamps) > 1
     THEN stats("span", LiveSeconds({span}, pauses), LiveSeconds({span}, pauses))
     ELSE stats("unknown", None, None)

\* _warnings(), one of each kind.
Warnings(events, unexplained) ==
  LET kinds == {e.kind : e \in Range(events)} IN
  (IF "subscription" \notin kinds THEN {"no subscription events"} ELSE {}) \cup
  (IF "pause" \notin kinds THEN {"no pause events"} ELSE {}) \cup
  (IF unexplained # {} THEN {"every live channel stops together"} ELSE {}) \cup
  (IF "low_disk" \in kinds THEN {"stopped for free space"} ELSE {}) \cup
  (IF "bag_size_limit" \in kinds THEN {"stopped at its size limit"} ELSE {})

\* What describe() reads of a bag with a message in it: every stamp, the channels
\* that have messages, its own events in order, and the holes of each channel.
AllStamps(bag) ==
  (UNION {Range(bag.stamps[t]) : t \in Topics}) \cup {msg.stamp : msg \in Range(bag.events)}
Populated(bag) == {t \in Topics : bag.stamps[t] # <<>>}
EventsOf(bag) == Sorted([i \in DOMAIN bag.events |-> EventFromMsg(bag.events[i])])
ChannelGaps(bag) ==
  {GapsIn(bag.stamps[t], Threshold) : t \in {p \in Populated(bag) : Len(bag.stamps[p]) > 1}}

\* describe(): its summary.
Describe(bag) ==
  LET end == Max(AllStamps(bag))
      events == EventsOf(bag)
      pauses == PauseWindows(events, end)
      unexplained == UnexplainedGaps(ChannelGaps(bag), pauses, Threshold)
  IN [start |-> Min(AllStamps(bag)), end |-> end,
      channels |-> [t \in Populated(bag) |->
                      Channel(bag.stamps[t], SubscribedWindows(events, t, end), pauses)],
      pauses |-> pauses, gaps |-> unexplained, warnings |-> Warnings(events, unexplained)]

\* The exit code of the info verb on a bag it can read.
InfoExit(summary) == IF summary.gaps # {} THEN 2 ELSE 0
=============================================================================
