\* Calls, messages and timers through two bags.
SPECIFICATION Spec
CHECK_DEADLOCK FALSE
CONSTANTS
  Topics = {"a"}
  Times = {1}
  Stamps = {0, 1}
  MaxCalls = 3
  MaxMessages = 2
  MaxInputs = 4
  MaxBags = 2
  MaxRollovers = 2
INVARIANTS
  TypeOK
  ScheduleIsLive
  StoppedHasNothingQueued
  NodeTimeActsInItsBag
  PauseEventsTellTheState
  PauseHoldsBack
  NoEventStranded
  OneReasonToStop
