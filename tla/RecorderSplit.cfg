\* A rollover while the recorder is stopping.
SPECIFICATION Spec
CHECK_DEADLOCK FALSE
CONSTANTS
  Topics = {"a"}
  Times = {1}
  Stamps = {0, 1}
  MaxCalls = 1
  MaxMessages = 1
  MaxInputs = 2
  MaxBags = 1
  MaxRollovers = 1
INVARIANTS
  RolloverExplainedInItsBag
