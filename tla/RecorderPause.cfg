\* A scheduled resume against a pause.
SPECIFICATION Spec
CHECK_DEADLOCK FALSE
CONSTANTS
  Topics = {"a"}
  Times = {1}
  Stamps = {0, 1}
  MaxCalls = 2
  MaxMessages = 1
  MaxInputs = 3
  MaxBags = 1
  MaxRollovers = 0
INVARIANTS
  PausesAlternate
