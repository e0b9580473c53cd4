\* A schedule taken before a stop acts after the next record.
SPECIFICATION Spec
CHECK_DEADLOCK FALSE
CONSTANTS
  Topics = {"a"}
  Times = {1}
  Stamps = {0, 1}
  MaxCalls = 3
  MaxMessages = 1
  MaxInputs = 4
  MaxBags = 2
  MaxRollovers = 1
INVARIANTS
  ActsOnlyInItsBag
