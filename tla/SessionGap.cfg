\* A hole between two messages that has messages in it.
SPECIFICATION Spec
CONSTANTS
  None = None
  Second = 4
  Nano = 2
  Grain = 4
  Topics = {a}
  Threshold = 2
  MaxTime = 4
  MaxMessages = 3
  MaxChanges = 2
  MaxLag = 1
  Typed <- MCTyped
  Modes = {"node", "receive"}
  Configs <- MCConfigs
CHECK_DEADLOCK FALSE
INVARIANT GapsHaveNoMessages
