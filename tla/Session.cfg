\* A recording of a few seconds, and the report on its bag.
SPECIFICATION Spec
CONSTANTS
  None = None
  Second = 4
  Nano = 2
  Grain = 4
  Topics = {a, b}
  Threshold = 2
  MaxTime = 3
  MaxMessages = 2
  MaxChanges = 2
  MaxLag = 1
  Typed <- MCTyped
  Modes = {"node", "receive"}
  Configs <- MCConfigs
SYMMETRY MCSymmetry
CHECK_DEADLOCK FALSE
INVARIANTS
  TypeOK
  MeasuredIsTheTruth
  PausesAreTheTruth
  HolesAreFound
  RelativeTimesAreTheRecorders
  WallClockIsNext
  StampsAreLegal
