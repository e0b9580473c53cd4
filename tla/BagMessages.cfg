\* Three messages through two bags: order, conservation, what a stop keeps, the stage.
SPECIFICATION Spec
CONSTANTS
  Topics = {"a"}
  EventTopic = "events"
  TopicOf <- MCTopicOf
  SizeOf <- MCSizeOf
  MaxStaged = 2
  Reasons = {}
  MaxArrivals = 3
  MaxBags = 2
  MaxWrites = 1
  MaxSplits = 0
  MaxThrows = 0
INVARIANTS
  TypeOK
  ArrivalOrder
  EveryMessageAccountedFor
  StopKeepsWhatCameBefore
  StageLeftover
  CountersDescribeThisBag
  StageAccounting
