\* What was staged after the stop reaches the next bag.
SPECIFICATION Spec
CONSTANTS
  Topics = {"a"}
  EventTopic = "events"
  TopicOf <- MCTopicOf
  SizeOf <- MCSizeOf
  MaxStaged = 2
  Reasons = {}
  MaxArrivals = 1
  MaxBags = 2
  MaxWrites = 1
  MaxSplits = 0
  MaxThrows = 0
INVARIANTS
  StagedAfterStopNotRecorded
