\* A callback acting on a due schedule waits for a slow operation.
SPECIFICATION FairSpec
CONSTANTS
  Topics = {"a"}
  EventTopic = "events"
  TopicOf <- MCTopicOf
  SizeOf <- MCSizeOf
  MaxStaged = 2
  Reasons = {}
  MaxArrivals = 1
  MaxBags = 1
  MaxWrites = 1
  MaxSplits = 0
  MaxThrows = 0
PROPERTIES
  CallbackNeverWaits
