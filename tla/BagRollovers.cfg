\* Splits asked for, rollovers at a limit, and a writer that throws.
SPECIFICATION FairSpec
CONSTANTS
  Topics = {"a"}
  EventTopic = "events"
  TopicOf <- MCTopicOf
  SizeOf <- MCSizeOf
  MaxStaged = 2
  Reasons = {"asked"}
  MaxArrivals = 2
  MaxBags = 1
  MaxWrites = 2
  MaxSplits = 2
  MaxThrows = 1
INVARIANTS
  RolloversTellTheirReason
PROPERTIES
  MessageNeverWaits
  ImplementsMessageLog
