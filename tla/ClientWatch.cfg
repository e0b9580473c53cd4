SPECIFICATION Spec
CONSTANTS
  None = None
  Threads = {t1}
  Exec = exec
  Handles = {1, 2}
  Operations = {"toggle", "set_topics"}
  CallbackOperations = {"stop"}
  Selections <- MCSelections
  StartTopics <- MCStartTopics
  Graph <- MCGraph
  Spellings <- MCSpellings
  Names <- MCNames
  Followed = "/left"
CHECK_DEADLOCK FALSE
INVARIANT CurrentStateSeenAtOnce
