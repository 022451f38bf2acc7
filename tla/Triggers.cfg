SPECIFICATION TriggersSpec
CONSTANTS
  Ids <- MCIds
  Requests <- MCRequests
  max_triggers = 1
  MaxPending = 1
  MaxChanges = 2
  MaxRequests = 2
  MaxRestarts = 1
  p1 = p1
  p2 = p2
  s1 = s1
  Producers = {p1, p2}
  Subscribers = {s1}
  Filter <- MCFilter
  Topic <- MCTopic
  max_queue_size_ = 2
  MaxNotifies = 3
INVARIANTS
  RestartKeepsActive
  DeletedStaysGone
  
  OnlyOverflowIsMissed
  NoLostWakeUp
PROPERTIES
  OnlyMetAreSwept
  PendingIsSent
CHECK_DEADLOCK FALSE
