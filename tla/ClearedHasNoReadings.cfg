SPECIFICATION EvidenceSpec
CONSTANTS
  Codes = {"F1", "F2"}
  EntityScoped = {"F2"}
  w1 = w1
  w2 = w2
  Workers <- MCWorkers
  QueueDepth = 1
  Policies = {"reject_newest", "drop_oldest"}
  Cooldown = 2
  Topics = 1
  MaxRows = 1
  Retain = FALSE
  MaxConfirms = 3
  MaxTime = 2
  Transitions = {"occurred", "cleared"}
  Retentions = {0, 1, 2}
  FailClosed = FALSE
  MaxAppends = 5
SYMMETRY WorkerSymmetry
INVARIANTS ClearedHasNoReadings
CHECK_DEADLOCK FALSE
