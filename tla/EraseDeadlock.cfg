SPECIFICATION Spec
CONSTANTS
  c1 = c1
  c2 = c2
  c3 = c3
  Packages = {"p"}
  Clients = {c1, c2, c3}
  Deleters = {c1, c2}
  BackendLocks = FALSE
  MaxTasks = 1
  MaxRequests = 4
PROPERTY RequestsReturn
CHECK_DEADLOCK FALSE
