SPECIFICATION ServicesSpec
CONSTANTS
  c1 = c1
  c2 = c2
  Clients = {c1, c2}
  app = app
  component = component
  area = area
  Entities = {app, component, area}
  NoEntity = NoEntity
  Parent <- MCParent
  Breakable <- MCBreakable
  Required <- MCRequired
  MaxExpiration <- MCMaxExpiration
  Collections = {"data", "cyclic-subscriptions"}
  Subs = "cyclic-subscriptions"
  Subscribable = {component}
  Scopings = {{}, {"data"}}
  MaxLocks = 2
  Packages = {"p"}
  Deleters = {c1}
  BackendLocks = FALSE
  MaxTasks = 2
  MaxRequests = 6
INVARIANTS IndexAgrees OneTaskPerPackage  CompletionAnnounced
PROPERTIES EndsEarlyOnlyByRight RequestsReturn
CHECK_DEADLOCK FALSE
