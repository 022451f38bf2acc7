SPECIFICATION Spec
CONSTANTS
  Codes = {A, B}
  Workers = {w1, w2}
  QueueDepthArg = 2
  MaxOffers = 5
INVARIANTS NoSleepOverWork EveryOfferAccountedFor
PROPERTIES AcceptedIsDealtWith ShutdownReturns ImplementsBoundedCaptures
