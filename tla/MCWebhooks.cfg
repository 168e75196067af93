SPECIFICATION FairWebhookSpec
CONSTANTS
  Events = {e1}
  Endpoints = {p1, p2}
  Dispatchers = {w1, w2}
  NoDispatch = NoDispatch
  BatchSize = 2
  MaxAttempts = 2
  MaxFaults = 1
INVARIANTS
  VerdictsAreHonest
PROPERTIES
  ImplementsDelivery
  EveryDispatchSettles
CHECK_DEADLOCK FALSE
