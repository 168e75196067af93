SPECIFICATION FairSpec
CONSTANTS
  p1 = p1
  alice = alice
  NoWorker = NoWorker
  NoPlan = NoPlan
  Plans <- OnePlan
  Owners = {alice}
  OwnerOf <- OwnedByAlice
  OnChainIds <- OnePlan
  Requests = {r1, r2}
  Workers = {w1, w2}
  MaxPayouts = 2
  Soroban = TRUE
  BatchSize = 1
  MaxAttempts = 2
  MaxCrashes = 1
INVARIANTS
  TriggeredMeansOnChain
  InFlightIsRecorded
PROPERTIES
  DecidedStaysDecided
  PaidOutStands
  ExpiredPlansAreDecided
