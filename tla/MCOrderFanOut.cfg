SPECIFICATION FairSpec
CONSTANTS
  d1 = d1
  d2 = d2
  d3 = d3
  k1 = k1
  k2 = k2
  Worker = Worker
  Deliveries <- SarSignals
  KeyOf <- SarKeys
  ActionOf <- SarActions
  Sar <- SarSignals
  VenueSeq <- TwoVenues
  OpenQty = 1
  AlertQty = 2
  MaxAttempts = 3
  MaxCrashes = 1
  MaxAborts = 2
INVARIANTS FilledOnce SubmissionsBounded
PROPERTIES RetryingSettles
