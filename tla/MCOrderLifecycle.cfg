SPECIFICATION FairSpec
CONSTANTS
  d1 = d1
  d2 = d2
  d3 = d3
  k1 = k1
  k2 = k2
  Worker = Worker
  Deliveries <- BuyBuySell
  KeyOf <- BuyBuySellKeys
  ActionOf <- BuyBuySellActions
  Sar <- NoSar
  VenueSeq <- OneVenue
  OpenQty = 2
  AlertQty = 1
  MaxAttempts = 2
  MaxCrashes = 1
  MaxAborts = 1
INVARIANTS TypeOK OneDispatchPerSignal BookedOnce AuditClean OneOpenUnlessOverlapped
PROPERTIES TerminalIsFinal AcceptedLeavesOrders
