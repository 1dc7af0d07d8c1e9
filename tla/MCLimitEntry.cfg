SPECIFICATION FairSpec
CONSTANTS
  d1 = d1
  d2 = d2
  Poller = Poller
  Worker = Worker
  None = None
  Signals <- EntryAndClose
  ActionOf <- EntryAndCloseActions
  Qty = 2
  AtomicStatus = FALSE
  MaxAttempts = 2
  MaxFaults = 1
INVARIANTS NoOverbooking SettledIsBooked
PROPERTIES WorkingSettles
CHECK_DEADLOCK FALSE
