SPECIFICATION Spec
CONSTANTS
  d1 = d1
  d2 = d2
  Poller = Poller
  Worker = Worker
  None = None
  Signals <- EntryAndClose
  ActionOf <- EntryAndCloseActions
  Qty = 2
  AtomicStatus = TRUE
  MaxAttempts = 2
  MaxFaults = 0
CHECK_DEADLOCK FALSE
INVARIANT NoDoubleCount
