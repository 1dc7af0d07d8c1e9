SPECIFICATION Spec
CONSTANTS
  r1 = r1
  r2 = r2
  k1 = k1
  k2 = k2
  c1 = c1
  Worker = Worker
  Nobody = Nobody
  Requests <- Two
  KeyOf <- RepeatKeys
  AssetOf <- SameAsset
  Closers <- OneClose
  Qty = 12
  SpotStep = 2
  PerpStep = 4
  Fee = 1
  Fills <- SomeOrAll
  MaxAttempts = 2
  MaxCloses = 2
  MaxFaults = 1
INVARIANTS TypeOK OneArbPerKey HedgeFollowsFill BookMatchesVenue ClosedIsFlatUnlessDisturbed
PROPERTIES ImplementsPairs
CHECK_DEADLOCK FALSE
