SPECIFICATION FairSpec
CONSTANTS
  r1 = r1
  r2 = r2
  k1 = k1
  k2 = k2
  c1 = c1
  Worker = Worker
  Nobody = Nobody
  Requests <- Single
  KeyOf <- SingleKey
  AssetOf <- SingleAsset
  Closers <- OneClose
  Qty = 12
  SpotStep = 2
  PerpStep = 4
  Fee = 1
  Fills <- All
  MaxAttempts = 2
  MaxCloses = 2
  MaxFaults = 1
PROPERTIES ArbSettles LegRetriesSettle
CHECK_DEADLOCK FALSE
