SPECIFICATION Spec
CONSTANTS
  Arbs = {a1, a2}
  Closers = {c1}
  MaxHour = 2
  MaxFaults = 1
  Lookback = 2
  Never = Never
  Nobody = Nobody
SYMMETRY ArbSymmetry
INVARIANTS MissedOnlyWithoutPoll FundingIsOwn
CHECK_DEADLOCK FALSE
