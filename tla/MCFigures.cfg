SPECIFICATION FiguresSpec
CONSTANTS
  MaxOrders = 3
  Lot = 2
  MaxLots = 2
  Prices = {1, 3}
  MaxSteps = 3
  Amounts = {0, 5, 6, 7, 20, 31}
  UnitPrices = {1, 2, 3}
  Steps = {1, 2, 3, 4}
INVARIANTS LedgerIsVenue AuditIsClean CostBasisKept AvgIsOfLeg OpenIsPlaceable PairIsPlaceable
CHECK_DEADLOCK FALSE
