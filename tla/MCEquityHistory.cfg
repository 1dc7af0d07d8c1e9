SPECIFICATION Spec
CONSTANTS
  MaxHour = 4
  Venues = {bybit, hyperliquid}
  HasHistory = {bybit, hyperliquid}
INVARIANTS OnePointPerHour MarkerIsEarned
PROPERTIES PointsKept
