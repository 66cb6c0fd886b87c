SPECIFICATION Spec
CONSTANTS
  Traders = {t1, t2}
  MaxOpen = 1
  MaxOrders = 3
  MaxLapses = 1
  MaxBlind = 1
  Monitors = {m1, m2}
  MaxTrades = 3
INVARIANTS TypeOK RecordsTellTruth UnrecordedBounded ExposureBounded TrueAccount
CHECK_DEADLOCK FALSE
