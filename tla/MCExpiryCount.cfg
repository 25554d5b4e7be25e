SPECIFICATION Spec
CONSTANTS
  Listed <- FourDates
  LastTrades <- LastTradeDates
  Closures <- ClosedDays
  Stride = 3
  Year = 6
INVARIANTS
  TypeOK
  CountsMissedClosures
  ExpiryOrderKept
  TradingDaysKept
\* The script ends.
CHECK_DEADLOCK FALSE
