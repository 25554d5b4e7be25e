SPECIFICATION ProcessSpec
CONSTANTS
  c1 = c1
  c2 = c2
  p1 = p1
  p2 = p2
  NBars <- DayBars
  Listings <- DayListings
  QuoteTables <- DayTables
  KlineTables <- DayKlines
  Spots <- DaySpots
  StrayDoubles <- DayStray
  Unfit <- DayUnfit
  BarTime <- DayBarTime
  TickFiles <- DayFiles
  IVs <- DayIVs
INVARIANTS
  NoQuotesRefused
\* start() returns, or the process ends.
CHECK_DEADLOCK FALSE
