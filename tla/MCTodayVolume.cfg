SPECIFICATION Spec
CONSTANTS
  c1 = c1
  c2 = c2
  c3 = c3
  c4 = c4
  p1 = p1
  p2 = p2
  p3 = p3
  p4 = p4
  NBars <- CarryBars
  Listings <- CarryListings
  QuoteTables <- CarryTables
  Spots <- CarrySpots
  StrayDoubles <- Stray
INVARIANTS
  TodayVolumeAccumulates
\* The loop ends after its last bar.
CHECK_DEADLOCK FALSE
