SPECIFICATION BatchSpec
CONSTANTS
  Dates <- ThreeDates
  Raw <- AllRaw
  Nested <- LastNested
  NoDate <- NoneOf
  Refused <- SecondRefused
  NDates = 3
  MaxScripts = 4
  MaxRuns = 2
INVARIANTS
  BatchTypeOK
  TornExplained
  WholeSurvives
  CopiesCountRuns
  EarlierFirst
  StoredTornExplained
PROPERTIES
  TornStays
\* No program runs once all the runs are used up.
CHECK_DEADLOCK FALSE
