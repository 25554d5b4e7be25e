SPECIFICATION Spec
CONSTANTS
  Top <- MCTop
  Thresholds <- AllThresholds
  Counts <- ListedCounts
INVARIANTS
  TypeOK
  Bracket
  TimeLeft
  AbortJustified
PROPERTIES
  MaturityDecreases
  SearchEnds
\* The option expires, or the assertion ends the program.
CHECK_DEADLOCK FALSE
