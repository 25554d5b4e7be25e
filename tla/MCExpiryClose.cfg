SPECIFICATION Spec
CONSTANTS
  Top <- MCTop
  Thresholds <- ModestThresholds
  Counts <- LastTwoDays
INVARIANTS
  AssertionHolds
\* The option expires, or the assertion ends the program.
CHECK_DEADLOCK FALSE
