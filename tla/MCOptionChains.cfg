SPECIFICATION Spec
CONSTANTS
  Strikes <- MCStrikes
  Terms <- MCTerms
  MaxEntries = 3
INVARIANTS
  TypeOK
  LongestPrefix
  NearestExpiry
  
\* The object is constructed and init() has answered.
CHECK_DEADLOCK FALSE
