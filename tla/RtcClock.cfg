CONSTANTS
  Seconds = 12
  Minutes = 11
  Hours = 13
SPECIFICATION Spec
INVARIANTS TypeOK ReadIsNeverBehind InitKeepsTime
