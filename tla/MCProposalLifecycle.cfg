SPECIFICATION LCSpec
CONSTANTS
  One = 8
  Precision = 4
  MaxUint = 3
  MaxPower = 3
  FirstTime = 0
  MaxTime = 2
  Openings <- MCOpenings
INVARIANTS
  PassedIsSure
  RejectedIsSure
  SettledRightly
PROPERTIES
  DecisionIsFinal
CHECK_DEADLOCK FALSE
