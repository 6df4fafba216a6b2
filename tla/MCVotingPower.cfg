SPECIFICATION VPSpec
CONSTANTS
  alice = alice
  bob = bob
  dao = dao
  Address <- MCAddress
  VotingDao = dao
  Terms <- MCTerms
  MaxUint = 15
  InitHeight = 1
  MaxHeight = 3
  BlockTimes = {1}
  FundAmounts = {3}
  MaxFunds = 3
  Supply = 7
  Stakes <- MCStakes
  ActiveThresholds <- MCActiveThresholds
  Unit = 4
  PRECISION_FACTOR = 4
INVARIANTS
  PowerAddsUp
  ActiveHasPower
PROPERTIES
  PastPowersFrozen
