SPECIFICATION DaoSpec
CONSTANTS
  alice = alice
  bob = bob
  dao = dao
  gov = gov
  vesting = vesting
  Address <- MCAddress
  VotingDao = dao
  VestingContract = vesting
  Token <- MCToken
  VotingToken = gov
  Rank <- MCRank
  Configs <- MCConfigs
  PreAllowed <- MCPreAllowed
  Messages <- MCMessages
  MaxProposals = 1
  Terms <- MCTerms
  MaxUint = 5
  InitHeight = 2
  MaxHeight = 4
  BlockTimes = {2}
  FundAmounts = {3}
  MaxFunds = 3
  Supply = 5
  Stakes <- MCStakes
  ActiveThresholds <- MCActiveThresholds
  Unit = 4
  PRECISION_FACTOR = 4
  Precision = 4
INVARIANTS
  TotalPowerIsPower
