SPECIFICATION FairSpec
CONSTANTS
  alice = alice
  bob = bob
  dao = dao
  gov = gov
  staking = staking
  vesting = vesting
  Address <- MCAddress
  Dao <- MCDao
  Receiver = {}
  Token <- MCToken
  VotingToken = gov
  Rank <- MCRank
  Configs <- MCConfigs
  Messages <- VoteMessages
  PreAllowed <- MCPreAllowed
  Answers <- MCAnswers
  InitHeight = 1
  MaxHeight = 3
  MaxProposals = 1
  Watched = 1
  Limits = {1}
  One = 4
  Precision = 4
  MaxUint = 3
INVARIANTS
  TypeOK
  VotesAreThePowers
  VotesWithinPower
  DepositsBacked
PROPERTIES
  ListedVotesAddUp
  LifecycleSpec
  EverySettled
CHECK_DEADLOCK FALSE
