SPECIFICATION Spec
CONSTANTS
  alice = alice
  bob = bob
  dao = dao
  gov = gov
  staking = staking
  vesting = vesting
  Address <- MCAddress
  Dao <- MCDao
  Receiver <- HookReceiver
  Token <- MCToken
  VotingToken = gov
  Rank <- MCRank
  Configs <- HookConfigs
  Messages <- HookMessages
  PreAllowed <- HookPreAllowed
  Answers <- HookAnswers
  InitHeight = 1
  MaxHeight = 2
  MaxProposals = 1
  Watched = 1
  Limits = {1}
  One = 4
  Precision = 4
  MaxUint = 3
INVARIANTS
  InvalidReceiversDoNotLock
CHECK_DEADLOCK FALSE
