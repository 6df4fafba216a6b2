SPECIFICATION SUSpec
CONSTANTS
  t1 = t1
  t2 = t2
  s1 = s1
  s2 = s2
  v1 = v1
  v2 = v2
  c1 = c1
  c2 = c2
  c3 = c3
  daoAddr = daoAddr
  alice = alice
  Nobody = Nobody
  Contract <- MCContract
  Senders = {daoAddr, alice}
  Messages <- MCMessages
  Unit = 4
  Tokens <- MCTokens
  Stakings <- MCStakings
  Vestings <- MCVestings
INVARIANTS
  ContractsAgree
  ThresholdReachable
  RefusedForReason
PROPERTIES
  SetupIsAtomic
CHECK_DEADLOCK FALSE
