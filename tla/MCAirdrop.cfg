SPECIFICATION Spec
CONSTANTS
  alice = alice
  bob = bob
  nobody = nobody
  Address <- MCAddress
  NoOwner = nobody
  Lists <- MCLists
  Proofs <- MCProofs
  Amounts = {1, 2}
  Expirations <- MCExpirations
  Starts = {0, 1}
  MaxStage = 2
  FundAmounts = {1, 2}
  MaxFunds = 3
  MaxTime = 2
INVARIANTS
  ClaimedAsListed
  ClaimsAddUp
  ListedMayClaim
PROPERTIES
  StagesStay
CHECK_DEADLOCK FALSE
