SPECIFICATION FairSpec
CONSTANTS
  alice = alice
  bob = bob
  Address <- MCAddress
  Terms <- MCTerms
  MaxUint = 7
  InitHeight = 1
  MaxHeight = 5
  BlockTimes = {1, 2}
  FundAmounts = {5}
  MaxFunds = 5
INVARIANTS
  TypeOK
  ClaimedIsVested
  GrantPaidExactly
  ClaimedIsCounted
  TotalMatchesAccounts
PROPERTIES
  PastHeightsFrozen
  GrantLedgerSpec
  GrantEventuallyPaid
