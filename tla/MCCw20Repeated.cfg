SPECIFICATION Spec
CONSTANTS
  alice = alice
  bob = bob
  staking = staking
  nobody = nobody
  Address <- MCAddress
  Contract <- MCContract
  MaxUint = 3
  InitialBalances <- RepeatedBalances
  Amounts = {1, 2}
  Marketers = {alice}
  Expirations <- MCExpirations
  MaxTime = 1
  MaxGranted = 2
  Nobody = nobody
  Logos <- MCLogos
  LOGO_SIZE_CAP = 5
INVARIANTS
  SupplyIsHeld
