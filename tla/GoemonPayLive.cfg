\* Liveness: one payer, one intent, one request at a time.
SPECIFICATION FairPaySpec
CONSTANTS
  alice = alice
  bob = bob
  shop = shop
  pot = pot
  i1 = i1
  i2 = i2
  None = None
  Users = {alice, shop}
  Accounts <- MCAccounts
  Opening <- MCOpening
  Keys = {i1}
  Amount <- MCAmount
  Owner <- MCOwner
  Suspects = {alice}
  EscrowAcct = pot
  Slots = {s1}
  OnChain = {}
  MaxLegs = 2
PROPERTIES
  RetryHealsPayment
  HeldFundsResolvable
