\* Does a resolution deliver the asset?
SPECIFICATION PurchasesSpec
CONSTANTS
  alice = alice
  bob = bob
  shop = shop
  pot = pot
  treasury = treasury
  aliceAsset = aliceAsset
  bobAsset = bobAsset
  shopAsset = shopAsset
  k1 = k1
  k2 = k2
  None = None
  Users = {alice, bob, shop}
  Accounts <- MCAccounts
  Opening <- MCOpening
  Keys = {k1}
  Amount <- MCAmount
  EscrowAcct = pot
  Slots = {s1}
  OnChain = {}
  MaxLegs = 0
  Buyer <- MCBuyer
  Seller = shop
  Treasury = treasury
  Asset <- MCAsset
INVARIANT ResolutionDelivers
