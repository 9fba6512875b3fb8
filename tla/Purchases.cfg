\* Two buyers of one unit, two requests at once, the escrow routes open.
SPECIFICATION FairPurchasesSpec
CONSTANTS
  alice = alice
  bob = bob
  shop = shop
  pot = pot
  treasury = treasury
  aliceAsset = aliceAsset
  bobAsset = bobAsset
  shopAsset = shopAsset
  k1 = k1
  k2 = k2
  None = None
  Users = {alice, bob, shop}
  Accounts <- MCAccounts
  Opening <- MCOpening
  Keys = {k1, k2}
  Amount <- MCAmount
  EscrowAcct = pot
  Slots = {s1, s2}
  OnChain = {}
  MaxLegs = 0
  Buyer <- MCBuyer
  Seller = shop
  Treasury = treasury
  Asset <- MCAsset
INVARIANTS
  DeliveryFollowsPayment
  StatusFollowsEscrow
  UnitDeliveredOnce
CONSTRAINT TwoBuyersTrade
PROPERTY ReleasedIsDelivered
