\* USD: two payers race for one intent, two requests at once.
SPECIFICATION PaySpec
CONSTANTS
  alice = alice
  bob = bob
  shop = shop
  pot = pot
  i1 = i1
  i2 = i2
  None = None
  Users = {alice, bob, shop}
  Accounts <- MCAccounts
  Opening <- MCOpening
  Keys = {i1}
  Amount <- MCAmount
  Owner <- MCOwner
  Suspects = {alice}
  EscrowAcct = pot
  Slots = {s1, s2}
  OnChain = {}
  MaxLegs = 2
SYMMETRY Symmetry
INVARIANTS
  PaidIntentBacked
  CashExplained
  EventsNeverAhead
PROPERTY StatusFollowsDiagram
