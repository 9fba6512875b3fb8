\* Two requests at once on two authorizations.
SPECIFICATION FairCardsSpec
CONSTANTS
  alice = alice
  aliceUsdc = aliceUsdc
  holds = holds
  clearing = clearing
  pool = pool
  k1 = k1
  k2 = k2
  None = None
  Users = {alice}
  Accounts <- MCAccounts
  Opening <- MCOpening
  Usdc <- MCUsdc
  Holds = holds
  Clearing = clearing
  Pool = pool
  Keys = {k1, k2}
  Holder <- MCHolder
  Amount <- MCAmount
  Cashback <- MCCashback
  Slots = {s1, s2}
CHECK_DEADLOCK FALSE
INVARIANTS
  NoOverdraft
  StatusFollowsMoney
  CardholderWhole
PROPERTY CaptureCompletes
