\* Two payers and two escrows, one of them USDC on Hedera, two requests at once.
SPECIFICATION EscrowSpec
CONSTANTS
  alice = alice
  bob = bob
  pot = pot
  k1 = k1
  k2 = k2
  None = None
  Users <- MCUsers
  Accounts <- MCAccounts
  Opening <- MCOpening
  Keys = {k1, k2}
  Amount <- MCAmount
  EscrowAcct = pot
  Slots = {s1, s2}
  OnChain = {k1}
  MaxLegs = 2
SYMMETRY Symmetry
INVARIANTS
  PotBacksOpenEscrows
  NoOverdraft
  RowsMatchJournals
  EventLogTellsStatus
  LedgerFollowsChain
PROPERTY ImplementsPromise
