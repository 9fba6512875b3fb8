\* Two transfers that alice cannot both pay, with retries and workflows.
SPECIFICATION FairTransfersSpec
CONSTANTS
  alice = alice
  bob = bob
  r1 = r1
  r2 = r2
  k1 = k1
  k2 = k2
  None = None
  Users = {alice, bob}
  Accounts = {alice, bob}
  Opening <- MCOpening
  Requests = {r1, r2}
  Keys = {k1, k2}
  Sender <- MCSender
  Recipient <- MCRecipient
  Amount <- MCAmount
  Key <- MCKey
  Slots = {s1}
  Workers = {w1}
  Temporal = TRUE
  MaxAttempts = 2
  MaxTries = 4
  Suspects = {alice}
INVARIANTS
  NoUserOverdrawn
  AnswersTellTruth
  HistoryExplainsCash
PROPERTY PostedIsConfirmed
