\* Does a release unfreeze the account?
SPECIFICATION HoldsSpec
CONSTANTS
  Users = {u1}
  Decisions = {d1, d2}
  HoldSlots = {s1}
  MaxPlaces = 3
  NoDecision = NoDecision
PROPERTY ReleaseUnfreezes
