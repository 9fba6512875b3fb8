---------------------------- MODULE MCGoemonPay ----------------------------
(***************************************************************************)
(* Small instances of GoemonPay: a merchant, one or two payers, one or two *)
(* intents.                                                                *)
(***************************************************************************)
EXTENDS GoemonPay, TLC

CONSTANTS alice, bob, shop, pot, i1, i2

MCAccounts == Users \cup {pot}
MCOpening == [a \in MCAccounts |-> IF a \in {alice, bob} THEN 1 ELSE 0]
MCAmount == [i \in Keys |-> 1]
MCOwner == [i \in Keys |-> shop]

Symmetry == Permutations(Slots)
=============================================================================
