----------------------------- MODULE MCEscrow -----------------------------
(***************************************************************************)
(* A small instance of Escrow: two users who pay each other, one of them   *)
(* with cash for one of the two escrows only.                              *)
(***************************************************************************)
EXTENDS Escrow, TLC

CONSTANTS alice, bob, pot, k1, k2

MCUsers == {alice, bob}
MCAccounts == MCUsers \cup {pot}
MCOpening == (alice :> 2) @@ (bob :> 1) @@ (pot :> 0)
MCAmount == [k \in Keys |-> IF k = k1 THEN 1 ELSE 2]

Symmetry == Permutations(Slots)
=============================================================================
