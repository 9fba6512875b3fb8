---------------------------- MODULE MCTransfers ----------------------------
(***************************************************************************)
(* Small instances of Transfers: alice asks for r1 and r2 and cannot pay   *)
(* for both.                                                               *)
(***************************************************************************)
EXTENDS Transfers, TLC

CONSTANTS alice, bob, r1, r2, k1, k2

MCOpening == (alice :> 2) @@ (bob :> 0)
MCSender == [r \in Requests |-> alice]
MCRecipient == [r \in Requests |-> bob]
MCAmount == [r \in Requests |-> IF r = r1 THEN 1 ELSE 2]
MCKey == [r \in Requests |-> IF r = r1 THEN k1 ELSE k2]
=============================================================================
