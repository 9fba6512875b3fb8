------------------------------ MODULE MCCards ------------------------------
(***************************************************************************)
(* Small instances of Cards: one cardholder, who can pay for one of the    *)
(* two authorizations only; the first earns cashback.                      *)
(***************************************************************************)
EXTENDS Cards, TLC

CONSTANTS alice, aliceUsdc, holds, clearing, pool, k1, k2

MCAccounts == {alice, aliceUsdc, holds, clearing, pool}
MCOpening == [a \in MCAccounts |-> IF a = alice THEN 2 ELSE 0]
MCUsdc == [u \in Users |-> aliceUsdc]
MCHolder == [k \in Keys |-> alice]
MCAmount == [k \in Keys |-> IF k = k1 THEN 1 ELSE 2]
MCCashback == [k \in Keys |-> IF k = k1 THEN 1 ELSE 0]
=============================================================================
