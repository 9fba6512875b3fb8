---------------------------- MODULE MCPurchases ----------------------------
(***************************************************************************)
(* Small instances of Purchases: one collectible, a seller and one buyer   *)
(* or two.                                                                 *)
(***************************************************************************)
EXTENDS Purchases, TLC

CONSTANTS alice, bob, shop, pot, treasury, aliceAsset, bobAsset, shopAsset, k1, k2

MCAccounts == {alice, bob, shop, pot, treasury, aliceAsset, bobAsset, shopAsset}
MCOpening == [a \in MCAccounts |-> IF a \in {alice, bob, treasury} THEN 1 ELSE 0]
MCAmount == [k \in Keys |-> 1]
MCBuyer == [k \in Keys |-> IF k = k1 THEN alice ELSE bob]
MCAsset == [u \in Users |->
              IF u = alice THEN aliceAsset ELSE IF u = bob THEN bobAsset ELSE shopAsset]

(* Bound: once the second buyer is there the search does not go on from a  *)
(* dispute, a resolution or a settlement by the escrow's own routes.       *)
TwoBuyersTrade ==
  Exists(k2) \/ (\E s \in Slots : deal[s].key = k2) =>
    /\ \A k \in Keys : escrow[k].status # "disputed" /\ purchase[k] # "disputed"
    /\ \A s \in Slots : deal[s].op \in {"none", "buy", "ship", "confirm", "cancel"}
=============================================================================
