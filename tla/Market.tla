------------------------------- MODULE Market -------------------------------
(***************************************************************************)
(* The primary market, backend/src/services/marketplaceService.ts, and the *)
(* redemption of tokenized equity, redemptionService.ts, for one asset and *)
(* the accounts of one holder.                                             *)
(*                                                                         *)
(* An order looks its key up, and is then one serializable transaction     *)
(* that reads the balances, posts the journal and inserts the row (UNIQUE  *)
(* idempotency_key).  A redemption reads the units held, waits for the     *)
(* issuer, and posts outside of any transaction.  Listing, eligibility and *)
(* activity of the asset only refuse: such calls are not made.             *)
(***************************************************************************)
EXTENDS Service, Functions


CONSTANTS
  MarketKeys,   \* idempotency keys
  MarketOp,     \* MarketOp[k]: the operation that is called with k
  MarketQty,    \* MarketQty[k]: qtyBase
  MarketGross,  \* MarketGross[k]: qtyBase * priceMinor
  MarketFee,    \* MarketFee[k]: the fee on it
  Subscriber, SubEscrow, MarketFees, Settlement,  \* accounts in cash
  Units, OtherUnits, Treasury                     \* accounts in the asset

ASSUME MarketAssumption ==
  /\ MarketOp \in [MarketKeys -> {"subscribe", "buy", "sell", "deliver", "transfer", "redeem"}]
  /\ MarketQty \in [MarketKeys -> Nat \ {0}]
  /\ \A k \in MarketKeys : MarketGross[k] \in Nat /\ MarketFee[k] \in 0..MarketGross[k]
  /\ {Subscriber, SubEscrow, MarketFees, Settlement, Units, OtherUnits, Treasury} \subseteq Accounts
  /\ IsFiniteSet(MarketKeys)
  /\ SubEscrow \notin {Subscriber, MarketFees, Settlement, Units, OtherUnits, Treasury}
  /\ Subscriber \notin {MarketFees, Settlement, Units, OtherUnits, Treasury}
  /\ Units \notin {MarketFees, Settlement, OtherUnits, Treasury}
  /\ Treasury \notin {MarketFees, Settlement, OtherUnits}
  /\ \A a \in {Subscriber, Units, Treasury} : Opening[a] >= 0

VARIABLES
  order,       \* order[k]: status of the row in orders, or "none"
  redemptions  \* redemptions[k]: rows in redemptions with k's journal

marketVars == <<journals, bal, call, order, redemptions>>

OrderStatuses == {"none", "open", "filled", "refunded"}

MarketInit ==
  /\ ServiceInit
  /\ order = [k \in MarketKeys |-> "none"]
  /\ redemptions = [k \in MarketKeys |-> 0]

(* priceTrade: the fee comes on top of a purchase and out of a sale.       *)
Net(k) == IF MarketOp[k] = "sell" THEN MarketGross[k] - MarketFee[k]
                                  ELSE MarketGross[k] + MarketFee[k]

Paying(from, k) ==
  Both(Move(from, Settlement, MarketGross[k]), Move(from, MarketFees, MarketFee[k]))

-----------------------------------------------------------------------------
(* subscribe and placeOrder: existingOrder, then the transaction.          *)
OrderCall(s, k) ==
  /\ MarketOp[k] \in {"subscribe", "buy", "sell"}
  /\ order[k] = "none"
  /\ Begin(s, MarketOp[k], "commit", k, None)
  /\ UNCHANGED <<journals, bal, order, redemptions>>

(* A row that is there by now violates the constraint.                     *)
Order(s, op, covered, effect, status) ==
  LET k == call[s].row IN
  /\ At(s, op, "commit")
  /\ IF covered /\ order[k] = "none"
       THEN /\ PostJournal(<<"order", k>>, effect)
            /\ order' = [order EXCEPT ![k] = status]
       ELSE UNCHANGED <<journals, bal, order>>
  /\ Leave(s)
  /\ UNCHANGED redemptions

Subscribe(s) ==
  LET k == call[s].row IN
  Order(s, "subscribe", bal[Subscriber] >= Net(k), Move(Subscriber, SubEscrow, Net(k)), "open")

Buy(s) ==
  LET k == call[s].row IN
  Order(s, "buy",
        bal[Subscriber] >= Net(k) /\ bal[Treasury] >= MarketQty[k],
        Both(Paying(Subscriber, k), Move(Treasury, Units, MarketQty[k])),
        "filled")

SellUnseen(s) ==  \* faulty: the units are counted before the transaction, not in it
  LET k == call[s].row IN
  Order(s, "sell", TRUE,
        Both(Both(Move(Settlement, Subscriber, Net(k)), Move(Settlement, MarketFees, MarketFee[k])),
             Move(Units, Treasury, MarketQty[k])),
        "filled")

Sell(s) ==
  LET k == call[s].row IN
  Order(s, "sell",
        bal[Units] >= MarketQty[k],
        Both(Both(Move(Settlement, Subscriber, Net(k)), Move(Settlement, MarketFees, MarketFee[k])),
             Move(Units, Treasury, MarketQty[k])),
        "filled")

-----------------------------------------------------------------------------
(* closeSubscription and refundSubscription: one transaction each, which   *)
(* reads the order's status in it (loadOpenSubscription).                  *)
OpenSubscription(k) == MarketOp[k] = "subscribe" /\ order[k] = "open"

CloseSubscription(k) ==
  /\ OpenSubscription(k)
  /\ bal[Treasury] >= MarketQty[k]
  /\ PostJournal(<<"sub-close", k>>,
       Both(Paying(SubEscrow, k), Move(Treasury, Units, MarketQty[k])))
  /\ order' = [order EXCEPT ![k] = "filled"]
  /\ UNCHANGED <<call, redemptions>>

RefundSubscription(k) ==
  /\ OpenSubscription(k)
  /\ PostJournal(<<"sub-refund", k>>, Move(SubEscrow, Subscriber, Net(k)))
  /\ order' = [order EXCEPT ![k] = "refunded"]
  /\ UNCHANGED <<call, redemptions>>

(* deliverFromTreasury and transferAsset: one transaction each, in which   *)
(* the key and the balance are read.                                       *)
UnitTransfer(k, op, from, to) ==
  /\ MarketOp[k] = op
  /\ ~Posted(<<op, k>>)
  /\ bal[from] >= MarketQty[k]
  /\ PostJournal(<<op, k>>, Move(from, to, MarketQty[k]))
  /\ UNCHANGED <<call, order, redemptions>>

DeliverFromTreasury(k) == UnitTransfer(k, "deliver", Treasury, Units)

TransferAsset(k) == UnitTransfer(k, "transfer", Units, OtherUnits)

-----------------------------------------------------------------------------
(* redeem: the journal with its row answers the call; the units held, the  *)
(* issuer's settlement, the journal, the row.                              *)
RedeemCall(s, k) ==
  /\ MarketOp[k] = "redeem"
  /\ ~(Posted(<<"redeem", k>>) /\ redemptions[k] > 0)
  /\ bal[Units] >= MarketQty[k]
  /\ Begin(s, "redeem", "post", k, None)
  /\ UNCHANGED <<journals, bal, order, redemptions>>

RedeemPost(s) ==
  LET k == call[s].row IN
  /\ At(s, "redeem", "post")
  /\ PostJournal(<<"redeem", k>>,
       Both(Move(Units, Treasury, MarketQty[k]), Move(Settlement, Subscriber, MarketGross[k])))
  /\ Goto(s, "insert")
  /\ UNCHANGED <<order, redemptions>>

RedeemInsert(s) ==
  /\ At(s, "redeem", "insert")
  /\ redemptions' = [redemptions EXCEPT ![call[s].row] = @ + 1]
  /\ Leave(s)
  /\ UNCHANGED <<journals, bal, order>>

-----------------------------------------------------------------------------
MarketNext ==
  \/ \E k \in MarketKeys :
       \/ CloseSubscription(k) \/ RefundSubscription(k)
       \/ DeliverFromTreasury(k) \/ TransferAsset(k)
  \/ \E s \in Slots :
       \/ \E k \in MarketKeys : OrderCall(s, k) \/ RedeemCall(s, k)
       \/ Subscribe(s) \/ Buy(s) \/ Sell(s) \/ RedeemPost(s) \/ RedeemInsert(s)
       \/ Dies(s) /\ UNCHANGED <<order, redemptions>>

MarketSpec == MarketInit /\ [][MarketNext]_marketVars

-----------------------------------------------------------------------------
(* Correctness *)

(* Subscriptions that are closed and refunded at the same time by two      *)
(* administrators, among orders that race for the cash and the stock: the  *)
(* escrow holds the price of the open subscriptions and nothing else, and  *)
(* no cash or stock is spent twice (marketplaceService.ts:259, 321, 387,   *)
(* 436-438).                                                               *)
SubscriptionsInEscrow ==
  /\ bal[SubEscrow] =
       Opening[SubEscrow] + SumFunctionOnSet([k \in MarketKeys |-> Net(k)], {k \in MarketKeys : OpenSubscription(k)})
  /\ bal[Subscriber] >= 0
  /\ bal[Treasury] >= 0

(* Units are read inside the transaction by sales and transfers but not by *)
(* redemptions: a holder's units run short by no more than was redeemed,   *)
(* and a redemption on the books has burnt its units                       *)
(* (marketplaceService.ts:449, 585, redemptionService.ts:86, 104-124).     *)
RedeemedUnits ==
  SumFunctionOnSet(MarketQty, {k \in MarketKeys : Posted(<<"redeem", k>>)})

UnitsShortByRedemptions ==
  /\ bal[Units] + RedeemedUnits >= 0
  /\ \A k \in MarketKeys : redemptions[k] > 0 => Posted(<<"redeem", k>>)
=============================================================================
