----------------------------- MODULE Purchases -----------------------------
(***************************************************************************)
(* Sales of a seller's collectible in escrow, collectiblePurchaseService   *)
(* over the escrow layer: buy, ship, confirm, cancel, dispute, and the     *)
(* sync after an administrator resolves the escrow, for one asset.         *)
(*                                                                         *)
(* The keys of Escrow are the purchases' idempotency keys: the hold's key  *)
(* is collectible:purchase:<key>.  A purchase request uses its slot for    *)
(* its calls into escrowService; deal[s] is what the purchase code around  *)
(* them is doing.  A purchase's status is read first and written last, in  *)
(* statements that test nothing.                                           *)
(***************************************************************************)
EXTENDS Escrow

CONSTANTS
  Buyer,     \* Buyer[k]: the user whose client chose the key k
  Seller,
  Treasury,  \* the asset's treasury account; it holds the units on sale
  Asset      \* Asset[u]: the account of u in the asset

ASSUME PurchaseAssumption ==
  /\ Seller \in Users
  /\ Buyer \in [Keys -> Users \ {Seller}]
  /\ Asset \in [Users -> Accounts]
  /\ Treasury \in Accounts
  /\ ({Treasury} \cup {Asset[u] : u \in Users}) \cap (Users \cup {EscrowAcct}) = {}
  /\ \A u \in Users : Asset[u] # Treasury
  /\ Opening[Treasury] >= 0

VARIABLES
  purchase,  \* purchase[k]: status of the row in collectible_purchases, or "none"
  listing,   \* status of the asset's current row in listings
  deal       \* deal[s]: the purchase operation that slot s is executing

purchaseVars == <<escrowVars, purchase, listing, deal>>

OpenStatuses == {"escrow_held", "shipped", "disputed"}
Ended == {"completed", "refunded"}
Resolutions == {"resolve_release", "resolve_refund"}
Listings == {"soft", "public", "paused", "delisted"}

NoDeal == [pc |-> "idle", op |-> "none", key |-> None, public |-> FALSE]

PurchaseCalls ==
  [pc : {"idle", "open", "hold", "insert", "pause", "dispute", "call", "settled",
         "sync", "deliver", "write", "list", "answer"},
   op : {"none", "buy", "ship", "confirm", "cancel", "dispute", "release", "refund"}
        \cup Resolutions,
   key : Keys \cup {None}, public : BOOLEAN]

DealAt(s, pc) == deal[s].pc = pc
NoDealAt(s) == DealAt(s, "idle") /\ At(s, "idle")
BeginDeal(s, pc, op, k) ==
  deal' = [deal EXCEPT ![s] = [pc |-> pc, op |-> op, key |-> k, public |-> listing = "public"]]
DealGoes(s, pc) == deal' = [deal EXCEPT ![s].pc = pc]
EndDeal(s) == deal' = [deal EXCEPT ![s] = NoDeal]

(* What an operation asks of escrowService, and the status it then writes. *)
EscrowOp(op) ==
  CASE op = "confirm" -> "release" [] op = "cancel" -> "refund" [] OTHER -> op

NewStatus(op) ==
  CASE op = "ship" -> "shipped"
    [] op = "dispute" -> "disputed"
    [] op \in {"confirm", "resolve_release"} -> "completed"
    [] op \in {"cancel", "resolve_refund"} -> "refunded"

DeliveryKey(op, k) == <<IF op = "confirm" THEN "deliver" ELSE "deliver:dispute", k>>
Delivered(k) == Posted(DeliveryKey("confirm", k)) \/ Posted(DeliveryKey("resolve_release", k))

PurchaseTypeOK ==
  /\ purchase \in [Keys -> OpenStatuses \cup Ended \cup {"none"}]
  /\ listing \in Listings
  /\ deal \in [Slots -> PurchaseCalls]

PurchasesInit ==
  /\ EscrowInit
  /\ purchase = [k \in Keys |-> "none"]
  /\ listing \in {"soft", "public"}
  /\ deal = [s \in Slots |-> NoDeal]

-----------------------------------------------------------------------------
(* purchaseListing *)

(* No row with the key, and a listing that is open to trade.               *)
Buy(s, k) ==
  /\ NoDealAt(s)
  /\ purchase[k] = "none"
  /\ listing \in {"soft", "public"}
  /\ BeginDeal(s, "open", "buy", k)
  /\ UNCHANGED <<escrowVars, purchase, listing>>

(* An open purchase of the asset is CONFLICT.                              *)
BuyCheck(s) ==
  /\ DealAt(s, "open")
  /\ IF \E k \in Keys : purchase[k] \in OpenStatuses THEN EndDeal(s) ELSE DealGoes(s, "hold")
  /\ UNCHANGED <<escrowVars, purchase, listing>>

BuyHold(s) ==
  LET k == deal[s].key IN
  /\ DealAt(s, "hold")
  /\ HoldCall(s, Buyer[k], Seller, k)
  /\ DealGoes(s, "insert")
  /\ UNCHANGED <<purchase, listing>>

(* The row; one with the key violates the constraint.  A listing that was  *)
(* public when it was read is paused next.                                 *)
BuyInsert(s) ==
  LET k == deal[s].key IN
  /\ DealAt(s, "insert") /\ At(s, "returned")
  /\ Respond(s)
  /\ \/ /\ purchase[k] = "none"
        /\ purchase' = [purchase EXCEPT ![k] = "escrow_held"]
        /\ IF deal[s].public THEN DealGoes(s, "pause") ELSE EndDeal(s)
     \/ /\ purchase[k] # "none"
        /\ EndDeal(s)
        /\ UNCHANGED purchase
  /\ UNCHANGED listing

BuyPause(s) ==
  /\ DealAt(s, "pause")
  /\ listing' = IF listing \in {"soft", "public"} THEN "paused" ELSE listing
  /\ EndDeal(s)
  /\ UNCHANGED <<escrowVars, purchase>>

-----------------------------------------------------------------------------
(* The other operations read the purchase's status first. *)

Ship(s, k) ==
  /\ NoDealAt(s)
  /\ purchase[k] = "escrow_held"
  /\ BeginDeal(s, "write", "ship", k)
  /\ UNCHANGED <<escrowVars, purchase, listing>>

(* Faulty: a purchase whose escrow is settled is refused.                  *)
ConfirmHeld(s, k) ==
  /\ NoDealAt(s)
  /\ purchase[k] = "shipped" /\ escrow[k].status = "held"
  /\ BeginDeal(s, "call", "confirm", k)
  /\ UNCHANGED <<escrowVars, purchase, listing>>

Confirm(s, k) ==
  /\ NoDealAt(s)
  /\ purchase[k] = "shipped"
  /\ BeginDeal(s, "call", "confirm", k)
  /\ UNCHANGED <<escrowVars, purchase, listing>>

(* Faulty: a seller may cancel although the goods are on their way, and    *)
(* the escrow's answer is not awaited.                                     *)
CancelAtOnce(s, k) ==
  /\ NoDealAt(s)
  /\ purchase[k] \in {"escrow_held", "shipped"}
  /\ BeginDeal(s, "write", "cancel", k)
  /\ UNCHANGED <<escrowVars, purchase, listing>>

CancelPurchase(s, k) ==
  /\ NoDealAt(s)
  /\ purchase[k] = "escrow_held"
  /\ BeginDeal(s, "call", "cancel", k)
  /\ UNCHANGED <<escrowVars, purchase, listing>>

Dispute(s, k) ==
  /\ NoDealAt(s)
  /\ purchase[k] \in {"escrow_held", "shipped"}
  /\ BeginDeal(s, "dispute", "dispute", k)
  /\ UNCHANGED <<escrowVars, purchase, listing>>

(* openDispute: held becomes disputed, disputed stays, else CONFLICT.      *)
DisputeEscrow(s) ==
  LET k == deal[s].key IN
  /\ DealAt(s, "dispute")
  /\ \/ OpenDispute(k) /\ DealGoes(s, "write")
     \/ escrow[k].status = "disputed" /\ UNCHANGED escrowVars /\ DealGoes(s, "write")
     \/ escrow[k].status \notin Open /\ UNCHANGED escrowVars /\ EndDeal(s)
  /\ UNCHANGED <<purchase, listing>>

(* The administrator's resolution goes to the escrow, then to the sync.    *)
Resolve(s, op, k) ==
  /\ NoDealAt(s)
  /\ op \in Resolutions
  /\ SettleCall(s, op, k)
  /\ BeginDeal(s, "settled", op, k)
  /\ UNCHANGED <<purchase, listing>>

(* /api/escrow/:id/release and /refund refuse an escrow whose purchase has *)
(* not ended; /api/escrow/:id/dispute does not ask.                        *)
GuardedRoute(s, op, k) ==
  /\ NoDealAt(s)
  /\ Exists(k)
  /\ purchase[k] \notin OpenStatuses
  /\ BeginDeal(s, "call", op, k)
  /\ UNCHANGED <<escrowVars, purchase, listing>>

UnguardedDispute(k) ==
  /\ OpenDispute(k)
  /\ UNCHANGED <<purchase, listing, deal>>

-----------------------------------------------------------------------------
(* release() or refund() of escrowService: CONFLICT, or the call is made.  *)
CallSettle(s) ==
  LET k == deal[s].key  op == EscrowOp(deal[s].op) IN
  /\ DealAt(s, "call")
  /\ \/ SettleCall(s, op, k) /\ DealGoes(s, "settled")
     \/ /\ escrow[k].status \notin {TerminalOf(op), FromStatus(op)}
        /\ EndDeal(s)
        /\ UNCHANGED escrowVars
  /\ UNCHANGED <<purchase, listing>>

DealSettledEarly(s) ==  \* faulty: the settlement is not awaited
  /\ DealAt(s, "settled")
  /\ req' = [req EXCEPT ![s] = Idle]
  /\ CASE deal[s].op = "confirm" -> DealGoes(s, "deliver")
       [] deal[s].op = "cancel" -> DealGoes(s, "write")
       [] deal[s].op \in Resolutions -> DealGoes(s, "sync")
       [] OTHER -> EndDeal(s)
  /\ UNCHANGED <<journals, bal, escrow, log, chainIn, chainOut, purchase, listing>>

DealSettled(s) ==
  /\ DealAt(s, "settled") /\ At(s, "returned")
  /\ Respond(s)
  /\ CASE deal[s].op = "confirm" -> DealGoes(s, "deliver")
       [] deal[s].op = "cancel" -> DealGoes(s, "write")
       [] deal[s].op \in Resolutions -> DealGoes(s, "sync")
       [] OTHER -> EndDeal(s)
  /\ UNCHANGED <<purchase, listing>>

(* syncFromEscrowResolution: only a disputed purchase is brought along.    *)
Sync(s) ==
  LET k == deal[s].key IN
  /\ DealAt(s, "sync")
  /\ \/ purchase[k] # "disputed" /\ DealGoes(s, "answer")
     \/ purchase[k] = "disputed" /\ DealGoes(s, IF deal[s].op = "resolve_release" THEN "deliver" ELSE "write")
  /\ UNCHANGED <<escrowVars, purchase, listing>>

(* Faulty: the units left are not counted.                                 *)
DeliverUncounted(s) ==
  LET k == deal[s].key IN
  /\ DealAt(s, "deliver")
  /\ PostJournal(DeliveryKey(deal[s].op, k), Move(Treasury, Asset[Buyer[k]], 1))
  /\ DealGoes(s, "write")
  /\ UNCHANGED <<escrow, log, chainIn, chainOut, req, purchase, listing>>

(* deliverFromTreasury, one transaction; no unit left is CONFLICT.         *)
Deliver(s) ==
  LET k == deal[s].key  key == DeliveryKey(deal[s].op, k) IN
  /\ DealAt(s, "deliver")
  /\ IF Posted(key) \/ bal[Treasury] >= 1
       THEN PostJournal(key, Move(Treasury, Asset[Buyer[k]], 1)) /\ DealGoes(s, "write")
       ELSE EndDeal(s) /\ UNCHANGED <<journals, bal>>
  /\ UNCHANGED <<escrow, log, chainIn, chainOut, req, purchase, listing>>

(* UPDATE collectible_purchases SET status = ... WHERE id = ?              *)
Write(s) ==
  /\ DealAt(s, "write")
  /\ purchase' = [purchase EXCEPT ![deal[s].key] = NewStatus(deal[s].op)]
  /\ IF NewStatus(deal[s].op) \in Ended THEN DealGoes(s, "list") ELSE EndDeal(s)
  /\ UNCHANGED <<escrowVars, listing>>

(* A completed sale delists, a refunded one returns a paused listing.      *)
Relist(s) ==
  /\ DealAt(s, "list")
  /\ listing' = IF NewStatus(deal[s].op) = "completed" THEN "delisted"
                ELSE IF listing = "paused" THEN "public" ELSE listing
  /\ IF deal[s].op \in Resolutions THEN DealGoes(s, "answer") ELSE EndDeal(s)
  /\ UNCHANGED <<escrowVars, purchase>>

Answer(s) ==
  /\ DealAt(s, "answer")
  /\ EndDeal(s)
  /\ UNCHANGED <<escrowVars, purchase, listing>>

-----------------------------------------------------------------------------
(* The escrow service runs; its error ends the operation that called it.   *)
EscrowServes(s) ==
  /\ EscrowStep(s)
  /\ deal' = IF req'[s] = Idle THEN [deal EXCEPT ![s] = NoDeal] ELSE deal
  /\ UNCHANGED <<purchase, listing>>

PurchaseFail(s) ==
  /\ ~NoDealAt(s)
  /\ Leave(s)
  /\ EndDeal(s)
  /\ UNCHANGED <<journals, bal, escrow, log, chainIn, chainOut, purchase, listing>>

Serve(s) ==
  \/ BuyCheck(s) \/ BuyHold(s) \/ BuyInsert(s) \/ BuyPause(s)
  \/ DisputeEscrow(s) \/ CallSettle(s) \/ DealSettled(s)
  \/ Sync(s) \/ Deliver(s) \/ Write(s) \/ Relist(s) \/ Answer(s)
  \/ EscrowServes(s)

PurchasesNext ==
  \/ \E s \in Slots, k \in Keys :
       \/ Buy(s, k) \/ Ship(s, k) \/ Confirm(s, k) \/ CancelPurchase(s, k) \/ Dispute(s, k)
       \/ \E op \in Resolutions : Resolve(s, op, k)
       \/ \E op \in {"release", "refund"} : GuardedRoute(s, op, k)
  \/ \E k \in Keys : UnguardedDispute(k)
  \/ \E s \in Slots : Serve(s) \/ PurchaseFail(s)

PurchasesSpec == PurchasesInit /\ [][PurchasesNext]_purchaseVars

(* Fairness: the event loop serves what it has taken, a buyer whose        *)
(* receipt was not confirmed confirms again, and in the end confirmations  *)
(* stop dying.                                                             *)
ConfirmsAgain(k) == \E s \in Slots : Confirm(s, k)

ConfirmDies(s) ==
  /\ deal[s].op = "confirm" /\ deal[s].pc \in {"call", "settled", "deliver"}
  /\ escrow[deal[s].key].status = "released"
  /\ ~Delivered(deal[s].key)
  /\ deal'[s] = NoDeal
  /\ bal[Treasury] >= 1

FairPurchasesSpec ==
  /\ PurchasesSpec
  /\ \A s \in Slots : WF_purchaseVars(Serve(s))
  /\ \A k \in Keys : SF_purchaseVars(ConfirmsAgain(k))
  /\ <>[][\A s \in Slots : ~ConfirmDies(s)]_purchaseVars

-----------------------------------------------------------------------------
(* Correctness *)

(* The asset goes to a buyer only after the escrow has paid the seller,    *)
(* whether by confirmation or by resolution                                *)
(* (collectiblePurchaseService.ts:8, 236-237, 323-324).                    *)
DeliveryFollowsPayment == \A k \in Keys : Delivered(k) => escrow[k].status = "released"

(* However operations overwrite each other's status, one that ended the    *)
(* purchase tells what became of the money and the asset                   *)
(* (collectiblePurchaseService.ts:239-243, 270-276).                       *)
StatusFollowsEscrow ==
  \A k \in Keys :
    /\ purchase[k] # "none" => Exists(k)
    /\ purchase[k] = "completed" => Delivered(k)
    /\ purchase[k] = "refunded" => escrow[k].status = "refunded"

(* A unit is delivered once although confirmation and resolution deliver   *)
(* under different keys (collectiblePurchaseService.ts:237, 324).          *)
UnitDeliveredOnce == bal[Treasury] >= 0

(* A buyer whose payment was released and whose goods are on their way     *)
(* gets the asset by confirming again, whatever died in between, unless a  *)
(* dispute is recorded meanwhile, or the unit went to another sale: two    *)
(* buyers may pass the check for an open purchase side by side (:165), and *)
(* who confirms second has paid and is refused for ever                    *)
(* (collectiblePurchaseService.ts:228-237, marketplaceService.ts:529).     *)
ReleasedIsDelivered ==
  \A k \in Keys :
    escrow[k].status = "released" /\ purchase[k] = "shipped"
      ~> \/ Delivered(k)
         \/ purchase[k] = "disputed"
         \/ \E j \in Keys \ {k} : Delivered(j)

(* "After admin escrow resolution - deliver asset or relist"               *)
(* (collectiblePurchaseService.ts:315): a resolution in the seller's       *)
(* favour that is answered has delivered the asset that was paid for.      *)
ResolutionDelivers ==
  \A s \in Slots :
    DealAt(s, "answer") /\ deal[s].op = "resolve_release" /\ purchase[deal[s].key] # "none"
      => Delivered(deal[s].key)

(* The strengthening that makes the invariants above inductive: what a     *)
(* purchase operation knows of the escrow at each of its steps.            *)
Settlers == {"confirm", "cancel", "release", "refund"}

PurchaseFits(c, q) ==
  /\ c.pc # "idle" => c.key \in Keys
  /\ IF c.pc \in {"insert", "settled"} THEN q.pc # "idle" /\ q.key = c.key ELSE q = Idle
  /\ c.pc = "insert" => q.op = "hold"
  /\ c.pc = "call" => c.op \in Settlers
  /\ c.pc = "settled" => c.op \in Settlers \cup Resolutions /\ q.op = EscrowOp(c.op)
  /\ q.pc = "returned" =>
       IF q.op = "hold" THEN Exists(q.key) ELSE escrow[q.key].status = TerminalOf(q.op)
  /\ c.pc = "dispute" => c.op = "dispute"
  /\ c.pc = "sync" => c.op \in Resolutions /\ escrow[c.key].status = TerminalOf(c.op)
  /\ c.pc = "deliver" =>
       c.op \in {"confirm", "resolve_release"} /\ escrow[c.key].status = "released"
  /\ c.pc = "write" =>
       /\ Exists(c.key)
       /\ c.op \in {"ship", "dispute", "confirm", "cancel"} \cup Resolutions
       /\ c.op \in {"confirm", "resolve_release"} => Delivered(c.key)
       /\ c.op \in {"cancel", "resolve_refund"} => escrow[c.key].status = "refunded"

PurchasesInOrder == \A s \in Slots : PurchaseFits(deal[s], req[s])
=============================================================================
