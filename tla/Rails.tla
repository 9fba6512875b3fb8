------------------------------- MODULE Rails -------------------------------
(***************************************************************************)
(* The ways in and out of the ledger, on one cash account: on-ramp and     *)
(* off-ramp orders (onRampService.ts, offRampService.ts), and deposits,    *)
(* payouts and their returns over the partner bank (bankRailService.ts).   *)
(*                                                                         *)
(* Money comes in by a provider's order, a journal and rows in statements  *)
(* of their own.  It goes out in one transaction that calls the provider   *)
(* in the middle.  A row is identified by its idempotency_key (UNIQUE).    *)
(* Gates that only refuse (switches, freeze, screening) are calls not made.*)
(***************************************************************************)
EXTENDS Service, Functions


CONSTANTS
  RailKeys,
  RailOf,      \* RailOf[k]: "onramp", "offramp", "deposit" or "payout"
  RailAmount,  \* RailAmount[k]: the amount debited or credited
  RailFee,     \* RailFee[k]: what the platform keeps of it
  OrderIds,    \* uuids of on-ramp orders
  MaxOrders,   \* bound: MaxOrders[k] orders that a provider gets for k
  RailCash, Clearing, Fees  \* user_cash, the counterparty's account, fee

ASSUME RailsAssumption ==
  /\ RailOf \in [RailKeys -> {"onramp", "offramp", "deposit", "payout"}]
  /\ RailAmount \in [RailKeys -> Nat \ {0}]
  /\ \A k \in RailKeys : RailFee[k] \in 0..(RailAmount[k] - 1)
  /\ {RailCash, Clearing, Fees} \subseteq Accounts
  /\ Opening[RailCash] >= 0
  /\ IsFiniteSet(RailKeys) /\ RailCash \notin {Clearing, Fees}

VARIABLES
  rail,     \* rail[k]: the row of onramp_orders, offramp_orders or bank_transfers
  history,  \* history[k]: rows of k in transactions
  orders    \* orders[k]: orders that the provider has accepted for k

railVars == <<journals, bal, call, rail, history, orders>>

RailStatuses == {"none", "pending", "completed", "requested", "settled", "returned"}

RailRow(status, id) == [status |-> status, id |-> id]

RailsInit ==
  /\ ServiceInit
  /\ rail = [k \in RailKeys |-> RailRow("none", None)]
  /\ history = [k \in RailKeys |-> 0]
  /\ orders = [k \in RailKeys |-> 0]

Incoming(k) == RailOf[k] \in {"onramp", "deposit"}
OverBank(k) == RailOf[k] \in {"deposit", "payout"}

(* The key of the money journal: an on-ramp delivery has its order's id,   *)
(* the others have the caller's key.                                       *)
MoneyKey(k, id) == IF RailOf[k] = "onramp" THEN <<"onramp", k, id>> ELSE <<RailOf[k], k>>

MoneyIn(k) == Both(Move(Clearing, RailCash, RailAmount[k] - RailFee[k]),
                   Move(Clearing, Fees, RailFee[k]))

MoneyOut(k) == Both(Move(RailCash, Clearing, RailAmount[k] - RailFee[k]),
                    Move(RailCash, Fees, RailFee[k]))

(* What the provider says at once: done, or later by a webhook.            *)
DoneStatus(k) == IF OverBank(k) THEN "settled" ELSE "completed"
LaterStatus(k) == IF OverBank(k) THEN "requested" ELSE "pending"

-----------------------------------------------------------------------------
(* createOrder, deposit, withdraw: a row with the key answers the call.    *)
RailCall(s, k) ==
  /\ rail[k].status = "none"
  /\ Begin(s, "rail", "provider", k, None)
  /\ UNCHANGED <<journals, bal, rail, history, orders>>

(* Money in: the provider takes the order.  An on-ramp order gets a fresh  *)
(* uuid, and is delivered now only when the provider has delivered.        *)
ProviderIn(s) ==
  LET k == call[s].row IN
  /\ At(s, "rail", "provider") /\ Incoming(k) /\ orders[k] < MaxOrders[k]
  /\ orders' = [orders EXCEPT ![k] = @ + 1]
  /\ \E done \in BOOLEAN, id \in OrderIds :
       /\ \A t \in Slots : ~(call[t].saw # None /\ call[t].saw.id = id)
       /\ \A j \in RailKeys : rail[j].id # id /\ ~Posted(<<"onramp", j, id>>)
       /\ call' = [call EXCEPT
            ![s].at = IF done \/ OverBank(k) THEN "credit" ELSE "insert",
            ![s].saw = RailRow(IF done THEN DoneStatus(k) ELSE LaterStatus(k), id)]
  /\ UNCHANGED <<journals, bal, rail, history>>

CreditIn(s) ==
  LET k == call[s].row IN
  /\ At(s, "rail", "credit")
  /\ PostJournal(MoneyKey(k, call[s].saw.id), MoneyIn(k))
  /\ Goto(s, "insert")
  /\ UNCHANGED <<rail, history, orders>>

(* The row; a second one with the key violates the constraint.  record()   *)
(* writes the row of the bank transfer and then one in transactions.       *)
InsertIn(s) ==
  LET k == call[s].row IN
  /\ At(s, "rail", "insert")
  /\ IF rail[k].status = "none"
       THEN /\ rail' = [rail EXCEPT ![k] = call[s].saw]
            /\ IF OverBank(k) THEN Goto(s, "record") ELSE Leave(s)
       ELSE UNCHANGED rail /\ Leave(s)
  /\ UNCHANGED <<journals, bal, history, orders>>

RecordIn(s) ==
  /\ At(s, "rail", "record")
  /\ history' = [history EXCEPT ![call[s].row] = @ + 1]
  /\ Leave(s)
  /\ UNCHANGED <<journals, bal, rail, orders>>

-----------------------------------------------------------------------------
(* Money out: inside the transaction the balance is read and the provider  *)
(* pays, before it is known that the transaction commits.                  *)
ProviderOut(s) ==
  LET k == call[s].row IN
  /\ At(s, "rail", "provider") /\ ~Incoming(k) /\ orders[k] < MaxOrders[k]
  /\ bal[RailCash] >= RailAmount[k]
  /\ orders' = [orders EXCEPT ![k] = @ + 1]
  /\ \E done \in BOOLEAN :
       call' = [call EXCEPT ![s].at = "commit",
                            ![s].saw = RailRow(IF done THEN DoneStatus(k) ELSE LaterStatus(k), k)]
  /\ UNCHANGED <<journals, bal, rail, history>>

DebitOut(s, k) ==
  /\ PostJournal(<<RailOf[k], k>>, MoneyOut(k))
  /\ rail' = [rail EXCEPT ![k] = call[s].saw]
  /\ history' = [history EXCEPT ![k] = @ + (IF OverBank(k) THEN 1 ELSE 0)]

CommitOutStale(s) ==  \* faulty: the balance read before the provider's answer is trusted
  LET k == call[s].row IN
  /\ At(s, "rail", "commit")
  /\ IF rail[k].status = "none" THEN DebitOut(s, k) ELSE UNCHANGED <<journals, bal, rail, history>>
  /\ Leave(s)
  /\ UNCHANGED orders

(* The commit; serializable, so that the balance still covers the amount.  *)
CommitOut(s) ==
  LET k == call[s].row IN
  /\ At(s, "rail", "commit")
  /\ IF rail[k].status = "none" /\ bal[RailCash] >= RailAmount[k]
       THEN DebitOut(s, k)
       ELSE UNCHANGED <<journals, bal, rail, history>>
  /\ Leave(s)
  /\ UNCHANGED orders

-----------------------------------------------------------------------------
(* completeOrder, the provider's webhook: any number of times.             *)
WebhookCall(s, k) ==
  /\ rail[k].status = "pending"
  /\ Begin(s, "webhook", IF Incoming(k) THEN "credit" ELSE "mark", k, rail[k])
  /\ UNCHANGED <<journals, bal, rail, history, orders>>

DeliveryKey(k, s) == MoneyKey(k, call[s].saw.id)

WebhookCredit(s) ==
  LET k == call[s].row IN
  /\ At(s, "webhook", "credit")
  /\ PostJournal(DeliveryKey(k, s), MoneyIn(k))
  /\ Goto(s, "mark")
  /\ UNCHANGED <<rail, history, orders>>

WebhookMark(s) ==
  /\ At(s, "webhook", "mark")
  /\ rail' = [rail EXCEPT ![call[s].row].status = "completed"]
  /\ Leave(s)
  /\ UNCHANGED <<journals, bal, history, orders>>

-----------------------------------------------------------------------------
(* returnTransfer: an administrator reverses a settled bank transfer.      *)
ReturnCall(s, k) ==
  /\ OverBank(k) /\ rail[k].status = "settled"
  /\ Begin(s, "return", "post", k, None)
  /\ UNCHANGED <<journals, bal, rail, history, orders>>

Reversal(k) ==
  IF RailOf[k] = "deposit" THEN Move(RailCash, Clearing, RailAmount[k])
                           ELSE Move(Clearing, RailCash, RailAmount[k])

ReturnPost(s) ==
  LET k == call[s].row IN
  /\ At(s, "return", "post")
  /\ PostJournal(<<"return", k>>, Reversal(k))
  /\ Goto(s, "mark")
  /\ UNCHANGED <<rail, history, orders>>

ReturnMark(s) ==
  /\ At(s, "return", "mark")
  /\ rail' = [rail EXCEPT ![call[s].row].status = "returned"]
  /\ Leave(s)
  /\ UNCHANGED <<journals, bal, history, orders>>

-----------------------------------------------------------------------------
RailsNext ==
  \E s \in Slots :
    \/ \E k \in RailKeys : RailCall(s, k) \/ WebhookCall(s, k) \/ ReturnCall(s, k)
    \/ ProviderIn(s) \/ CreditIn(s) \/ InsertIn(s) \/ RecordIn(s)
    \/ ProviderOut(s) \/ CommitOut(s)
    \/ WebhookCredit(s) \/ WebhookMark(s) \/ ReturnPost(s) \/ ReturnMark(s)
    \/ Dies(s) /\ UNCHANGED <<rail, history, orders>>

RailsSpec == RailsInit /\ [][RailsNext]_railVars

-----------------------------------------------------------------------------
(* Correctness *)

(* The money journals of a key.                                            *)
MoneyPosted(k) == {j \in DOMAIN journals : j[1] = RailOf[k] /\ j[2] = k}

(* Webhooks, retries and deaths in any order: the ledger credits or debits *)
(* a key at most as often as the provider has taken money in or paid it    *)
(* out, and a reversal reverses something                                  *)
(* (onRampService.ts:170, 228, bankRailService.ts:118-128, 201).           *)
LedgerFollowsProvider ==
  \A k \in RailKeys :
    /\ Cardinality(MoneyPosted(k)) <= orders[k]
    /\ Posted(<<"return", k>>) => MoneyPosted(k) # {}

(* A row that says completed, settled or requested has its journal, one    *)
(* that says returned has both, and the history has no entry but for a     *)
(* row (bankRailService.ts:201-202, 255-264, onRampService.ts:201, 228).   *)
RailRowsBacked ==
  \A k \in RailKeys :
    /\ rail[k].status \in {"completed", "settled", "requested", "returned"} =>
         Posted(MoneyKey(k, rail[k].id))
    /\ rail[k].status = "returned" => Posted(<<"return", k>>)
    /\ history[k] <= (IF rail[k].status = "none" THEN 0 ELSE 1)

(* The account is overdrawn by no more than the deposits that came back:   *)
(* payouts and off-ramp sales that race do not spend a balance twice       *)
(* (offRampService.ts:170-201, bankRailService.ts:160-181, 201).           *)
Returned == {k \in RailKeys : RailOf[k] = "deposit" /\ Posted(<<"return", k>>)}

OverdrawnByReturnsOnly ==
  bal[RailCash] + SumFunctionOnSet(RailAmount, Returned) >= 0
=============================================================================
