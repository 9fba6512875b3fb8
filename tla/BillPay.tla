------------------------------ MODULE BillPay ------------------------------
(***************************************************************************)
(* Bill payments, backend/src/services/billPayService.ts: payBill, the     *)
(* scheduler processScheduledBills, cancelBill, and send() behind both;    *)
(* and requests for money, paymentRequestService.ts.                       *)
(*                                                                         *)
(* send() is one transaction that pays out through the bank in its middle, *)
(* and after it, for a recurring bill, the row of the next instance.  The  *)
(* status is read before send() and never tested again.  Only the first    *)
(* instance has the caller's key; each bill has one amount.                *)
(*                                                                         *)
(* A request for money goes over the direct path of a transfer             *)
(* (transferService.ts): fulfil, decline, cancel, and the lazy expiry.     *)
(* The transfer's key is the request's id, so a request moves money once,  *)
(* and its status is written with a test.  Between the two, the request    *)
(* may expire or be closed by somebody else.                               *)
(***************************************************************************)
EXTENDS Service

CONSTANTS
  Bills,       \* ids of rows in bill_payments
  FirstBill,   \* the one that payBill inserts
  BillAmount,
  Recurring,   \* whether its recurrence is not "none"
  MaxPayouts,  \* bound: payouts of one bill
  BillCash, BillClearing

ASSUME BillPayAssumption ==
  /\ FirstBill \in Bills
  /\ BillAmount \in Nat \ {0}
  /\ Recurring \in BOOLEAN
  /\ {BillCash, BillClearing} \subseteq Accounts /\ BillCash # BillClearing
  /\ Opening[BillCash] >= 0

VARIABLES
  bill,     \* bill[b]: status of the row, or "none"
  payouts,  \* payouts[b]: payouts that the bank has accepted
  paidRows  \* paidRows[b]: rows in transactions

billVars == <<journals, bal, call, bill, payouts, paidRows>>

BillStatuses == {"none", "scheduled", "sent", "failed", "canceled"}

BillPayInit ==
  /\ ServiceInit
  /\ bill = [b \in Bills |-> "none"]
  /\ payouts = [b \in Bills |-> 0]
  /\ paidRows = [b \in Bills |-> 0]

Charged(b) == Posted(<<"billpay", b>>)

-----------------------------------------------------------------------------
(* payBill: a row with the key answers the call; else it is inserted, and  *)
(* sent at once when it is due.                                            *)
PayBill(s) ==
  /\ bill[FirstBill] = "none"
  /\ Begin(s, "pay", "insert", FirstBill, None)
  /\ UNCHANGED <<journals, bal, bill, payouts, paidRows>>

PayInsert(s) ==
  /\ At(s, "pay", "insert")
  /\ \/ /\ bill[FirstBill] = "none"
        /\ bill' = [bill EXCEPT ![FirstBill] = "scheduled"]
        /\ Goto(s, "send") \/ Leave(s)
     \/ /\ bill[FirstBill] # "none"
        /\ UNCHANGED bill
        /\ Leave(s)
  /\ UNCHANGED <<journals, bal, payouts, paidRows>>

(* processScheduledBills: the list of due bills is read once, then each is *)
(* sent, at whatever time its turn comes.                                  *)
Due(s, b) ==
  /\ bill[b] = "scheduled"
  /\ Begin(s, "due", "send", b, None)
  /\ UNCHANGED <<journals, bal, bill, payouts, paidRows>>

-----------------------------------------------------------------------------
(* send: what it throws is caught by the scheduler, which marks the bill.  *)
Throw(s) == IF call[s].op = "due" THEN Goto(s, "fail") ELSE Leave(s)

Sending(s, at) == call[s].op \in {"pay", "due"} /\ call[s].at = at

(* The account is frozen, or the screening says no.                        *)
SendRefused(s) ==
  /\ Sending(s, "send")
  /\ Throw(s)
  /\ UNCHANGED <<journals, bal, bill, payouts, paidRows>>

SendPayout(s) ==
  LET b == call[s].row IN
  /\ Sending(s, "send")
  /\ IF bal[BillCash] >= BillAmount
       THEN /\ payouts[b] < MaxPayouts
            /\ payouts' = [payouts EXCEPT ![b] = @ + 1]
            /\ Goto(s, "commit")
       ELSE UNCHANGED payouts /\ Throw(s)
  /\ UNCHANGED <<journals, bal, bill, paidRows>>

SendCommitUnmarked(s) ==  \* faulty: the status is left to the scheduler
  LET b == call[s].row IN
  /\ Sending(s, "commit")
  /\ bal[BillCash] >= BillAmount
  /\ PostJournal(<<"billpay", b>>, Move(BillCash, BillClearing, BillAmount))
  /\ paidRows' = [paidRows EXCEPT ![b] = @ + 1]
  /\ Goto(s, "next")
  /\ UNCHANGED <<bill, payouts>>

(* The commit; serializable, so that the balance still covers the amount.  *)
SendCommit(s) ==
  LET b == call[s].row IN
  /\ Sending(s, "commit")
  /\ bal[BillCash] >= BillAmount
  /\ PostJournal(<<"billpay", b>>, Move(BillCash, BillClearing, BillAmount))
  /\ paidRows' = [paidRows EXCEPT ![b] = @ + 1]
  /\ bill' = [bill EXCEPT ![b] = "sent"]
  /\ Goto(s, "next")
  /\ UNCHANGED payouts

(* The transaction aborts, or what comes behind it throws: the scheduler   *)
(* takes the one for the other.                                            *)
SendAbort(s) ==
  /\ Sending(s, "commit") \/ Sending(s, "next")
  /\ Throw(s)
  /\ UNCHANGED <<journals, bal, bill, payouts, paidRows>>

SendNext(s) ==
  /\ Sending(s, "next")
  /\ IF Recurring
       THEN \E b \in Bills \ {FirstBill} :
              bill[b] = "none" /\ bill' = [bill EXCEPT ![b] = "scheduled"]
       ELSE UNCHANGED bill
  /\ Leave(s)
  /\ UNCHANGED <<journals, bal, payouts, paidRows>>

(* UPDATE bill_payments SET status = 'failed' WHERE id = ?                 *)
MarkFailed(s) ==
  /\ At(s, "due", "fail")
  /\ bill' = [bill EXCEPT ![call[s].row] = "failed"]
  /\ Leave(s)
  /\ UNCHANGED <<journals, bal, payouts, paidRows>>

-----------------------------------------------------------------------------
(* cancelBill: the status is read, then overwritten.                       *)
CancelBill(s, b) ==
  /\ bill[b] = "scheduled"
  /\ Begin(s, "cancel", "update", b, None)
  /\ UNCHANGED <<journals, bal, bill, payouts, paidRows>>

CancelUpdate(s) ==
  /\ At(s, "cancel", "update")
  /\ bill' = [bill EXCEPT ![call[s].row] = "canceled"]
  /\ Leave(s)
  /\ UNCHANGED <<journals, bal, payouts, paidRows>>

-----------------------------------------------------------------------------
BillPayNext ==
  \E s \in Slots :
    \/ PayBill(s) \/ PayInsert(s)
    \/ \E b \in Bills : Due(s, b) \/ CancelBill(s, b)
    \/ SendRefused(s) \/ SendPayout(s) \/ SendCommit(s) \/ SendAbort(s) \/ SendNext(s)
    \/ MarkFailed(s) \/ CancelUpdate(s)
    \/ Dies(s) /\ UNCHANGED <<bill, payouts, paidRows>>

BillPaySpec == BillPayInit /\ [][BillPayNext]_billVars

-----------------------------------------------------------------------------
(* Payment requests.                                                       *)
CONSTANTS
  Asks,       \* ids of rows in payment_requests
  Asked,      \* Asked[q]: the users who may pay q
  AskAmount,  \* AskAmount[q]: amount_minor
  Payers,     \* users; the account of that name is their user_cash
  Requester   \* user_cash of the requester

ASSUME PaymentRequestsAssumption ==
  /\ Asked \in [Asks -> SUBSET Payers]
  /\ AskAmount \in [Asks -> Nat \ {0}]
  /\ Payers \cup {Requester} \subseteq Accounts
  /\ Requester \notin Payers
  /\ \A p \in Payers : Opening[p] >= 0

VARIABLES
  ask,    \* ask[q]: the row's status and fulfilled_by
  aged    \* the requests that are past expires_at

askVars == <<journals, bal, call, ask, aged>>

AskStatuses == {"requested", "fulfilled", "declined", "canceled"}

AskRow(status, by) == [status |-> status, by |-> by]

PaymentRequestsInit ==
  /\ ServiceInit
  /\ ask = [q \in Asks |-> AskRow("requested", None)]
  /\ aged = {}

(* effectiveStatus: an open request past its time reads as expired.        *)
AskOpen(q) == ask[q].status = "requested" /\ q \notin aged

Paid(q) == Posted(<<"p2p", q>>)

Age(q) ==
  /\ q \notin aged
  /\ aged' = aged \cup {q}
  /\ UNCHANGED <<journals, bal, call, ask>>

-----------------------------------------------------------------------------
(* fulfillRequest: the status, the transfer, the update.                   *)
Fulfill(s, q, p) ==
  /\ AskOpen(q) /\ p \in Asked[q]
  /\ Begin(s, "fulfill", "transfer", q, p)
  /\ UNCHANGED <<journals, bal, ask, aged>>

AskTransfer(s) ==
  LET q == call[s].row  p == call[s].saw IN
  /\ At(s, "fulfill", "transfer")
  /\ IF Paid(q) \/ bal[p] >= AskAmount[q]
       THEN PostJournal(<<"p2p", q>>, Move(p, Requester, AskAmount[q])) /\ Goto(s, "update")
       ELSE UNCHANGED ledgerVars /\ Leave(s)
  /\ UNCHANGED <<ask, aged>>

CloseAny(q, status, by) ==  \* faulty: the update does not test the status
  ask' = [ask EXCEPT ![q] = AskRow(status, by)]

(* UPDATE ... WHERE id = ? AND status = 'requested'                        *)
Close(q, status, by) ==
  ask' = [ask EXCEPT ![q] = IF @.status = "requested" THEN AskRow(status, by) ELSE @]

AskUpdate(s) ==
  /\ At(s, "fulfill", "update")
  /\ Close(call[s].row, "fulfilled", call[s].saw)
  /\ Leave(s)
  /\ UNCHANGED <<journals, bal, aged>>

-----------------------------------------------------------------------------
(* declineRequest and cancelRequest: the latter of an expired request too. *)
Decline(s, q) ==
  /\ AskOpen(q)
  /\ Begin(s, "decline", "update", q, "declined")
  /\ UNCHANGED <<journals, bal, ask, aged>>

CancelAsk(s, q) ==
  /\ ask[q].status = "requested"
  /\ Begin(s, "decline", "update", q, "canceled")
  /\ UNCHANGED <<journals, bal, ask, aged>>

CloseUpdate(s) ==
  /\ At(s, "decline", "update")
  /\ Close(call[s].row, call[s].saw, None)
  /\ Leave(s)
  /\ UNCHANGED <<journals, bal, aged>>

-----------------------------------------------------------------------------
PaymentRequestsNext ==
  \/ \E q \in Asks : Age(q)
  \/ \E s \in Slots :
       \/ \E q \in Asks : Decline(s, q) \/ CancelAsk(s, q) \/ \E p \in Payers : Fulfill(s, q, p)
       \/ AskTransfer(s) \/ AskUpdate(s) \/ CloseUpdate(s)
       \/ Dies(s) /\ UNCHANGED <<ask, aged>>

PaymentRequestsSpec == PaymentRequestsInit /\ [][PaymentRequestsNext]_askVars

-----------------------------------------------------------------------------
(* Correctness *)

(* However schedulers, cancellations and failures overwrite each other's   *)
(* status: a bill that was charged is not on the schedule again, so that   *)
(* no later scheduler charges or pays it; the bank was asked at least as   *)
(* often as the history and the ledger say; and the account is not         *)
(* overdrawn (billPayService.ts:80-100, 155-156, 164-174).                 *)
ChargedBillsLeaveSchedule ==
  /\ bal[BillCash] >= 0
  /\ \A b \in Bills :
       /\ Charged(b) => bill[b] \in {"sent", "failed", "canceled"}
       /\ bill[b] = "sent" => Charged(b)
       /\ Charged(b) <=> paidRows[b] > 0
       /\ paidRows[b] <= payouts[b]

(* A request is closed once: whoever closes it second, with a status that  *)
(* was read before, changes nothing; and what closes it as fulfilled comes *)
(* after its money, which no payer has been overdrawn for                  *)
(* (paymentRequestService.ts:139-152, 160-162, 172-173).                   *)
RequestClosedOnce ==
  [][\A q \in Asks :
       /\ ask[q].status # "requested" => ask'[q] = ask[q]
       /\ ask'[q].status = "fulfilled" => Paid(q) /\ \A p \in Payers : bal[p] >= 0]_askVars
=============================================================================
