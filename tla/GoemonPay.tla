----------------------------- MODULE GoemonPay -----------------------------
(***************************************************************************)
(* "Goemon Pay", backend/src/services/paymentService.ts, over the escrow   *)
(* layer: merchants' payment intents, paid by an escrow hold under the key *)
(* pay:intent:<id>.  The keys of Escrow are therefore the intents.         *)
(*                                                                         *)
(* A payment request uses its slot for the calls it makes into             *)
(* escrowService; call[s] is what the payment code around them is doing.   *)
(* The same escrows are also reachable from the routes /api/escrow         *)
(* (release by the payer, refund by the payee, dispute by either) and      *)
(* /api/admin/escrow (resolve), which bypass the intent.                   *)
(***************************************************************************)
EXTENDS Escrow

CONSTANTS
  Owner,    \* Owner[i]: owner of the merchant that asks for intent i
  Suspects  \* users whose accounts fraud remediation may freeze

ASSUME PayAssumption == Owner \in [Keys -> Users] /\ Suspects \subseteq Users

VARIABLES
  intent,      \* the table payment_intents
  plog,        \* the table payment_events, as the set of events of each intent
  call,        \* call[s]: the payment operation that slot s is executing
  payEnabled,  \* GOEMON_PAY_ENABLED
  frozen,      \* users for whom isAccountFrozen returns true
  late         \* intents whose expires_at has passed

payOnly == <<intent, plog, call, payEnabled, frozen, late>>
payVars == <<escrowVars, payOnly>>

PayEvents == {"created", "paid", "captured", "refunded", "disputed", "canceled", "expired"}

NoCall == [pc |-> "idle", user |-> None, intent |-> None, event |-> "created"]

PayCalls == [pc : {"idle", "read", "hold", "held", "expire", "cancel", "settle", "log"},
             user : Users \cup {None}, intent : Keys \cup {None}, event : PayEvents]

Intents == [status : {"none", "requires_payment", "paid", "canceled", "expired"},
            payer : Users \cup {None}]

Busy(s, pc) == call[s].pc = pc
Free(s) == Busy(s, "idle") /\ At(s, "idle")
Begin(s, pc, u, i, event) ==
  call' = [call EXCEPT ![s] = [pc |-> pc, user |-> u, intent |-> i, event |-> event]]
Advance(s, pc) == call' = [call EXCEPT ![s].pc = pc]
ThenLog(s, event) == Begin(s, "log", call[s].user, call[s].intent, event)
EndCall(s) == call' = [call EXCEPT ![s] = NoCall]

(* effectiveStatus: once paid, the escrow is the state machine.            *)
Effective(i) ==
  IF intent[i].status # "paid" THEN intent[i].status
  ELSE IF escrow[i].status = "released" THEN "settled"
  ELSE escrow[i].status

PayTypeOK ==
  /\ intent \in [Keys -> Intents]
  /\ plog \in [Keys -> SUBSET PayEvents]
  /\ call \in [Slots -> PayCalls]
  /\ payEnabled \in BOOLEAN
  /\ frozen \subseteq Users
  /\ late \subseteq Keys

PayInit ==
  /\ EscrowInit
  /\ intent = [i \in Keys |-> [status |-> "none", payer |-> None]]
  /\ plog = [i \in Keys |-> {}]
  /\ call = [s \in Slots |-> NoCall]
  /\ payEnabled = TRUE
  /\ frozen = {}
  /\ late = {}

-----------------------------------------------------------------------------
(* The merchant asks for money; the event is a statement of its own and    *)
(* may be lost with the request.                                           *)
CreateIntent(i) ==
  /\ payEnabled
  /\ intent[i].status = "none"
  /\ intent' = [intent EXCEPT ![i].status = "requires_payment"]
  /\ plog' \in {plog, [plog EXCEPT ![i] = @ \cup {"created"}]}
  /\ UNCHANGED <<escrowVars, call, payEnabled, frozen, late>>

-----------------------------------------------------------------------------
(* payIntent *)

(* The kill-switch and the fraud freeze are tested once, on entry.         *)
PayCall(s, u, i) ==
  /\ Free(s)
  /\ payEnabled
  /\ u \notin frozen
  /\ intent[i].status # "none"
  /\ Begin(s, "read", u, i, "paid")
  /\ UNCHANGED <<escrowVars, intent, plog, payEnabled, frozen, late>>

(* The intent is read; one that is not payable answers without a change    *)
(* (the same payer again, CONFLICT, or the merchant itself).               *)
PayRead(s) ==
  LET i == call[s].intent
      payable == Effective(i) = "requires_payment" /\ call[s].user # Owner[i] IN
  /\ Busy(s, "read")
  /\ \/ ~payable /\ EndCall(s)
     \/ payable /\ i \in late /\ Advance(s, "expire")
     \/ payable /\ i \notin late /\ Advance(s, "hold")
  /\ UNCHANGED <<escrowVars, intent, plog, payEnabled, frozen, late>>

(* UPDATE ... SET status = 'expired' WHERE status = 'requires_payment'     *)
PayExpire(s) ==
  LET i == call[s].intent IN
  /\ Busy(s, "expire")
  /\ intent' = IF intent[i].status = "requires_payment"
                 THEN [intent EXCEPT ![i].status = "expired"] ELSE intent
  /\ ThenLog(s, "expired")
  /\ UNCHANGED <<escrowVars, plog, payEnabled, frozen, late>>

PayHold(s) ==
  LET i == call[s].intent IN
  /\ Busy(s, "hold")
  /\ HoldCall(s, call[s].user, Owner[i], i)
  /\ Advance(s, "held")
  /\ UNCHANGED <<intent, plog, payEnabled, frozen, late>>

(* hold() returned another payer's escrow: CONFLICT.                       *)
PayLost(s) ==
  /\ Busy(s, "held") /\ At(s, "returned")
  /\ escrow[call[s].intent].payer # call[s].user
  /\ Respond(s)
  /\ EndCall(s)
  /\ UNCHANGED <<intent, plog, payEnabled, frozen, late>>

Paid(u) == [status |-> "paid", payer |-> u]

(* Faulty: whoever's escrow hold() returned, the caller is the payer.      *)
PayMarkAnyPayer(s) ==
  LET i == call[s].intent IN
  /\ Busy(s, "held") /\ At(s, "returned")
  /\ Respond(s)
  /\ intent' = IF intent[i].status = "requires_payment"
                 THEN [intent EXCEPT ![i] = Paid(call[s].user)] ELSE intent
  /\ ThenLog(s, "paid")
  /\ UNCHANGED <<plog, payEnabled, frozen, late>>

(* Faulty: the update does not test the status it overwrites.              *)
PayMarkAnyStatus(s) ==
  LET i == call[s].intent IN
  /\ Busy(s, "held") /\ At(s, "returned")
  /\ escrow[i].payer = call[s].user
  /\ Respond(s)
  /\ intent' = [intent EXCEPT ![i] = Paid(call[s].user)]
  /\ ThenLog(s, "paid")
  /\ UNCHANGED <<plog, payEnabled, frozen, late>>

(* UPDATE ... SET status = 'paid' WHERE status = 'requires_payment'; that  *)
(* no row may have matched goes unnoticed.                                 *)
PayMark(s) ==
  LET i == call[s].intent IN
  /\ Busy(s, "held") /\ At(s, "returned")
  /\ escrow[i].payer = call[s].user
  /\ Respond(s)
  /\ intent' = IF intent[i].status = "requires_payment"
                 THEN [intent EXCEPT ![i] = Paid(call[s].user)] ELSE intent
  /\ ThenLog(s, "paid")
  /\ UNCHANGED <<plog, payEnabled, frozen, late>>

-----------------------------------------------------------------------------
(* captureIntent and refundIntent, by the merchant; disputeIntent, by the  *)
(* payer; cancelIntent, by the merchant.                                   *)

(* requireHeldIntent: the intent carries an escrow_id.                     *)
HasEscrow(i) == intent[i].payer # None

(* Faulty: capture is shed with the kill-switch.                           *)
CaptureIfEnabled(s, i) ==
  /\ payEnabled /\ Free(s) /\ HasEscrow(i)
  /\ SettleCall(s, "release", i)
  /\ Begin(s, "settle", None, i, "captured")
  /\ UNCHANGED <<intent, plog, payEnabled, frozen, late>>

(* Faulty: capture pays the merchant past the escrow service.              *)
CaptureDirectly(s, i) ==
  /\ Free(s) /\ HasEscrow(i)
  /\ PostJournal(<<"escrow:settle", i>>, Move(EscrowAcct, Owner[i], Amount[i]))
  /\ Begin(s, "log", None, i, "captured")
  /\ UNCHANGED <<escrow, log, chainIn, chainOut, req, intent, plog, payEnabled, frozen, late>>

Capture(s, i) ==
  /\ Free(s) /\ HasEscrow(i)
  /\ SettleCall(s, "release", i)
  /\ Begin(s, "settle", None, i, "captured")
  /\ UNCHANGED <<intent, plog, payEnabled, frozen, late>>

RefundIntent(s, i) ==
  /\ Free(s) /\ HasEscrow(i)
  /\ SettleCall(s, "refund", i)
  /\ Begin(s, "settle", None, i, "refunded")
  /\ UNCHANGED <<intent, plog, payEnabled, frozen, late>>

(* Faulty: the event is written without waiting for the settlement.        *)
SettledEarly(s) ==
  /\ Busy(s, "settle")
  /\ req' = [req EXCEPT ![s] = Idle]
  /\ Advance(s, "log")
  /\ UNCHANGED <<journals, bal, escrow, log, chainIn, chainOut,
                 intent, plog, payEnabled, frozen, late>>

Settled(s) ==
  /\ Busy(s, "settle") /\ At(s, "returned")
  /\ Respond(s)
  /\ Advance(s, "log")
  /\ UNCHANGED <<intent, plog, payEnabled, frozen, late>>

DisputeIntent(s, i) ==
  /\ Free(s) /\ HasEscrow(i)
  /\ \/ OpenDispute(i)
     \/ escrow[i].status = "disputed" /\ UNCHANGED escrowVars
  /\ Begin(s, "log", intent[i].payer, i, "disputed")
  /\ UNCHANGED <<intent, plog, payEnabled, frozen, late>>

Cancel(s, i) ==
  /\ Free(s)
  /\ Effective(i) \in {"requires_payment", "expired"}
  /\ Begin(s, "cancel", None, i, "canceled")
  /\ UNCHANGED <<escrowVars, intent, plog, payEnabled, frozen, late>>

(* UPDATE ... WHERE status IN ('requires_payment', 'expired')              *)
CancelWrite(s) ==
  LET i == call[s].intent IN
  /\ Busy(s, "cancel")
  /\ intent' = IF intent[i].status \in {"requires_payment", "expired"}
                 THEN [intent EXCEPT ![i].status = "canceled"] ELSE intent
  /\ ThenLog(s, "canceled")
  /\ UNCHANGED <<escrowVars, plog, payEnabled, frozen, late>>

(* recordEvent, after the change it reports; then the answer.              *)
LogEvent(s) ==
  /\ Busy(s, "log")
  /\ plog' = [plog EXCEPT ![call[s].intent] = @ \cup {call[s].event}]
  /\ EndCall(s)
  /\ UNCHANGED <<escrowVars, intent, payEnabled, frozen, late>>

-----------------------------------------------------------------------------
(* The escrow service runs, for a payment or for /api/escrow; its error    *)
(* ends the payment operation that called it.                              *)
EscrowRuns(s) ==
  /\ EscrowStep(s)
  /\ call' = IF req'[s] = Idle THEN [call EXCEPT ![s] = NoCall] ELSE call
  /\ UNCHANGED <<intent, plog, payEnabled, frozen, late>>

EscrowRoute(s, op, i) ==
  /\ Free(s)
  /\ SettleCall(s, op, i)
  /\ UNCHANGED payOnly

EscrowResponds(s) ==
  /\ Busy(s, "idle")
  /\ Respond(s)
  /\ UNCHANGED payOnly

DisputeRoute(i) == OpenDispute(i) /\ UNCHANGED payOnly

(* A request dies, with the escrow call it may be in.                      *)
PayFail(s) ==
  /\ ~Free(s)
  /\ Leave(s)
  /\ EndCall(s)
  /\ UNCHANGED <<journals, bal, escrow, log, chainIn, chainOut,
                 intent, plog, payEnabled, frozen, late>>

-----------------------------------------------------------------------------
(* The world: operators flip the kill-switch (in a rolling restart, so     *)
(* that requests already admitted go on), fraud remediation freezes and    *)
(* releases accounts, time passes.                                         *)
KillSwitch ==
  /\ payEnabled' = ~payEnabled
  /\ UNCHANGED <<escrowVars, intent, plog, call, frozen, late>>

FreezeOrRelease(u) ==
  /\ frozen' = IF u \in frozen THEN frozen \ {u} ELSE frozen \cup {u}
  /\ UNCHANGED <<escrowVars, intent, plog, call, payEnabled, late>>

TimePasses(i) ==
  /\ intent[i].status # "none"
  /\ i \notin late
  /\ late' = late \cup {i}
  /\ UNCHANGED <<escrowVars, intent, plog, call, payEnabled, frozen>>

ServerStep(s) ==
  \/ PayRead(s) \/ PayExpire(s) \/ PayHold(s) \/ PayLost(s) \/ PayMark(s)
  \/ Settled(s) \/ CancelWrite(s) \/ LogEvent(s)
  \/ EscrowRuns(s) \/ EscrowResponds(s)

PayNext ==
  \/ \E i \in Keys :
       \/ CreateIntent(i)
       \/ DisputeRoute(i)
       \/ TimePasses(i)
  \/ \E s \in Slots, i \in Keys :
       \/ \E u \in Users : PayCall(s, u, i)
       \/ Capture(s, i) \/ RefundIntent(s, i) \/ DisputeIntent(s, i) \/ Cancel(s, i)
       \/ \E op \in Ops : EscrowRoute(s, op, i)
  \/ \E s \in Slots : ServerStep(s) \/ PayFail(s)
  \/ KillSwitch
  \/ \E u \in Suspects : FreezeOrRelease(u)

PaySpec == PayInit /\ [][PayNext]_payVars

(* Fairness.  The event loop does not leave a request waiting for ever.    *)
(* Failures are not permanent: a step of the payer's payment, or of a      *)
(* settlement, that can come again and again is taken.  The payer of a     *)
(* payment that did not finish retries it, and the merchant captures what  *)
(* it is owed; nothing else is assumed of people, operators or the clock.  *)
By(s, u) == call[s].user = u

Served(s) ==
  /\ WF_payVars(ServerStep(s))
  /\ \A u \in Users \ {Owner[i] : i \in Keys} :
       /\ SF_payVars(By(s, u) /\ PayRead(s))
       /\ SF_payVars(By(s, u) /\ PayExpire(s))
       /\ SF_payVars(By(s, u) /\ PayHold(s))
       /\ SF_payVars(By(s, u) /\ PayMark(s))
  /\ SF_payVars(By(s, None) /\ Busy(s, "settle") /\ EscrowRuns(s))
  /\ SF_payVars(Settled(s))

RetriesPayment(i) == \E s \in Slots : Exists(i) /\ PayCall(s, escrow[i].payer, i)
Captures(i) == \E s \in Slots : Capture(s, i)

FairPaySpec ==
  /\ PaySpec
  /\ \A s \in Slots : Served(s)
  /\ \A i \in Keys : SF_payVars(RetriesPayment(i)) /\ SF_payVars(Captures(i))

-----------------------------------------------------------------------------
(* Correctness *)

(* One state machine for money: a paid intent is protected by the escrow   *)
(* of its own payer in favour of the merchant (paymentService.ts:10-14).   *)
PaidIntentBacked ==
  \A i \in Keys :
    intent[i].status = "paid" =>
      /\ Exists(i)
      /\ escrow[i].payer = intent[i].payer
      /\ escrow[i].payee = Owner[i]

(* Every user's cash is what the escrow rows say: nobody pays for an       *)
(* intent another payer holds, a retry or a race never charges twice, and  *)
(* a refund makes the payer whole (paymentService.ts:27-29).               *)
CashExplained ==
  \A u \in Users :
    bal[u] = Opening[u]
             - SumFunctionOnSet(Amount, {i \in Keys : escrow[i].payer = u
                                           /\ escrow[i].status \in Open \cup {"released"}})
             + SumFunctionOnSet(Amount, {i \in Keys : escrow[i].payee = u
                                           /\ escrow[i].status = "released"})

(* The effective status follows the diagram of paymentService.ts:16-20     *)
(* although it is derived from two tables that different steps write.  The *)
(* escrow may have moved on before the intent is marked paid.              *)
PayEdges ==
  {<<"none", "requires_payment">>, <<"expired", "canceled">>}
  \cup ({"requires_payment"} \X {"held", "disputed", "settled", "refunded", "canceled", "expired"})
  \cup ({"held"} \X {"disputed", "settled", "refunded"})
  \cup ({"disputed"} \X {"settled", "refunded"})

StatusFollowsDiagram ==
  [][\A i \in Keys : Effective(i)' # Effective(i) => <<Effective(i), Effective(i)'>> \in PayEdges]_payVars

(* payment_events never runs ahead of the money: an intent logged paid has *)
(* a hold, one logged captured or refunded was settled that way.           *)
EventTrue(event, i) ==
  /\ event = "paid" => Exists(i)
  /\ event = "captured" => escrow[i].status = "released"
  /\ event = "refunded" => escrow[i].status = "refunded"

EventsNeverAhead == \A i \in Keys : \A event \in plog[i] : EventTrue(event, i)

(* The payment layer uses the escrow layer by its operations only, so all  *)
(* that is known of Escrow holds here (paymentService.ts:10-13).           *)
PayKeepsEscrow == EscrowSpec

(* A payment that died between the hold and the update is healed by the    *)
(* payer's retry, unless the intent was closed meanwhile or the retry is   *)
(* refused at the door (paymentService.ts:324-349).                        *)
RetryHealsPayment ==
  \A i \in Keys :
    (Exists(i) /\ intent[i].status = "requires_payment")
      ~> (intent[i].status # "requires_payment" \/ ~payEnabled \/ escrow[i].payer \in frozen)

(* "capture, refund, and dispute on already-held funds stay available so   *)
(* money is never stranded" (paymentService.ts:24-25): whatever becomes of *)
(* the kill-switch, a held payment does not stay held for ever.            *)
HeldFundsResolvable ==
  \A i \in Keys : Effective(i) = "held" ~> Effective(i) # "held"

(* The strengthening that makes PaidIntentBacked and EventsNeverAhead      *)
(* inductive: what a payment operation c knows of its escrow call q.       *)
SlotFits(c, q) ==
  /\ c.pc # "idle" => c.intent \in Keys
  /\ c.pc \in {"read", "expire", "hold", "held"} => c.user \in Users
  /\ c.pc \in {"read", "expire", "hold", "cancel", "log"} => q = Idle
  /\ c.pc = "held" => q.op = "hold" /\ q.key = c.intent
  /\ c.pc = "settle" =>
       /\ q.key = c.intent
       /\ <<c.event, q.op>> \in {<<"captured", "release">>, <<"refunded", "refund">>}
  /\ c.pc = "log" => EventTrue(c.event, c.intent)
  /\ q.pc = "idle" => q = Idle
  /\ q.op = "hold" => q.payee = Owner[q.key]
  /\ q.pc = "returned" =>
       IF q.op = "hold" THEN Exists(q.key) ELSE escrow[q.key].status = TerminalOf(q.op)

SlotsInOrder == \A s \in Slots : SlotFits(call[s], req[s])

HeldForOwner == \A i \in Keys : Exists(i) => escrow[i].payee = Owner[i]

-----------------------------------------------------------------------------
(* What the comments say and the code does not do *)

(* "requires_payment -> canceled | expired (no money ever moved)"          *)
(* (paymentService.ts:20): no escrow exists for an intent that was closed  *)
(* unpaid.                                                                 *)
ClosedUnpaidMovedNothing ==
  \A i \in Keys : intent[i].status \in {"canceled", "expired"} => ~Exists(i)
=============================================================================
