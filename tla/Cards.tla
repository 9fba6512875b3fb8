------------------------------- MODULE Cards -------------------------------
(***************************************************************************)
(* Debit cards, backend/src/services/cardService.ts: authorize, capture,   *)
(* void and refund over the ledger, with the USDC cashback.                *)
(*                                                                         *)
(* authorize is one serializable transaction after a look-up.  The others  *)
(* read the status, post a journal in a transaction of its own, and write  *)
(* the status in another statement that tests nothing.  An authorization   *)
(* is identified by its idempotency_key, which the schema makes UNIQUE;    *)
(* its amount and cashback are that key's.  The gates on entry (switch,    *)
(* freeze, card status, fraud screen) only refuse: a call that they refuse *)
(* is a call that is not made.                                             *)
(***************************************************************************)
EXTENDS Ledger, Functions

CONSTANTS
  Users,     \* cardholders; the account of that name is their user_cash
  Usdc,      \* Usdc[u]: the user_cash account of u in the reward currency
  Holds,     \* the card_holds account
  Clearing,  \* the external_clearing account
  Pool,      \* the card_rewards account
  Keys,
  Holder,    \* Holder[k]: the user of the card that k is authorized on
  Amount,    \* Amount[k]: amountMinor
  Cashback,  \* Cashback[k]: amount * CARD_CASHBACK_BPS / 10000
  Slots,     \* requests served at once
  None

ASSUME CardsAssumption ==
  /\ Holder \in [Keys -> Users]
  /\ Amount \in [Keys -> Nat \ {0}]
  /\ Cashback \in [Keys -> Nat]
  /\ \A u \in Users : Opening[u] >= 0
  /\ Usdc \in [Users -> Accounts]
  /\ Users \cup {Holds, Clearing, Pool} \subseteq Accounts
  /\ Users \cap ({Holds, Clearing, Pool} \cup {Usdc[u] : u \in Users}) = {}
  /\ None \notin Keys

VARIABLES
  auth,     \* auth[k]: status of the row in card_authorizations, or "none"
  rewards,  \* rewards[k]: rows of k in card_rewards
  req       \* req[s]: the call that slot s is executing

cardVars == <<journals, bal, auth, rewards, req>>

Ops == {"capture", "void", "refund"}
Statuses == {"authorized", "captured", "voided", "refunded"}

Exists(k) == auth[k] # "none"

(* What each operation requires, writes, and moves.                        *)
Requires(op) == IF op = "refund" THEN "captured" ELSE "authorized"

Writes(op) ==
  CASE op = "capture" -> "captured" [] op = "void" -> "voided" [] op = "refund" -> "refunded"

VoidSettles(op, k) ==  \* faulty: a void is settled out like a capture
  IF op = "refund" THEN Move(Clearing, Holder[k], Amount[k]) ELSE Move(Holds, Clearing, Amount[k])

Moves(op, k) ==
  CASE op = "capture" -> Move(Holds, Clearing, Amount[k])
    [] op = "void"    -> Move(Holds, Holder[k], Amount[k])
    [] op = "refund"  -> Move(Clearing, Holder[k], Amount[k])

Call(pc, op, k) == [pc |-> pc, op |-> op, key |-> k]
Idle == Call("idle", "none", None)

Calls == [pc : {"idle", "commit", "post", "mark", "cashback", "reward"},
          op : {"none", "authorize"} \cup Ops, key : Keys \cup {None}]

At(s, pc) == req[s].pc = pc
Goto(s, pc) == req' = [req EXCEPT ![s].pc = pc]
Leave(s) == req' = [req EXCEPT ![s] = Idle]

CardsTypeOK ==
  /\ LedgerTypeOK
  /\ auth \in [Keys -> Statuses \cup {"none"}]
  /\ rewards \in [Keys -> Nat]
  /\ req \in [Slots -> Calls]

CardsInit ==
  /\ LedgerInit
  /\ auth = [k \in Keys |-> "none"]
  /\ rewards = [k \in Keys |-> 0]
  /\ req = [s \in Slots |-> Idle]

-----------------------------------------------------------------------------
(* authorize *)

(* An authorization with the key is returned as it is.                     *)
AuthorizeCall(s, k) ==
  /\ At(s, "idle")
  /\ ~Exists(k)
  /\ req' = [req EXCEPT ![s] = Call("commit", "authorize", k)]
  /\ UNCHANGED <<journals, bal, auth, rewards>>

(* The transaction: the balance, the hold journal and the row; a second    *)
(* row with the key violates the constraint, and all of it is undone.      *)
Authorize(s) ==
  LET k == req[s].key IN
  /\ PostJournal(<<"auth", k>>, Move(Holder[k], Holds, Amount[k]))
  /\ auth' = [auth EXCEPT ![k] = "authorized"]

AuthorizeUnchecked(s) ==  \* faulty: no balance check in the transaction
  /\ At(s, "commit")
  /\ IF ~Exists(req[s].key) THEN Authorize(s) ELSE UNCHANGED <<journals, bal, auth>>
  /\ Leave(s)
  /\ UNCHANGED rewards

AuthorizeCommit(s) ==
  LET k == req[s].key IN
  /\ At(s, "commit")
  /\ IF ~Exists(k) /\ bal[Holder[k]] >= Amount[k]
       THEN Authorize(s) ELSE UNCHANGED <<journals, bal, auth>>
  /\ Leave(s)
  /\ UNCHANGED rewards

-----------------------------------------------------------------------------
(* capture, voidAuthorization, refund *)

(* Faulty: the status is not required.                                     *)
SettleCallAny(s, op, k) ==
  /\ At(s, "idle")
  /\ Exists(k)
  /\ req' = [req EXCEPT ![s] = Call("post", op, k)]
  /\ UNCHANGED <<journals, bal, auth, rewards>>

(* Faulty: an operation whose journal exists is taken for done.            *)
SettleCallOnce(s, op, k) ==
  /\ At(s, "idle")
  /\ auth[k] = Requires(op) /\ ~Posted(<<op, k>>)
  /\ req' = [req EXCEPT ![s] = Call("post", op, k)]
  /\ UNCHANGED <<journals, bal, auth, rewards>>

(* requireAuth: the status is read once, outside any transaction.          *)
SettleCall(s, op, k) ==
  /\ At(s, "idle")
  /\ auth[k] = Requires(op)
  /\ req' = [req EXCEPT ![s] = Call("post", op, k)]
  /\ UNCHANGED <<journals, bal, auth, rewards>>

SettlePost(s) ==
  LET k == req[s].key  op == req[s].op IN
  /\ At(s, "post")
  /\ PostJournal(<<op, k>>, Moves(op, k))
  /\ Goto(s, "mark")
  /\ UNCHANGED <<auth, rewards>>

(* UPDATE card_authorizations SET status = ... WHERE id = ?                *)
SettleMark(s) ==
  LET k == req[s].key  op == req[s].op IN
  /\ At(s, "mark")
  /\ auth' = [auth EXCEPT ![k] = Writes(op)]
  /\ IF op = "capture" /\ Cashback[k] > 0 THEN Goto(s, "cashback") ELSE Leave(s)
  /\ UNCHANGED <<journals, bal, rewards>>

-----------------------------------------------------------------------------
(* payCashback: a journal, then a row of its own.                          *)
CashbackPost(s) ==
  LET k == req[s].key IN
  /\ At(s, "cashback")
  /\ PostJournal(<<"cashback", k>>, Move(Pool, Usdc[Holder[k]], Cashback[k]))
  /\ Goto(s, "reward")
  /\ UNCHANGED <<auth, rewards>>

RewardInsert(s) ==
  /\ At(s, "reward")
  /\ rewards' = [rewards EXCEPT ![req[s].key] = @ + 1]
  /\ Leave(s)
  /\ UNCHANGED <<journals, bal, auth>>

-----------------------------------------------------------------------------
(* A request dies: its process stops, or its transaction aborts.           *)
Fail(s) ==
  /\ ~At(s, "idle")
  /\ Leave(s)
  /\ UNCHANGED <<journals, bal, auth, rewards>>

Serve(s) ==
  AuthorizeCommit(s) \/ SettlePost(s) \/ SettleMark(s) \/ CashbackPost(s) \/ RewardInsert(s)

CardsNext ==
  \E s \in Slots :
    \/ \E k \in Keys :
         \/ AuthorizeCall(s, k)
         \/ \E op \in Ops : SettleCall(s, op, k)
    \/ Serve(s)
    \/ Fail(s)

CardsSpec == CardsInit /\ [][CardsNext]_cardVars

(* Fairness: the event loop serves what it has taken; the processor        *)
(* repeats a capture it got no answer to; and in the end requests stop     *)
(* dying.                                                                  *)
CapturesAgain(k) == \E s \in Slots : Posted(<<"capture", k>>) /\ SettleCall(s, "capture", k)

(* A failure, unless it looks like a refused commit or a repeated update.  *)
Dies(s) ==
  /\ ~At(s, "idle") /\ ~At(s, "commit")
  /\ ~(At(s, "mark") /\ auth[req[s].key] = Writes(req[s].op))
  /\ req'[s] = Idle
  /\ UNCHANGED <<journals, auth, rewards>>

FairCardsSpec ==
  /\ CardsSpec
  /\ \A s \in Slots : WF_cardVars(Serve(s))
  /\ \A k \in Keys : SF_cardVars(CapturesAgain(k))
  /\ <>[][\A s \in Slots : ~Dies(s)]_cardVars

-----------------------------------------------------------------------------
(* Correctness *)

(* Authorizations side by side do not overdraw the cardholder              *)
(* (cardService.ts:155).                                                   *)
NoOverdraft == \A u \in Users : bal[u] >= 0

(* However operations race and die, and whichever status is written last,  *)
(* a status is only ever written over a journal that moved the money, and  *)
(* refunds, cashback and reward rows follow a capture                      *)
(* (cardService.ts:198-207, 232-243).                                      *)
StatusFollowsMoney ==
  \A k \in Keys :
    /\ Exists(k) <=> Posted(<<"auth", k>>)
    /\ \A op \in Ops : auth[k] = Writes(op) => Posted(<<op, k>>)
    /\ \A op \in {"refund", "cashback"} : Posted(<<op, k>>) => Posted(<<"capture", k>>)
    /\ rewards[k] > 0 => Posted(<<"cashback", k>>)

(* The cardholder is out of pocket by no more than what the rows show as   *)
(* authorized or captured: what is shown voided or refunded came back.     *)
Spent(u) == {k \in Keys : Holder[k] = u /\ auth[k] \in {"authorized", "captured"}}

CardholderWhole ==
  \A u \in Users : bal[u] >= Opening[u] - SumFunctionOnSet(Amount, Spent(u))

(* A capture that died after its money moved is completed by the           *)
(* processor's retry: the row does not stay open for ever                  *)
(* (cardService.ts:198-207).                                               *)
CaptureCompletes ==
  \A k \in Keys : Posted(<<"capture", k>>) ~> auth[k] # "authorized"

(* The strengthening that makes NoOverdraft and StatusFollowsMoney         *)
(* inductive: what a request that is cut short has already done.           *)
RequestFits(c) ==
  /\ c.pc # "idle" => c.key \in Keys
  /\ c.pc \in {"post", "mark"} => c.op \in Ops /\ Exists(c.key)
  /\ c.pc = "post" /\ c.op = "refund" => Posted(<<"capture", c.key>>)
  /\ c.pc = "mark" => Posted(<<c.op, c.key>>)
  /\ c.pc \in {"cashback", "reward"} => Posted(<<"capture", c.key>>)
  /\ c.pc = "reward" => Posted(<<"cashback", c.key>>)

RequestsInOrder == \A s \in Slots : RequestFits(req[s])

(* "cannot capture a voided auth" (test/cards.test.ts:114): money is not   *)
(* both released to the cardholder and settled out of the held funds.      *)
CapturedOrVoided == \A k \in Keys : ~(Posted(<<"capture", k>>) /\ Posted(<<"void", k>>))
=============================================================================
