------------------------------- MODULE Escrow -------------------------------
(***************************************************************************)
(* The escrow and dispute layer, backend/src/services/escrowService.ts,    *)
(* with the Hedera custody leg of hederaService.ts.                        *)
(*                                                                         *)
(* A request runs in a slot and is cut where the code awaits: the reads    *)
(* before the transaction, the on-chain leg (a network call made while no  *)
(* lock is held) and the serializable transaction itself, which is one     *)
(* step.  Between two steps of one request any step of another may come,   *)
(* and the request may die (process restart, network error, aborted        *)
(* transaction).  An escrow row is identified by its idempotency_key,      *)
(* which the schema makes UNIQUE.                                          *)
(***************************************************************************)
EXTENDS Ledger, Functions, Sequences

CONSTANTS
  Users,
  EscrowAcct,  \* the escrow system account
  Keys,        \* idempotency keys of holds
  Amount,      \* Amount[k]: amountMinor of the hold with key k
  Slots,       \* requests the backend serves at once
  OnChain,     \* the keys whose currency is USDC, with HEDERA_ENABLED
  MaxLegs,     \* bound on the on-chain legs of one escrow to one user
  None

ASSUME EscrowAssumption ==
  /\ Users \cup {EscrowAcct} \subseteq Accounts
  /\ EscrowAcct \notin Users
  /\ Amount \in [Keys -> Nat \ {0}]
  /\ \A u \in Users : Opening[u] >= 0
  /\ OnChain \subseteq Keys
  /\ MaxLegs \in Nat
  /\ None \notin Users \cup Keys

VARIABLES
  escrow,    \* the table escrow_payments
  log,       \* the table escrow_events, per escrow, oldest first
  chainIn,   \* chainIn[k][u]: executed transfers of Amount[k] from u to the custodian
  chainOut,  \* chainOut[k][u]: executed transfers of Amount[k] from the custodian to u
  req        \* req[s]: the escrow call that slot s is executing

escrowVars == <<journals, bal, escrow, log, chainIn, chainOut, req>>

-----------------------------------------------------------------------------
(* Rows, events and calls *)

Open == {"held", "disputed"}
Terminal == {"released", "refunded"}
Ops == {"release", "refund", "resolve_release", "resolve_refund"}

Row(st, payer, payee, resolution) ==
  [status |-> st, payer |-> payer, payee |-> payee, resolution |-> resolution]

NoRow == Row("none", None, None, "null")

Rows == [status : {"none"} \cup Open \cup Terminal,
         payer : Users \cup {None}, payee : Users \cup {None},
         resolution : {"null", "release", "refund"}]

Events == {"held", "disputed", "released", "refunded", "dispute_resolved"}

Exists(k) == escrow[k].status # "none"

(* outcome, fromStatuses and the terminal status of the callers of settle  *)
Outcome(op) == IF op \in {"release", "resolve_release"} THEN "release" ELSE "refund"
TerminalOf(op) == IF Outcome(op) = "release" THEN "released" ELSE "refunded"
IsResolution(op) == op \in {"resolve_release", "resolve_refund"}
FromStatus(op) == IF IsResolution(op) THEN "disputed" ELSE "held"

RecipientIsPayee(op, k) == escrow[k].payee  \* faulty: a refund pays the payee

Recipient(op, k) == IF Outcome(op) = "release" THEN escrow[k].payee ELSE escrow[k].payer

Call(pc, op, k, user, payee) ==
  [pc |-> pc, op |-> op, key |-> k, user |-> user, payee |-> payee]

Idle == Call("idle", "none", None, None, None)

Calls == [pc : {"idle", "funds", "leg", "commit", "returned"},
          op : {"none", "hold"} \cup Ops,
          key : Keys \cup {None}, user : Users \cup {None}, payee : Users \cup {None}]

Holding(s) == req[s].op = "hold"
Settling(s) == req[s].op \in Ops
At(s, pc) == req[s].pc = pc
Goto(s, pc) == req' = [req EXCEPT ![s].pc = pc]
Leave(s) == req' = [req EXCEPT ![s] = Idle]

(* The on-chain leg comes next on the USDC/Hedera rail, else the           *)
(* transaction does.                                                       *)
LegSkipped(k) == "commit"  \* faulty: the ledger is written without the chain

LegOrCommit(k) == IF k \in OnChain THEN "leg" ELSE "commit"

EscrowTypeOK ==
  /\ LedgerTypeOK
  /\ escrow \in [Keys -> Rows]
  /\ log \in [Keys -> Seq(Events)]
  /\ chainIn \in [Keys -> [Users -> Nat]]
  /\ chainOut \in [Keys -> [Users -> Nat]]
  /\ req \in [Slots -> Calls]

EscrowInit ==
  /\ LedgerInit
  /\ escrow = [k \in Keys |-> NoRow]
  /\ log = [k \in Keys |-> << >>]
  /\ chainIn = [k \in Keys |-> [u \in Users |-> 0]]
  /\ chainOut = [k \in Keys |-> [u \in Users |-> 0]]
  /\ req = [s \in Slots |-> Idle]

-----------------------------------------------------------------------------
(* hold() *)

(* Faulty: a retry goes through the balance check like a first attempt.    *)
HoldCallAfresh(s, payer, payee, k) ==
  /\ At(s, "idle")
  /\ payer # payee
  /\ req' = [req EXCEPT ![s] = Call("funds", "hold", k, payer, payee)]
  /\ UNCHANGED <<journals, bal, escrow, log, chainIn, chainOut>>

(* The look-up of a hold with the same key comes first: it is returned as  *)
(* it is, whoever paid it.                                                 *)
HoldCall(s, payer, payee, k) ==
  /\ At(s, "idle")
  /\ payer # payee
  /\ req' = [req EXCEPT ![s] =
               Call(IF Exists(k) THEN "returned" ELSE "funds", "hold", k, payer, payee)]
  /\ UNCHANGED <<journals, bal, escrow, log, chainIn, chainOut>>

(* The balance pre-check; INSUFFICIENT_FUNDS ends the request.             *)
HoldFunds(s) ==
  /\ Holding(s) /\ At(s, "funds")
  /\ IF bal[req[s].user] >= Amount[req[s].key] THEN Goto(s, LegOrCommit(req[s].key)) ELSE Leave(s)
  /\ UNCHANGED <<journals, bal, escrow, log, chainIn, chainOut>>

(* submitEscrowHoldOnChain: the transfer has a receipt.                    *)
HoldLeg(s) ==
  LET k == req[s].key  u == req[s].user IN
  /\ Holding(s) /\ At(s, "leg")
  /\ chainIn[k][u] < MaxLegs
  /\ chainIn' = [chainIn EXCEPT ![k][u] = @ + 1]
  /\ Goto(s, "commit")
  /\ UNCHANGED <<journals, bal, escrow, log, chainOut>>

(* The transaction: a row with the key wins, then the authoritative        *)
(* balance check, then journal, row and event together.                    *)
HoldDuplicate(s) ==
  /\ Exists(req[s].key)
  /\ Goto(s, "returned")
  /\ UNCHANGED <<journals, bal, escrow, log>>

InsertHold(s) ==
  LET k == req[s].key  payer == req[s].user IN
  /\ PostJournal(<<"escrow:hold", k>>, Move(payer, EscrowAcct, Amount[k]))
  /\ escrow' = [escrow EXCEPT ![k] = Row("held", payer, req[s].payee, "null")]
  /\ log' = [log EXCEPT ![k] = Append(@, "held")]
  /\ Goto(s, "returned")

(* Faulty: the journal is posted before the balance is checked and stays.  *)
HoldRefusedTooLate(s) ==
  LET k == req[s].key IN
  /\ ~Exists(k)
  /\ bal[req[s].user] < Amount[k]
  /\ PostJournal(<<"escrow:hold", k>>, Move(req[s].user, EscrowAcct, Amount[k]))
  /\ Leave(s)
  /\ UNCHANGED <<escrow, log>>

HoldRefused(s) ==
  /\ ~Exists(req[s].key)
  /\ bal[req[s].user] < Amount[req[s].key]
  /\ Leave(s)
  /\ UNCHANGED <<journals, bal, escrow, log>>

(* Faulty: only the pre-check outside the transaction guards the balance.  *)
HoldPostUnchecked(s) == ~Exists(req[s].key) /\ InsertHold(s)

HoldPost(s) ==
  /\ ~Exists(req[s].key)
  /\ bal[req[s].user] >= Amount[req[s].key]
  /\ InsertHold(s)

HoldCommit(s) ==
  /\ Holding(s) /\ At(s, "commit")
  /\ HoldDuplicate(s) \/ HoldRefused(s) \/ HoldPost(s)
  /\ UNCHANGED <<chainIn, chainOut>>

-----------------------------------------------------------------------------
(* settle(), behind release, refund and resolveDispute *)

(* The status is read outside the transaction: already there is a no-op    *)
(* that returns, any status but the caller's is CONFLICT.  Recipient and   *)
(* amount are taken from this read.                                        *)
SettleCall(s, op, k) ==
  /\ At(s, "idle")
  /\ Exists(k)
  /\ \/ /\ escrow[k].status = TerminalOf(op)
        /\ req' = [req EXCEPT ![s] = Call("returned", op, k, Recipient(op, k), None)]
     \/ /\ escrow[k].status = FromStatus(op)
        /\ req' = [req EXCEPT ![s] = Call(LegOrCommit(k), op, k, Recipient(op, k), None)]
  /\ UNCHANGED <<journals, bal, escrow, log, chainIn, chainOut>>

(* submitEscrowSettleOnChain: the transfer has a receipt.                  *)
SettleLeg(s) ==
  LET k == req[s].key  u == req[s].user IN
  /\ Settling(s) /\ At(s, "leg")
  /\ chainOut[k][u] < MaxLegs
  /\ chainOut' = [chainOut EXCEPT ![k][u] = @ + 1]
  /\ Goto(s, "commit")
  /\ UNCHANGED <<journals, bal, escrow, log, chainIn>>

(* The transaction repeats the status test on the row as it is now.        *)
SettleDuplicate(s) ==
  /\ escrow[req[s].key].status = TerminalOf(req[s].op)
  /\ Goto(s, "returned")
  /\ UNCHANGED <<journals, bal, escrow, log>>

SettleRefused(s) ==
  /\ escrow[req[s].key].status \notin {TerminalOf(req[s].op), FromStatus(req[s].op)}
  /\ Leave(s)
  /\ UNCHANGED <<journals, bal, escrow, log>>

PayOut(s) ==
  LET k == req[s].key  op == req[s].op IN
  /\ PostJournal(<<"escrow:settle", k>>, Move(EscrowAcct, req[s].user, Amount[k]))
  /\ escrow' = [escrow EXCEPT ![k] =
                  Row(TerminalOf(op), @.payer, @.payee,
                      IF IsResolution(op) THEN Outcome(op) ELSE "null")]
  /\ log' = [log EXCEPT ![k] =
               Append(@, IF IsResolution(op) THEN "dispute_resolved" ELSE TerminalOf(op))]
  /\ Goto(s, "returned")

(* Faulty: the status read before the on-chain leg is trusted.             *)
SettlePostUnchecked(s) == PayOut(s)

SettlePost(s) ==
  /\ escrow[req[s].key].status = FromStatus(req[s].op)
  /\ PayOut(s)

SettleCommit(s) ==
  /\ Settling(s) /\ At(s, "commit")
  /\ SettleDuplicate(s) \/ SettleRefused(s) \/ SettlePost(s)
  /\ UNCHANGED <<chainIn, chainOut>>

(* Faulty: an escrow can be disputed after it was settled.                 *)
OpenDisputeAny(k) ==
  /\ Exists(k)
  /\ escrow' = [escrow EXCEPT ![k].status = "disputed"]
  /\ log' = [log EXCEPT ![k] = Append(@, "disputed")]
  /\ UNCHANGED <<journals, bal, chainIn, chainOut, req>>

(* openDispute() is one transaction; a disputed escrow is returned as it   *)
(* is, any other status is CONFLICT.                                       *)
OpenDispute(k) ==
  /\ escrow[k].status = "held"
  /\ escrow' = [escrow EXCEPT ![k].status = "disputed"]
  /\ log' = [log EXCEPT ![k] = Append(@, "disputed")]
  /\ UNCHANGED <<journals, bal, chainIn, chainOut, req>>

-----------------------------------------------------------------------------
(* The call returns to the route that made it.                             *)
Respond(s) ==
  /\ At(s, "returned")
  /\ Leave(s)
  /\ UNCHANGED <<journals, bal, escrow, log, chainIn, chainOut>>

(* A call in flight dies: the process stops, the Hedera call throws, or    *)
(* the serializable transaction aborts (db/index.ts does not retry it).    *)
Fail(s) ==
  /\ ~At(s, "idle")
  /\ Leave(s)
  /\ UNCHANGED <<journals, bal, escrow, log, chainIn, chainOut>>

EscrowStep(s) ==
  \/ HoldFunds(s) \/ HoldLeg(s) \/ HoldCommit(s)
  \/ SettleLeg(s) \/ SettleCommit(s)

EscrowNext ==
  \/ \E s \in Slots :
       \/ \E payer, payee \in Users, k \in Keys : HoldCall(s, payer, payee, k)
       \/ \E op \in Ops, k \in Keys : SettleCall(s, op, k)
       \/ EscrowStep(s)
       \/ Respond(s)
       \/ Fail(s)
  \/ \E k \in Keys : OpenDispute(k)

EscrowSpec == EscrowInit /\ [][EscrowNext]_escrowVars

-----------------------------------------------------------------------------
(* Correctness *)

(* Custody is whole: the escrow account holds exactly the open escrows,    *)
(* however releases, refunds and resolutions of one escrow race            *)
(* (escrowService.ts:206-218 posts and updates in one transaction).        *)
PotBacksOpenEscrows ==
  bal[EscrowAcct] = Opening[EscrowAcct]
                    + SumFunctionOnSet(Amount, {k \in Keys : escrow[k].status \in Open})

(* No payer is overdrawn by holds that pass the pre-check side by side:    *)
(* the re-check in the transaction decides (escrowService.ts:138).         *)
NoOverdraft == \A u \in Users : bal[u] >= 0

(* Rows and journals agree: an escrow that exists was paid for by one hold *)
(* journal of its payer; it has a settle journal exactly when its status   *)
(* is terminal, and that journal pays the party the status names.          *)
RowsMatchJournals ==
  \A k \in Keys :
    LET e == escrow[k]  hold == <<"escrow:hold", k>>  settle == <<"escrow:settle", k>> IN
    /\ Posted(hold) <=> Exists(k)
    /\ Exists(k) => journals[hold] = Move(e.payer, EscrowAcct, Amount[k])
    /\ Posted(settle) <=> e.status \in Terminal
    /\ e.status = "released" => journals[settle] = Move(EscrowAcct, e.payee, Amount[k])
    /\ e.status = "refunded" => journals[settle] = Move(EscrowAcct, e.payer, Amount[k])

(* On the Hedera rail the ledger never runs ahead of the chain: a held row *)
(* has an executed leg of its payer, a terminal row an executed leg to the *)
(* party it paid (escrowService.ts:128-133, 191-193).                      *)
LedgerFollowsChain ==
  \A k \in OnChain :
      /\ Exists(k) => chainIn[k][escrow[k].payer] > 0
      /\ escrow[k].status = "released" => chainOut[k][escrow[k].payee] > 0
      /\ escrow[k].status = "refunded" => chainOut[k][escrow[k].payer] > 0

(* escrow_events is the row's history, each transition logged once: a      *)
(* dispute appears if and only if there was one, and nothing follows the   *)
(* event that ended the escrow.  Release is from held alone, as its        *)
(* fromStatuses say (escrowService.ts:229), although the comment above it  *)
(* has "From held or disputed" (:227); a disputed escrow is left by        *)
(* resolveDispute only (:256-258).                                         *)
EventLogTellsStatus ==
  \A k \in Keys :
    LET e == escrow[k] IN
    /\ e.status = "none" => log[k] = << >>
    /\ e.status = "held" => log[k] = <<"held">>
    /\ e.status = "disputed" => log[k] = <<"held", "disputed">>
    /\ e.status \in Terminal /\ e.resolution = "null" => log[k] = <<"held", e.status>>
    /\ e.status \in Terminal /\ e.resolution # "null" =>
         log[k] = <<"held", "disputed", "dispute_resolved">>

(* The layer implements its promise.                                       *)
Promise ==
  INSTANCE EscrowPromise WITH
    Funds <- [u \in Users |-> Opening[u]],
    status <- [k \in Keys |-> escrow[k].status],
    parties <- [k \in {j \in Keys : Exists(j)} |->
                  [payer |-> escrow[k].payer, payee |-> escrow[k].payee]],
    cash <- [u \in Users |-> bal[u]]

ImplementsPromise == Promise!Spec

(* The strengthening that makes the invariants above inductive.            *)
RowsWellFormed ==
  \A k \in Keys :
    /\ ~Exists(k) => escrow[k] = NoRow
    /\ Exists(k) => /\ escrow[k].payer \in Users
                    /\ escrow[k].payee \in Users \ {escrow[k].payer}
    /\ escrow[k].status \in Open => escrow[k].resolution = "null"

CallFits(c) ==
  /\ c.op = "none" <=> c.pc = "idle"
  /\ c.pc # "idle" => c.key \in Keys /\ c.user \in Users
  /\ c.op = "hold" => c.payee \in Users \ {c.user}
  /\ c.op \in Ops => Exists(c.key) /\ c.user = Recipient(c.op, c.key)
  /\ c.key \in OnChain /\ c.pc = "commit" =>
       IF c.op = "hold" THEN chainIn[c.key][c.user] > 0 ELSE chainOut[c.key][c.user] > 0

CallsInOrder == \A s \in Slots : CallFits(req[s])
=============================================================================
