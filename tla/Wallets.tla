------------------------------ MODULE Wallets ------------------------------
(***************************************************************************)
(* USDC between users' wallets, backend/src/services/hederaService.ts      *)
(* (transferUsdcOnChain, buildUsdcTransfer, submitUsdcTransfer), and the   *)
(* reconciliation of ledger and chain that gates it,                       *)
(* backend/src/services/reconciliationService.ts.                          *)
(*                                                                         *)
(* A send passes the gate, moves USDC on the chain and then posts its      *)
(* journal; nothing ties the two.  A reconciliation run reads account by   *)
(* account, the ledger first and the chain next, beside the sends.         *)
(***************************************************************************)
EXTENDS Service

CONSTANTS
  Wallets,         \* accounts of hedera_accounts, and the operator's
  Custodian,       \* the operator's account
  Book,            \* the ledger account that reconciles with a wallet
  WalletClearing,  \* external_clearing, USDC
  Sends,           \* idempotency keys
  SendOf,          \* "custodial" (POST /transfer) or "built" (/build and /submit), by send
  SendFrom,        \* the sender's wallet, by send
  SendTo,          \* the receiver's wallet, by send; None: an account outside
  ByUser,          \* the sends that name the receiver by toUserId
  SendMicro,       \* amountMicro, by send
  MaxScans,        \* bound on the reconciliation runs at once
  Payable,         \* users' wallets that may be paid from outside
  MaxWalletLegs,   \* bound on the on-chain transfers of one send
  OtherTransfers   \* what a client may sign and submit in place of what was frozen

ASSUME WalletsAssumption ==
  /\ Custodian \in Wallets
  /\ Book \in [Wallets -> Accounts] /\ WalletClearing \in Accounts
  /\ SendOf \in [Sends -> {"custodial", "built"}]
  /\ SendFrom \in [Sends -> Wallets \ {Custodian}]
  /\ SendTo \in [Sends -> (Wallets \ {Custodian}) \cup {None}]
  /\ ByUser \subseteq {k \in Sends : SendTo[k] # None}
  /\ SendMicro \in [Sends -> Nat \ {0}]
  /\ MaxScans \in Nat /\ MaxWalletLegs \in Nat
  /\ OtherTransfers \subseteq [amount : Nat, to : Wallets \cup {None}]
  /\ Payable \subseteq Wallets \ {Custodian}
  /\ None \notin Wallets
  /\ IsFiniteSet(Sends)
  /\ \A v, w \in Wallets : Book[v] = Book[w] => v = w
  /\ \A w \in Wallets : Book[w] # WalletClearing

VARIABLES
  onChain,    \* the wallets' USDC on the chain
  legs,       \* executed on-chain transfers, by send
  others,     \* history: executed transfers that were not the frozen one, by build
  build,      \* hedera_transfer_builds: "none", "pending", "expired" or "submitted", by send
  answers,    \* sends whose answer idempotency_keys has
  latest,     \* the latest row of reconciliation_runs; the rest are history variables:
              \*   quiet while nothing moved since its scan began, and the
              \*   requests that were past the gate when it was recorded
  strayed,    \* TRUE once a send died behind its leg, or sent another
  deposited   \* wallets that got one unit from outside

walletVars == <<journals, bal, call, onChain, legs, others, build, answers, latest, strayed, deposited>>

WalletsInit ==
  /\ ServiceInit
  /\ onChain = [w \in Wallets |-> Opening[Book[w]]]
  /\ legs = [k \in Sends |-> 0]
  /\ others = [k \in Sends |-> 0]
  /\ build = [k \in Sends |-> "none"]
  /\ answers = {}
  /\ latest = [result |-> "none", quiet |-> FALSE, past |-> {}]
  /\ strayed = FALSE
  /\ deposited = {}

(* A leg or a journal while runs scan: what they saw is of two moments.    *)
Disturb(calls) ==
  /\ latest' = [latest EXCEPT !.quiet = FALSE]
  /\ call' = [s \in Slots |->
                IF calls[s].op = "reconcile" THEN [calls[s] EXCEPT !.saw.quiet = FALSE] ELSE calls[s]]

-----------------------------------------------------------------------------
(* Sends *)

(* isSettlementGated: the latest run alone decides.                        *)
Gated == latest.result = "drift"

(* POST /transfer, and POST /transfer/submit, which returns what it has of *)
(* a submitted build; the middleware replays a stored answer.              *)
SendCall(s, k) ==
  /\ ~Gated
  /\ IF SendOf[k] = "custodial" THEN k \notin answers ELSE build[k] = "pending"
  /\ Begin(s, "send", "leg", k, None)
  /\ UNCHANGED <<journals, bal, onChain, legs, others, build, answers, latest, strayed, deposited>>

(* buildUsdcTransfer: a pending build is returned as it is; an expired one *)
(* keeps its idempotency_key, which is UNIQUE, and is never built again.   *)
Build(k) ==
  /\ SendOf[k] = "built"
  /\ build[k] = "none"
  /\ build' = [build EXCEPT ![k] = "pending"]
  /\ UNCHANGED <<journals, bal, call, onChain, legs, others, answers, latest, strayed, deposited>>

Expire(k) ==
  /\ build[k] = "pending"
  /\ build' = [build EXCEPT ![k] = "expired"]
  /\ UNCHANGED <<journals, bal, call, onChain, legs, others, answers, latest, strayed, deposited>>

(* The network executes a frozen transaction once; a custodial send        *)
(* freezes a new one on each call.                                         *)
OnTheWay(s) == Disturb([call EXCEPT ![s].at = "post"])

Transfer(from, to, amount) ==
  /\ onChain[from] >= amount
  /\ onChain' = [w \in Wallets |->
                   onChain[w] + (IF w = to THEN amount ELSE 0) - (IF w = from THEN amount ELSE 0)]

OnChainTransfer(s) ==
  LET k == call[s].row IN
  /\ At(s, "send", "leg")
  /\ legs[k] < IF SendOf[k] = "built" THEN 1 ELSE MaxWalletLegs
  /\ Transfer(SendFrom[k], SendTo[k], SendMicro[k])
  /\ legs' = [legs EXCEPT ![k] = @ + 1]
  /\ strayed' = (strayed \/ legs[k] > 0)
  /\ OnTheWay(s)
  /\ UNCHANGED <<journals, bal, others, build, answers, deposited>>

(* The bytes that a client submits are executed as they are: nothing       *)
(* compares them with what was frozen, and what is booked is the build.    *)
SubmitOther(s) ==
  LET k == call[s].row IN
  /\ At(s, "send", "leg") /\ SendOf[k] = "built"
  /\ others[k] < MaxWalletLegs
  /\ \E t \in OtherTransfers : Transfer(SendFrom[k], t.to, t.amount)
  /\ others' = [others EXCEPT ![k] = @ + 1]
  /\ OnTheWay(s)
  /\ UNCHANGED <<journals, bal, legs, build, answers, strayed, deposited>>

(* postUsdcTransferJournal: an address is not looked up among the users'.  *)
BookTo(k) == IF k \in ByUser THEN Book[SendTo[k]] ELSE WalletClearing

PostSend(s) ==
  LET k == call[s].row IN
  /\ At(s, "send", "post")
  /\ PostJournal(k, Move(Book[SendFrom[k]], BookTo(k), SendMicro[k]))
  /\ Disturb([call EXCEPT ![s].at = "close"])
  /\ UNCHANGED <<onChain, legs, others, build, answers, strayed, deposited>>

(* The build is marked; the answer of a custodial send is stored.          *)
CloseSend(s) ==
  LET k == call[s].row IN
  /\ At(s, "send", "close")
  /\ IF SendOf[k] = "built"
       THEN build' = [build EXCEPT ![k] = "submitted"] /\ UNCHANGED answers
       ELSE answers' = answers \cup {k} /\ UNCHANGED build
  /\ Leave(s)
  /\ UNCHANGED <<journals, bal, onChain, legs, others, latest, strayed, deposited>>

(* External: a user's wallet gets USDC that no service knows of.           *)
DepositOutside(w) ==
  /\ w \in Payable \ deposited
  /\ deposited' = deposited \cup {w}
  /\ onChain' = [onChain EXCEPT ![w] = @ + 1]
  /\ Disturb(call)
  /\ UNCHANGED <<journals, bal, legs, others, build, answers, strayed>>

-----------------------------------------------------------------------------
(* runReconciliation, by the daily loop, at boot or by an administrator *)

StartScan(s) ==
  /\ Cardinality({t \in Slots : call[t].op = "reconcile"}) < MaxScans
  /\ Begin(s, "reconcile", "ledger", None,
           [left |-> Wallets, ledger |-> 0, drift |-> FALSE, quiet |-> TRUE])
  /\ UNCHANGED <<journals, bal, onChain, legs, others, build, answers, latest, strayed, deposited>>

(* The users' wallets in any order, then the operator's.                   *)
ReadLedger(s) ==
  /\ At(s, "reconcile", "ledger")
  /\ \E w \in call[s].saw.left :
       /\ w = Custodian => call[s].saw.left = {Custodian}
       /\ call' = [call EXCEPT ![s].at = "chain", ![s].row = w, ![s].saw.ledger = bal[Book[w]]]
  /\ UNCHANGED <<journals, bal, onChain, legs, others, build, answers, latest, strayed, deposited>>

(* A user's balances are equal; the operator's covers the escrow account.  *)
Differs(w, ledger) == IF w = Custodian THEN onChain[w] < ledger ELSE onChain[w] # ledger

ReadChain(s) ==
  LET w == call[s].row  left == call[s].saw.left \ {w} IN
  /\ At(s, "reconcile", "chain")
  /\ call' = [call EXCEPT ![s].at = IF left = {} THEN "record" ELSE "ledger",
                          ![s].row = None,
                          ![s].saw.left = left,
                          ![s].saw.ledger = 0,
                          ![s].saw.drift = @ \/ Differs(w, call[s].saw.ledger)]
  /\ UNCHANGED <<journals, bal, onChain, legs, others, build, answers, latest, strayed, deposited>>

Record(s, result) ==
  /\ latest' = [result |-> result,
                quiet |-> result # "error" /\ call[s].saw.quiet,
                past |-> IF result = "drift" THEN {t \in Slots : At(t, "send", "leg")} ELSE {}]
  /\ Leave(s)
  /\ UNCHANGED <<journals, bal, onChain, legs, others, build, answers, strayed, deposited>>

RecordRun(s) ==
  /\ At(s, "reconcile", "record")
  /\ Record(s, IF call[s].saw.drift THEN "drift" ELSE "ok")

(* The mirror node fails: an "error" run, which does not gate.             *)
RunErrs(s) ==
  /\ At(s, "reconcile", "chain")
  /\ Record(s, "error")

SendDies(s) ==
  /\ Dies(s)
  /\ strayed' = (strayed \/ At(s, "send", "post"))
  /\ UNCHANGED <<onChain, legs, others, build, answers, latest, deposited>>

-----------------------------------------------------------------------------
WalletsNext ==
  \/ \E s \in Slots :
       \/ \E k \in Sends : SendCall(s, k)
       \/ OnChainTransfer(s) \/ SubmitOther(s) \/ PostSend(s) \/ CloseSend(s)
       \/ StartScan(s) \/ ReadLedger(s) \/ ReadChain(s) \/ RecordRun(s) \/ RunErrs(s)
       \/ SendDies(s)
  \/ \E k \in Sends : Build(k) \/ Expire(k)
  \/ \E w \in Wallets : DepositOutside(w)

WalletsSpec == WalletsInit /\ [][WalletsNext]_walletVars

-----------------------------------------------------------------------------
(* Correctness *)

(* The ledger runs ahead of the chain for one reason: a journal has an     *)
(* executed transfer, its own but where a client submitted other bytes     *)
(* than those frozen; and a submitted build and a stored answer have their *)
(* journal (hederaService.ts:357-374, 501-534).                            *)
JournalsHaveLegs ==
  \A k \in Sends :
    /\ Posted(k) => legs[k] > 0 \/ others[k] > 0
    /\ others[k] > 0 => SendOf[k] = "built"
    /\ build[k] = "submitted" \/ k \in answers => Posted(k)

(* Drift has a cause: a send between its leg and its journal, one that     *)
(* died there or sent again, other bytes than those frozen, a deposit from *)
(* outside, or a send to a user's wallet by its address, which the ledger  *)
(* books as a payment outside (hederaService.ts:186-206, 357-374, 503).    *)
DriftHasCause ==
  (\E w \in Wallets : Differs(w, bal[Book[w]])) =>
     \/ strayed \/ deposited # {}
     \/ \E s \in Slots : At(s, "send", "post")
     \/ \E k \in Sends : others[k] > 0 \/ (legs[k] > 0 /\ k \notin ByUser /\ SendTo[k] # None)

(* What a run says of ledger and chain is so, as long as nothing moved     *)
(* since it began to read them (reconciliationService.ts:164-220).         *)
RunTellsDrift ==
  latest.quiet =>
    /\ latest.result = "drift" => \E w \in Wallets : Differs(w, bal[Book[w]])
    /\ latest.result = "ok" => \A w \in Wallets : ~Differs(w, bal[Book[w]])

(* Once a run has found drift, only requests that were past the gate by    *)
(* then still move USDC (reconciliationService.ts:223-239,                 *)
(* hederaService.ts:337, 482).                                             *)
GateStopsSends ==
  latest.result = "drift" => \A s \in Slots : At(s, "send", "leg") => s \in latest.past
=============================================================================
