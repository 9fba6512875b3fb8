----------------------------- MODULE Transfers -----------------------------
(***************************************************************************)
(* Money transfers between users: the route POST /transfer with the        *)
(* idempotency middleware (middleware/idempotency.ts), the orchestration   *)
(* entry point (money/moneyEngine.ts), the durable workflow and its        *)
(* activity (money/moneyWorkflow.ts, moneyActivities.ts) and the ledger    *)
(* transfer itself (services/transferService.ts).                          *)
(*                                                                         *)
(* transfer() runs in an API slot or in a worker, as the attempt of a      *)
(* workflow, and is cut where it awaits.  A request is what a client sends *)
(* and may send again: two requests with one key are that key with two     *)
(* different bodies, or from two users.                                    *)
(***************************************************************************)
EXTENDS Ledger, FiniteSets, Functions

CONSTANTS
  Users, Requests, Keys,
  Sender, Recipient,  \* users, by request
  Amount,             \* amountMinor, by request
  Key,                \* the Idempotency-Key header, by request
  Slots,              \* API requests served at once
  Workers,            \* activities a money worker runs at once
  Temporal,           \* TEMPORAL_MONEY_ENABLED
  MaxAttempts,        \* attempts of one workflow
  MaxTries,           \* bound on the attempts of all workflows of one key
  Suspects,           \* users that fraud remediation may freeze
  None

ASSUME TransfersAssumption ==
  /\ Users \subseteq Accounts
  /\ Sender \in [Requests -> Users] /\ Recipient \in [Requests -> Users]
  /\ \A r \in Requests : Sender[r] # Recipient[r]
  /\ Amount \in [Requests -> Nat \ {0}]
  /\ Key \in [Requests -> Keys]
  /\ \A u \in Users : Opening[u] >= 0
  /\ Slots \cap Workers = {}
  /\ Temporal \in BOOLEAN /\ MaxAttempts \in Nat /\ MaxTries \in Nat
  /\ Suspects \subseteq Users
  /\ None \notin Requests

VARIABLES
  history,    \* history[r]: pairs of rows (transfer_out, transfer_in) of r in transactions
  stored,     \* stored[k][u]: the request whose answer idempotency_keys has for key k of user u
  flow,       \* flow[k]: the workflow money-transfer-<k>
  run,        \* run[x]: what slot or worker x is executing
  frozen,     \* users for whom isAccountFrozen returns true
  confirmed   \* requests whose client has got a 2xx answer

transferVars == <<journals, bal, history, stored, flow, run, frozen, confirmed>>

Runners == Slots \cup Workers

Idle == [pc |-> "idle", request |-> None, try |-> 0]

Runs == [pc : {"idle", "start", "await", "enter", "screen", "commit", "ok", "refused", "store"},
         request : Requests \cup {None}, try : 0..MaxTries]

Flows == [status : {"none", "running", "done", "failed"}, args : Requests \cup {None},
          tries : 0..MaxTries, limit : 0..MaxTries]

At(x, pc) == run[x].pc = pc
Req(x) == run[x].request
Goto(x, pc) == run' = [run EXCEPT ![x].pc = pc]
Leave(x) == run' = [run EXCEPT ![x] = Idle]
FlowOf(x) == flow[Key[Req(x)]]

TransfersTypeOK ==
  /\ LedgerTypeOK
  /\ history \in [Requests -> Nat]
  /\ stored \in [Keys -> [Users -> Requests \cup {None}]]
  /\ flow \in [Keys -> Flows]
  /\ run \in [Runners -> Runs]
  /\ frozen \subseteq Users
  /\ confirmed \subseteq Requests

TransfersInit ==
  /\ LedgerInit
  /\ history = [r \in Requests |-> 0]
  /\ stored = [k \in Keys |-> [u \in Users |-> None]]
  /\ flow = [k \in Keys |-> [status |-> "none", args |-> None, tries |-> 0, limit |-> 0]]
  /\ run = [x \in Runners |-> Idle]
  /\ frozen = {}
  /\ confirmed = {}

-----------------------------------------------------------------------------
(* The middleware: a stored answer to the same body is replayed, one to    *)
(* another body is 409; otherwise the handler runs, through Temporal when  *)
(* that is enabled.                                                        *)
Execute == IF Temporal THEN "start" ELSE "enter"

Receive(s, r) ==
  LET seen == stored[Key[r]][Sender[r]] IN
  /\ At(s, "idle")
  /\ run' = [run EXCEPT ![s] =
               [pc |-> IF seen = None THEN Execute ELSE IF seen = r THEN "ok" ELSE "refused",
                request |-> r, try |-> 0]]
  /\ UNCHANGED <<journals, bal, history, stored, flow, frozen, confirmed>>

(* The answer; a 2xx one is stored when the response has been sent.        *)
Confirm(s) ==
  /\ s \in Slots /\ At(s, "ok")
  /\ confirmed' = confirmed \cup {Req(s)}
  /\ Goto(s, "store")
  /\ UNCHANGED <<journals, bal, history, stored, flow, frozen>>

Refuse(s) ==
  /\ s \in Slots /\ At(s, "refused")
  /\ Leave(s)
  /\ UNCHANGED <<journals, bal, history, stored, flow, frozen, confirmed>>

(* The insert is best effort: that the key is there already is ignored.    *)
Store(s) ==
  LET r == Req(s) IN
  /\ At(s, "store")
  /\ stored' = IF stored[Key[r]][Sender[r]] = None
                 THEN [stored EXCEPT ![Key[r]][Sender[r]] = r] ELSE stored
  /\ Leave(s)
  /\ UNCHANGED <<journals, bal, history, flow, frozen, confirmed>>

-----------------------------------------------------------------------------
(* transfer() *)

(* The freeze comes first, before the key is looked up.                    *)
Enter(x) ==
  /\ At(x, "enter")
  /\ Goto(x, IF Sender[Req(x)] \in frozen THEN "refused" ELSE "screen")
  /\ UNCHANGED <<journals, bal, history, stored, flow, frozen, confirmed>>

(* Only a new transfer that the balance covers is screened, and the screen *)
(* may block it.                                                           *)
Screened(r) == ~Posted(Key[r]) /\ bal[Sender[r]] >= Amount[r]

Screen(x) ==
  /\ At(x, "screen")
  /\ Goto(x, "commit") \/ (Screened(Req(x)) /\ Goto(x, "refused"))
  /\ UNCHANGED <<journals, bal, history, stored, flow, frozen, confirmed>>

Post(x) ==
  LET r == Req(x) IN
  /\ PostJournal(Key[r], Move(Sender[r], Recipient[r], Amount[r]))
  /\ history' = [history EXCEPT ![r] = @ + 1]
  /\ Goto(x, "ok")

(* Faulty: the balance read before the screening is trusted.               *)
CommitUnchecked(x) ==
  /\ At(x, "commit")
  /\ IF Posted(Key[Req(x)]) THEN Goto(x, "ok") /\ UNCHANGED <<journals, bal, history>>
     ELSE Post(x)
  /\ UNCHANGED <<stored, flow, frozen, confirmed>>

(* Faulty: the key is left to postJournal, which returns the old journal.  *)
CommitUnkeyed(x) ==
  /\ At(x, "commit")
  /\ IF bal[Sender[Req(x)]] < Amount[Req(x)]
       THEN Goto(x, "refused") /\ UNCHANGED <<journals, bal, history>>
       ELSE Post(x)
  /\ UNCHANGED <<stored, flow, frozen, confirmed>>

(* Faulty: the balance is checked before the key is looked up.             *)
CommitAfresh(x) ==
  /\ At(x, "commit")
  /\ \/ bal[Sender[Req(x)]] < Amount[Req(x)] /\ Goto(x, "refused") /\ UNCHANGED <<journals, bal, history>>
     \/ /\ bal[Sender[Req(x)]] >= Amount[Req(x)]
        /\ IF Posted(Key[Req(x)]) THEN Goto(x, "ok") /\ UNCHANGED <<journals, bal, history>>
           ELSE Post(x)
  /\ UNCHANGED <<stored, flow, frozen, confirmed>>

(* The transaction: a journal with the key is the answer, whoever posted   *)
(* it; then the authoritative balance check; then journal and rows.        *)
AlreadyPosted(x) ==
  /\ Posted(Key[Req(x)])
  /\ Goto(x, "ok")
  /\ UNCHANGED <<journals, bal, history>>

Unfunded(x) ==
  /\ ~Posted(Key[Req(x)])
  /\ bal[Sender[Req(x)]] < Amount[Req(x)]
  /\ Goto(x, "refused")
  /\ UNCHANGED <<journals, bal, history>>

PostTransfer(x) ==
  /\ ~Posted(Key[Req(x)])
  /\ bal[Sender[Req(x)]] >= Amount[Req(x)]
  /\ Post(x)

Commit(x) ==
  /\ At(x, "commit")
  /\ AlreadyPosted(x) \/ Unfunded(x) \/ PostTransfer(x)
  /\ UNCHANGED <<stored, flow, frozen, confirmed>>

-----------------------------------------------------------------------------
(* Temporal *)

(* A workflow with this id that is running is joined, whatever it was      *)
(* started with; one that has ended may be started again.                  *)
StartFlow(s) ==
  LET k == Key[Req(s)] IN
  /\ At(s, "start")
  /\ \/ flow[k].status = "running" /\ UNCHANGED flow
     \/ /\ flow[k].status # "running"
        /\ flow[k].tries + MaxAttempts <= MaxTries
        /\ flow' = [flow EXCEPT ![k] = [status |-> "running", args |-> Req(s), tries |-> @.tries,
                                        limit |-> @.tries + MaxAttempts]]
  /\ Goto(s, "await")
  /\ UNCHANGED <<journals, bal, history, stored, frozen, confirmed>>

AwaitFlow(s) ==
  /\ At(s, "await")
  /\ \/ FlowOf(s).status = "done" /\ Goto(s, "ok")
     \/ FlowOf(s).status = "failed" /\ Goto(s, "enter")
  /\ UNCHANGED <<journals, bal, history, stored, flow, frozen, confirmed>>

(* The server cannot be reached, or the connection is lost: the transfer   *)
(* runs directly, beside the workflow if there is one.                     *)
Unreachable(s) ==
  /\ At(s, "start")
  /\ Goto(s, "enter")
  /\ UNCHANGED <<journals, bal, history, stored, flow, frozen, confirmed>>

ConnectionLost(s) ==
  /\ At(s, "await")
  /\ Goto(s, "enter")
  /\ UNCHANGED <<journals, bal, history, stored, flow, frozen, confirmed>>

(* The next attempt, when the last one has failed or its 30 seconds are    *)
(* over; a worker goes on with an attempt that has timed out.              *)
Attempt(w, k) ==
  /\ At(w, "idle")
  /\ flow[k].status = "running"
  /\ flow[k].tries < flow[k].limit
  /\ flow' = [flow EXCEPT ![k].tries = @ + 1]
  /\ run' = [run EXCEPT ![w] = [pc |-> "enter", request |-> flow[k].args, try |-> flow[k].tries + 1]]
  /\ UNCHANGED <<journals, bal, history, stored, frozen, confirmed>>

(* Only the latest attempt's result is taken, not an earlier workflow's.   *)
Current(w) ==
  LET f == FlowOf(w) IN
  f.status = "running" /\ run[w].try = f.tries /\ f.tries > f.limit - MaxAttempts
EndFlow(k, st) == flow' = [flow EXCEPT ![k].status = st]

(* Faulty: any end of an attempt completes the workflow.                   *)
ReportAny(w) ==
  /\ w \in Workers
  /\ At(w, "ok") \/ At(w, "refused")
  /\ IF Current(w) THEN EndFlow(Key[Req(w)], "done") ELSE UNCHANGED flow
  /\ Leave(w)
  /\ UNCHANGED <<journals, bal, history, stored, frozen, confirmed>>

Report(w) ==
  /\ w \in Workers
  /\ \/ /\ At(w, "ok")
        /\ IF Current(w) THEN EndFlow(Key[Req(w)], "done") ELSE UNCHANGED flow
     \/ At(w, "refused") /\ UNCHANGED flow
  /\ Leave(w)
  /\ UNCHANGED <<journals, bal, history, stored, frozen, confirmed>>

GiveUp(k) ==
  /\ flow[k].status = "running"
  /\ flow[k].tries = flow[k].limit
  /\ EndFlow(k, "failed")
  /\ UNCHANGED <<journals, bal, history, stored, run, frozen, confirmed>>

-----------------------------------------------------------------------------
(* A process dies, a connection drops or a transaction aborts.             *)
Fail(x) ==
  /\ ~At(x, "idle")
  /\ Leave(x)
  /\ UNCHANGED <<journals, bal, history, stored, flow, frozen, confirmed>>

FreezeOrRelease(u) ==
  /\ frozen' = IF u \in frozen THEN frozen \ {u} ELSE frozen \cup {u}
  /\ UNCHANGED <<journals, bal, history, stored, flow, run, confirmed>>

Transfer(x) == Enter(x) \/ Screen(x) \/ Commit(x)

Serve(s) ==
  \/ Confirm(s) \/ Refuse(s) \/ Store(s)
  \/ StartFlow(s) \/ AwaitFlow(s) \/ Unreachable(s)
  \/ Transfer(s)

Work(w) == Transfer(w) \/ Report(w)

TransfersNext ==
  \/ \E s \in Slots : (\E r \in Requests : Receive(s, r)) \/ Serve(s) \/ ConnectionLost(s)
  \/ \E w \in Workers : (\E k \in Keys : Attempt(w, k)) \/ Work(w)
  \/ \E k \in Keys : GiveUp(k)
  \/ \E x \in Runners : Fail(x)
  \/ \E u \in Suspects : FreezeOrRelease(u)

TransfersSpec == TransfersInit /\ [][TransfersNext]_transferVars

(* Fairness: the event loop serves a request it has taken, workers work    *)
(* and Temporal gives a workflow its attempts, a client that has no answer *)
(* to a transfer that was posted asks again, and in the end requests stop  *)
(* dying.  Workers may die for ever, and freezes need not end.             *)
Asks(r) == \E s \in Slots : Posted(Key[r]) /\ r \notin confirmed /\ Receive(s, r)
Dies(s) == run[s].pc \notin {"idle", "refused", "store"} /\ run'[s] = Idle

FairTransfersSpec ==
  /\ TransfersSpec
  /\ \A s \in Slots : WF_transferVars(Serve(s))
  /\ \A w \in Workers : WF_transferVars(Work(w))
  /\ \A k \in Keys :
       WF_transferVars(\E w \in Workers : Attempt(w, k)) /\ WF_transferVars(GiveUp(k))
  /\ \A r \in Requests : SF_transferVars(Asks(r))
  /\ <>[][\A s \in Slots : ~Dies(s)]_transferVars

-----------------------------------------------------------------------------
(* Correctness *)

(* Transfers of one sender that pass the pre-check side by side, in slots, *)
(* attempts and zombie attempts, do not overdraw (transferService.ts:108). *)
NoUserOverdrawn == \A u \in Users : bal[u] >= 0

KeyUnshared(r) == \A q \in Requests : Key[q] = Key[r] => q = r

Made(r) == Posted(Key[r]) /\ journals[Key[r]] = Move(Sender[r], Recipient[r], Amount[r])

(* A 2xx answer, fresh, replayed or out of a workflow, means that the      *)
(* money moved, if the client keeps the rule of one body per key           *)
(* (idempotency.ts:4-8, moneyEngine.ts:4-10).                              *)
AnswersTellTruth ==
  \A r \in Requests :
    KeyUnshared(r) =>
      /\ \A x \in Runners : Req(x) = r /\ run[x].pc \in {"ok", "store"} => Made(r)
      /\ stored[Key[r]][Sender[r]] = r => Made(r)
      /\ flow[Key[r]].status = "done" => Made(r)
      /\ r \in confirmed => Made(r)

(* The customers' history explains their cash: a pair of rows for every    *)
(* journal and no other, however often a transfer is retried               *)
(* (transferService.ts:96-104, 127-136).                                   *)
Signed(u) ==
  [r \in Requests |-> history[r] * ((IF Recipient[r] = u THEN Amount[r] ELSE 0)
                                    - (IF Sender[r] = u THEN Amount[r] ELSE 0))]

Recorded == {r \in Requests : history[r] > 0}

HistoryExplainsCash ==
  \A u \in Users : bal[u] = Opening[u] + SumFunctionOnSet(Signed(u), Recorded)

(* "This makes retries safe" (idempotency.ts:7): a client that retries a   *)
(* transfer that was posted is told of its success in the end, although    *)
(* the money it needs is gone and the stored answer may be lost, unless    *)
(* another body has the key or the sender is frozen meanwhile.             *)
PostedIsConfirmed ==
  \A r \in Requests :
    KeyUnshared(r) =>
      (Posted(Key[r]) ~> r \in confirmed \/ Sender[r] \in frozen)

(* The strengthening that makes NoUserOverdrawn and AnswersTellTruth       *)
(* inductive: whatever stands for a success has a journal under its key,   *)
(* and a journal is the transfer of exactly one request with that key.     *)
RunsInOrder ==
  \A x \in Runners :
    /\ ~At(x, "idle") => Req(x) \in Requests
    /\ At(x, "ok") \/ At(x, "store") => Posted(Key[Req(x)])

FlowsInOrder ==
  \A k \in Keys :
    /\ flow[k].status = "running" => flow[k].args \in Requests
    /\ flow[k].status = "done" => Posted(k)

AnswersInOrder ==
  \A r \in Requests :
    r \in confirmed \/ stored[Key[r]][Sender[r]] = r => Posted(Key[r])

MadeFor(r) ==
  /\ Made(r)
  /\ history[r] = 1
  /\ \A q \in Requests \ {r} : Key[q] = Key[r] => history[q] = 0

HistoryMatchesJournals ==
  \A k \in Keys :
    IF Posted(k) THEN \E r \in Requests : Key[r] = k /\ MadeFor(r)
    ELSE \A r \in Requests : Key[r] = k => history[r] = 0
=============================================================================
