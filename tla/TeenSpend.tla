----------------------------- MODULE TeenSpend -----------------------------
(***************************************************************************)
(* A teen's debit card: the spend gate and the guardian's approvals,       *)
(* backend/src/services/teenSpendService.ts, around the authorization of   *)
(* cardService.ts and the round-up of savingsGoalService.ts that it calls. *)
(*                                                                         *)
(* The gate reads the policy and what was spent; over the limit it queues  *)
(* a review, and a guardian's approval authorizes without the gate.  The   *)
(* round-up runs inside the authorization's transaction but on another     *)
(* connection: it does not see the hold, and stays when the hold does not. *)
(* One period and one limit stand for the three; blocked merchants and     *)
(* screening only refuse.                                                  *)
(***************************************************************************)
EXTENDS Service, Functions

CONSTANTS
  Buys,       \* idempotency keys of purchases
  BuyAmount,  \* BuyAmount[k]: amountMinor
  SpareChange,  \* SpareChange[k]: what rounds it up
  SpendLimit, \* the limit of the policy
  TeenCash, TeenHolds, TeenSavings

ASSUME TeenSpendAssumption ==
  /\ IsFiniteSet(Buys)
  /\ BuyAmount \in [Buys -> Nat \ {0}] /\ SpareChange \in [Buys -> Nat]
  /\ SpendLimit \in Nat
  /\ {TeenCash, TeenHolds, TeenSavings} \subseteq Accounts
  /\ Cardinality({TeenCash, TeenHolds, TeenSavings}) = 3
  /\ Opening[TeenCash] >= 0

VARIABLES
  allowed,  \* allowed[k]: who let k pass, of the row in card_authorizations, or "none"
  asked     \* asked[k]: review's and request's status, or "none"

teenVars == <<journals, bal, call, allowed, asked>>

TeenSpendInit ==
  /\ ServiceInit
  /\ allowed = [k \in Buys |-> "none"]
  /\ asked = [k \in Buys |-> [review |-> "none", request |-> "none"]]

Sum(K) == SumFunctionOnSet(BuyAmount, K)

AllowedBy(who) == {k \in Buys : allowed[k] \in who}

-----------------------------------------------------------------------------
(* authorize: assertTeenSpendAllowed comes before the look-up of the key.  *)
OverLimitSingly(k) == BuyAmount[k] > SpendLimit  \* faulty: earlier spending is not added

OverLimit(k) == Sum(AllowedBy({"gate", "guardian"})) + BuyAmount[k] > SpendLimit

TeenCall(s, k) ==
  /\ \/ ~OverLimit(k) /\ Begin(s, "buy", "authorize", k, "gate")
     \/ OverLimit(k) /\ asked[k].request = "approved" /\ Begin(s, "buy", "authorize", k, "guardian")
     \/ OverLimit(k) /\ asked[k].request = "none" /\ Begin(s, "buy", "ask", k, None)
  /\ UNCHANGED <<journals, bal, allowed, asked>>

(* One transaction inserts the review and the request (UNIQUE key).        *)
TeenAsk(s) ==
  LET k == call[s].row IN
  /\ At(s, "buy", "ask")
  /\ asked' = [asked EXCEPT ![k] =
       IF @.request = "none" THEN [review |-> "pending", request |-> "pending"] ELSE @]
  /\ Leave(s)
  /\ UNCHANGED <<journals, bal, allowed>>

(* The key; then the transaction: balance, hold, row, and the round-up,    *)
(* which reads the balance without the hold.  It may commit alone.         *)
Authorizing(s) == call[s].op \in {"buy", "guardian"} /\ call[s].at = "authorize"

After(s) == IF call[s].op = "guardian" THEN Goto(s, "approve-review") ELSE Leave(s)

Known(s) ==
  /\ Authorizing(s) /\ allowed[call[s].row] # "none"
  /\ After(s)
  /\ UNCHANGED <<journals, bal, allowed, asked>>

HoldOf(k) == Move(TeenCash, TeenHolds, BuyAmount[k])
ChangeOf(k) == Move(TeenCash, TeenSavings, SpareChange[k])

(* depositToSavings has a key of its own, posted by its own transaction.   *)
PostBoth(k, hold, change) ==
  LET holds == hold /\ ~Posted(<<"hold", k>>)
      rounds == change /\ ~Posted(<<"round-up", k>>)
      new == {x \in {<<"hold", k>>, <<"round-up", k>>} : IF x[1] = "hold" THEN holds ELSE rounds}
  IN
  /\ journals' = [x \in DOMAIN journals \cup new |->
                    IF x \notin new THEN journals[x]
                    ELSE IF x[1] = "hold" THEN HoldOf(k) ELSE ChangeOf(k)]
  /\ bal' = [a \in Accounts |-> bal[a] + (IF holds THEN HoldOf(k)[a] ELSE 0)
                                       + (IF rounds THEN ChangeOf(k)[a] ELSE 0)]

Covers(k) == bal[TeenCash] >= BuyAmount[k]

TeenAuthorize(s, commits) ==
  LET k == call[s].row IN
  /\ Authorizing(s) /\ allowed[k] = "none"
  /\ Covers(k)
  /\ PostBoth(k, commits, SpareChange[k] > 0 /\ bal[TeenCash] >= SpareChange[k])
  /\ allowed' = [allowed EXCEPT ![k] =
       IF commits THEN (IF call[s].op = "guardian" THEN "guardian" ELSE call[s].saw) ELSE @]
  /\ IF commits THEN After(s) ELSE Leave(s)
  /\ UNCHANGED asked

-----------------------------------------------------------------------------
(* resolveGuardianReview: the review is read; an approval authorizes, then *)
(* both rows are overwritten, the review first.                            *)
GuardianCall(s, k, decision) ==
  /\ asked[k].review = "pending"
  /\ Begin(s, decision, IF decision = "guardian" THEN "authorize" ELSE "deny-review", k, None)
  /\ UNCHANGED <<journals, bal, allowed, asked>>

ReviewWrite(s, at, field, status, next) ==
  /\ call[s].op \in {"guardian", "deny"} /\ call[s].at = at
  /\ asked' = [asked EXCEPT ![call[s].row] =
       IF field = "review" THEN [@ EXCEPT !.review = status] ELSE [@ EXCEPT !.request = status]]
  /\ IF next = "done" THEN Leave(s) ELSE Goto(s, next)
  /\ UNCHANGED <<journals, bal, allowed>>

ApproveReview(s) == ReviewWrite(s, "approve-review", "review", "approved", "approve-request")
ApproveRequest(s) == ReviewWrite(s, "approve-request", "request", "approved", "done")
DenyReview(s) == ReviewWrite(s, "deny-review", "review", "rejected", "deny-request")
DenyRequest(s) == ReviewWrite(s, "deny-request", "request", "denied", "done")

-----------------------------------------------------------------------------
TeenSpendNext ==
  \E s \in Slots :
    \/ \E k \in Buys : TeenCall(s, k) \/ \E d \in {"guardian", "deny"} : GuardianCall(s, k, d)
    \/ TeenAsk(s) \/ Known(s) \/ \E commits \in BOOLEAN : TeenAuthorize(s, commits)
    \/ ApproveReview(s) \/ ApproveRequest(s) \/ DenyReview(s) \/ DenyRequest(s)
    \/ Dies(s) /\ UNCHANGED <<allowed, asked>>

TeenSpendSpec == TeenSpendInit /\ [][TeenSpendNext]_teenVars

-----------------------------------------------------------------------------
(* Correctness *)

(* What passed without the guardian exceeds the limit by no more than the  *)
(* purchases that were let through at the same time; nothing above the     *)
(* limit by itself passes without him; a request that says approved was    *)
(* authorized; and each authorization has its hold                         *)
(* (teenSpendService.ts:197-206, 229-248, 384-402).                        *)
AllowanceHolds ==
  LET ungated == AllowedBy({"gate"}) IN
  /\ Sum(ungated) <= Cardinality(Slots) * SpendLimit
  /\ \A k \in ungated : BuyAmount[k] <= SpendLimit
  /\ \A k \in Buys :
       /\ asked[k].request = "approved" => allowed[k] # "none"
       /\ allowed[k] # "none" <=> Posted(<<"hold", k>>)

(* The cash falls short by no more than the change that was rounded up     *)
(* beside the holds (cardService.ts:153, 177, savingsGoalService.ts:221).  *)
TeenShortByRoundUps ==
  bal[TeenCash]
    + SumFunctionOnSet(SpareChange, {k \in Buys : Posted(<<"round-up", k>>)}) >= 0
=============================================================================
