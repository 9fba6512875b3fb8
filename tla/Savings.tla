------------------------------ MODULE Savings -------------------------------
(***************************************************************************)
(* Savings: backend/src/services/savingsGoalService.ts (a teen's, with a   *)
(* goal and a guardian's match), savingsProductService.ts (borderless) and *)
(* the interest on both, interestAccrualService.ts.                        *)
(*                                                                         *)
(* Nothing is a transaction but each journal.  A deposit of a teen is the  *)
(* journal, the goal's row read and written, and the guardian's match; the *)
(* answer is stored under its key only when all of that succeeded, and a   *)
(* request whose answer is not stored may be sent again.  One table, by    *)
(* user and period, keeps both products from paying interest twice.        *)
(***************************************************************************)
EXTENDS Service

CONSTANTS
  Saves,        \* idempotency keys
  SaveOp,       \* SaveOp[k]: "deposit" or "withdraw"
  Product,      \* Product[k]: "starter" or "borderless"
  SaveMinor,    \* amountMinor of each
  MatchDivisor, \* 10000 / guardian_match_bps
  Days,         \* periods
  DailyDivisor, \* 10000 * 365 / apy_bps
  MaxAllocated, \* bound of the checker: deposits are sent while the goal shows less
  SaverCash, Pot,      \* accounts by product
  GuardianPurse, InterestSource

Products == {"starter", "borderless"}

ASSUME SavingsAssumption ==
  /\ IsFiniteSet(Saves)
  /\ SaveOp \in [Saves -> {"deposit", "withdraw"}] /\ Product \in [Saves -> Products]
  /\ {SaveMinor, MatchDivisor, DailyDivisor, MaxAllocated} \subseteq Nat \ {0}
  /\ SaverCash \in [Products -> Accounts] /\ Pot \in [Products -> Accounts]
  /\ {GuardianPurse, InterestSource} \subseteq Accounts
  /\ \A p \in Products : Pot[p] # InterestSource
  /\ None \notin Products \X Nat

VARIABLES
  allocated,  \* allocated_minor of the teen's goal
  locked,     \* savings_locked
  answered,   \* keys with a stored answer
  accrual,    \* accrual[d]: <<product, accrued_minor>> of the row in interest_accruals, or None
  uneven      \* "deposit", "interest": some overlapped, died or was refused; a history variable

savingsVars == <<journals, bal, call, allocated, locked, answered, accrual, uneven>>

SavingsInit ==
  /\ ServiceInit
  /\ allocated = 0
  /\ locked = TRUE
  /\ answered = {}
  /\ accrual = [d \in Days |-> None]
  /\ uneven = {}

(* Requests that overlap on one row: a goal's, or a day's.                 *)
Beside(ops) == \E t \in Slots : call[t].op \in ops

-----------------------------------------------------------------------------
(* depositToSavings of both services.                                      *)
DepositCall(s, k) ==
  /\ SaveOp[k] = "deposit" /\ k \notin answered
  /\ bal[SaverCash[Product[k]]] >= SaveMinor
  /\ allocated < MaxAllocated
  /\ Begin(s, "deposit", "post", k, None)
  /\ uneven' = IF Beside({"deposit"}) THEN uneven \cup {"deposit"} ELSE uneven
  /\ UNCHANGED <<journals, bal, allocated, locked, answered, accrual>>

DepositPost(s) ==
  LET k == call[s].row IN
  /\ At(s, "deposit", "post")
  /\ PostJournal(<<"deposit", k>>, Move(SaverCash[Product[k]], Pot[Product[k]], SaveMinor))
  /\ Goto(s, IF Product[k] = "starter" THEN "goal" ELSE "answer")
  /\ UNCHANGED <<allocated, locked, answered, accrual, uneven>>

GoalRead(s) ==
  /\ At(s, "deposit", "goal")
  /\ Seeing(s, "allocate", allocated)
  /\ UNCHANGED <<journals, bal, allocated, locked, answered, accrual, uneven>>

GoalWrite(s) ==
  /\ At(s, "deposit", "allocate")
  /\ allocated' = call[s].saw + SaveMinor
  /\ Seeing(s, "match", None)
  /\ UNCHANGED <<journals, bal, locked, answered, accrual, uneven>>

(* applyGuardianMatch: a guardian without the money fails the request that *)
(* has moved the teen's already.                                           *)
Match == SaveMinor \div MatchDivisor

GuardianRead(s) ==
  /\ At(s, "deposit", "match")
  /\ IF Match = 0 \/ bal[GuardianPurse] >= Match
       THEN Goto(s, "match-post") /\ UNCHANGED uneven
       ELSE Leave(s) /\ uneven' = uneven \cup {"deposit"}
  /\ UNCHANGED <<journals, bal, allocated, locked, answered, accrual>>

GuardianPost(s) ==
  /\ At(s, "deposit", "match-post")
  /\ IF Match = 0 THEN UNCHANGED ledgerVars
                  ELSE PostJournal(<<"match", call[s].row>>, Move(GuardianPurse, Pot["starter"], Match))
  /\ Goto(s, "answer")
  /\ UNCHANGED <<allocated, locked, answered, accrual, uneven>>

(* withdrawFromSavings of both services; the lock is the teen's only.      *)
WithdrawCall(s, k) ==
  /\ SaveOp[k] = "withdraw" /\ k \notin answered
  /\ Product[k] = "starter" => ~locked
  /\ bal[Pot[Product[k]]] >= SaveMinor
  /\ Begin(s, "withdraw", "post", k, None)
  /\ UNCHANGED <<journals, bal, allocated, locked, answered, accrual, uneven>>

WithdrawPost(s) ==
  LET k == call[s].row IN
  /\ At(s, "withdraw", "post")
  /\ PostJournal(<<"withdraw", k>>, Move(Pot[Product[k]], SaverCash[Product[k]], SaveMinor))
  /\ Goto(s, "answer")
  /\ UNCHANGED <<allocated, locked, answered, accrual, uneven>>

SaveAnswer(s) ==
  /\ call[s].op \in {"deposit", "withdraw"} /\ call[s].at = "answer"
  /\ answered' = answered \cup {call[s].row}
  /\ Leave(s)
  /\ UNCHANGED <<journals, bal, allocated, locked, accrual, uneven>>

UpdateSavingsSettings ==
  /\ locked' = ~locked
  /\ UNCHANGED <<journals, bal, call, allocated, answered, accrual, uneven>>

-----------------------------------------------------------------------------
(* accrueDaily and accrueBorderlessDaily: the day's row, the balance, the  *)
(* journal under a key of the product, the row, unique by user and period. *)
Interest(p) == bal[Pot[p]] \div DailyDivisor

AccrueDay(s, p, d) ==
  /\ accrual[d] = None
  /\ Interest(p) > 0
  /\ Begin(s, p, "post", d, Interest(p))
  /\ uneven' = IF Beside(Products) THEN uneven \cup {"interest"} ELSE uneven
  /\ UNCHANGED <<journals, bal, allocated, locked, answered, accrual>>

InterestPost(s) ==
  LET p == call[s].op IN
  /\ p \in Products /\ call[s].at = "post"
  /\ PostJournal(<<p, call[s].row>>, Move(InterestSource, Pot[p], call[s].saw))
  /\ Goto(s, "row")
  /\ UNCHANGED <<allocated, locked, answered, accrual, uneven>>

InterestRow(s) ==
  LET d == call[s].row IN
  /\ call[s].op \in Products /\ call[s].at = "row"
  /\ accrual' = IF accrual[d] = None
                  THEN [accrual EXCEPT ![d] = <<call[s].op, call[s].saw>>] ELSE accrual
  /\ Leave(s)
  /\ UNCHANGED <<journals, bal, allocated, locked, answered, uneven>>

-----------------------------------------------------------------------------
SavingsNext ==
  \/ UpdateSavingsSettings
  \/ \E s \in Slots :
       \/ \E k \in Saves : DepositCall(s, k) \/ WithdrawCall(s, k)
       \/ \E p \in Products, d \in Days : AccrueDay(s, p, d)
       \/ DepositPost(s) \/ GoalRead(s) \/ GoalWrite(s) \/ GuardianRead(s) \/ GuardianPost(s)
       \/ WithdrawPost(s) \/ SaveAnswer(s) \/ InterestPost(s) \/ InterestRow(s)
       \/ /\ Dies(s)
          /\ uneven' = uneven \cup (CASE call[s].op = "deposit" -> {"deposit"}
                                    [] call[s].op \in Products -> {"interest"}
                                    [] OTHER -> {})
          /\ UNCHANGED <<allocated, locked, answered, accrual>>

SavingsSpec == SavingsInit /\ [][SavingsNext]_savingsVars

-----------------------------------------------------------------------------
(* Correctness *)

(* A goal shows what was saved into it, as long as no deposit overlapped,  *)
(* died or was refused its match (each of which lets it be lost, or added  *)
(* again by the retry); an answered deposit is saved and matched           *)
(* (savingsGoalService.ts:119-137, 186-206, routes/starter.ts:253-259).    *)
GoalTellsSavings ==
  LET into == {k \in Saves : SaveOp[k] = "deposit" /\ Product[k] = "starter"}
      adding == {k \in into : \E s \in Slots : /\ call[s].row = k /\ call[s].op = "deposit"
                                                /\ call[s].at \in {"goal", "allocate"}} IN
  /\ "deposit" \notin uneven =>
       allocated = SaveMinor * Cardinality({k \in into \ adding : Posted(<<"deposit", k>>)})
  /\ \A k \in into \cap answered :
       Posted(<<"deposit", k>>) /\ (Match > 0 => Posted(<<"match", k>>))

(* Interest for a day is paid by one of the products only, and its row has *)
(* the amount that was paid, unless accruals of the day overlapped or died *)
(* (interestAccrualService.ts:45-76, savingsProductService.ts:114-139).    *)
InterestOncePerDay ==
  \A d \in Days :
    /\ accrual[d] # None => Posted(<<accrual[d][1], d>>)
    /\ "interest" \notin uneven =>
         /\ Cardinality({p \in Products : Posted(<<p, d>>)}) <= 1
         /\ accrual[d] # None =>
              journals[<<accrual[d][1], d>>][Pot[accrual[d][1]]] = accrual[d][2]
=============================================================================
