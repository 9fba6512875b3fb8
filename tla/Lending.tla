------------------------------ MODULE Lending ------------------------------
(***************************************************************************)
(* Loans against tokenized holdings, backend/src/services/lendingService.ts*)
(* openLoan, accrueInterest, repay and liquidate.                          *)
(*                                                                         *)
(* Nothing here is a transaction but each journal: an operation reads the  *)
(* row, posts one or two journals, and writes absolute values it computed  *)
(* from what it read.  A loan is identified by its idempotency_key, which  *)
(* the schema makes UNIQUE.                                                *)
(***************************************************************************)
EXTENDS Service, Functions

CONSTANTS
  Loans,         \* idempotency keys of loans
  RepayKeys,     \* idempotency keys of repayments
  RepayLoan,     \* RepayLoan[r]: the loan that r is for
  RepayAmount,   \* RepayAmount[r]: amountMinor
  Borrowed,      \* Borrowed[k]: borrowMinor
  Pledged,       \* Pledged[k]: collateralQtyBase
  Worth,         \* Worth[k]: valueCollateral
  Ceiling,       \* Ceiling[k]: Worth[k] * LENDING_LIQUIDATION_LTV_BPS / 10000
  MaxAccrued,    \* bound: interest that a loan may show
  LoanCash, Holding, Collateral, LoanPool, LoanFee, Sink, Proceeds  \* accounts

ASSUME LendingAssumption ==
  /\ IsFiniteSet(RepayKeys) /\ RepayLoan \in [RepayKeys -> Loans]
  /\ RepayAmount \in [RepayKeys -> Nat \ {0}]
  /\ Borrowed \in [Loans -> Nat \ {0}]
  /\ Pledged \in [Loans -> Nat \ {0}]
  /\ Worth \in [Loans -> Nat]
  /\ Ceiling \in [Loans -> Nat]
  /\ {LoanCash, Holding, Collateral, LoanPool, LoanFee, Sink, Proceeds} \subseteq Accounts
  /\ LoanCash \notin {Holding, Collateral, LoanPool, LoanFee, Sink, Proceeds}

VARIABLE loan  \* loan[k]: the row in loans

lendingVars == <<journals, bal, call, loan>>

LoanStatuses == {"none", "active", "repaid", "liquidated"}

LoanRow(status, principal, accrued) ==
  [status |-> status, principal |-> principal, accrued |-> accrued]

NoLoan == LoanRow("none", 0, 0)

LendingInit ==
  /\ ServiceInit
  /\ loan = [k \in Loans |-> NoLoan]

Least(m, n) == IF m < n THEN m ELSE n

Outstanding(row) == row.principal + row.accrued

-----------------------------------------------------------------------------
(* openLoan: the key, the holding, the journal, the row.                   *)
OpenCall(s, k) ==
  /\ loan[k].status = "none"
  /\ bal[Holding] >= Pledged[k]
  /\ Begin(s, "open", "post", k, None)
  /\ UNCHANGED <<journals, bal, loan>>

OpenPost(s) ==
  LET k == call[s].row IN
  /\ At(s, "open", "post")
  /\ PostJournal(<<"open", k>>,
       Both(Move(Holding, Collateral, Pledged[k]), Move(LoanPool, LoanCash, Borrowed[k])))
  /\ Goto(s, "insert")
  /\ UNCHANGED loan

OpenInsert(s) ==
  LET k == call[s].row IN
  /\ At(s, "open", "insert")
  /\ loan' = [loan EXCEPT ![k] =
       IF @.status = "none" THEN LoanRow("active", Borrowed[k], 0) ELSE @]
  /\ Leave(s)
  /\ UNCHANGED ledgerVars

-----------------------------------------------------------------------------
(* accrueInterest: the interest of some days on the principal that was     *)
(* read, rounded down, added to the interest that was read.                *)
AccrueCall(s, k) ==
  /\ loan[k].status = "active"
  /\ loan[k].accrued < MaxAccrued
  /\ Begin(s, "accrue", "update", k, loan[k])
  /\ UNCHANGED <<journals, bal, loan>>

AccrueUpdate(s) ==
  /\ At(s, "accrue", "update")
  /\ \E interest \in IF call[s].saw.principal > 0 THEN {0, 1} ELSE {0} :
       loan' = [loan EXCEPT ![call[s].row].accrued = call[s].saw.accrued + interest]
  /\ Leave(s)
  /\ UNCHANGED ledgerVars

-----------------------------------------------------------------------------
(* repay: how an amount is divided over the row that was read.             *)
Pay(r, row) == Least(RepayAmount[r], Outstanding(row))

InterestPaid(r, row) == Least(Pay(r, row), row.accrued)

AfterRepay(r, row) ==
  LET interest == InterestPaid(r, row) IN
  LoanRow(row.status, row.principal - (Pay(r, row) - interest), row.accrued - interest)

RepaidInFull(r, row) == Outstanding(AfterRepay(r, row)) = 0

RepayCallAgain(s, r) ==  \* faulty: the journal is not looked up
  LET row == loan[RepayLoan[r]] IN
  /\ row.status = "active"
  /\ bal[LoanCash] >= Pay(r, row)
  /\ Begin(s, "repay", "post", r, row)
  /\ UNCHANGED <<journals, bal, loan>>

(* A journal with the key answers the call.  The balance is read outside   *)
(* of any transaction.                                                     *)
RepayCall(s, r) ==
  LET row == loan[RepayLoan[r]] IN
  /\ row.status = "active"
  /\ ~Posted(<<"repay", r>>)
  /\ bal[LoanCash] >= Pay(r, row)
  /\ Begin(s, "repay", "post", r, row)
  /\ UNCHANGED <<journals, bal, loan>>

RepayPost(s) ==
  LET r == call[s].row
      row == call[s].saw
      interest == InterestPaid(r, row)
  IN
  /\ At(s, "repay", "post")
  /\ PostJournal(<<"repay", r>>,
       Both(Move(LoanCash, LoanPool, Pay(r, row) - interest), Move(LoanCash, LoanFee, interest)))
  /\ Goto(s, IF RepaidInFull(r, row) THEN "release" ELSE "update")
  /\ UNCHANGED loan

RepayRelease(s) ==
  LET k == RepayLoan[call[s].row] IN
  /\ At(s, "repay", "release")
  /\ PostJournal(<<"release", k>>, Move(Collateral, Holding, Pledged[k]))
  /\ Goto(s, "close")
  /\ UNCHANGED loan

RepayClose(s) ==
  /\ At(s, "repay", "close")
  /\ loan' = [loan EXCEPT ![RepayLoan[call[s].row]] = LoanRow("repaid", 0, 0)]
  /\ Leave(s)
  /\ UNCHANGED ledgerVars

RepayUpdate(s) ==
  LET r == call[s].row IN
  /\ At(s, "repay", "update")
  /\ loan' = [loan EXCEPT ![RepayLoan[r]] =
       [AfterRepay(r, call[s].saw) EXCEPT !.status = loan[RepayLoan[r]].status]]
  /\ Leave(s)
  /\ UNCHANGED ledgerVars

-----------------------------------------------------------------------------
(* liquidate: seize the collateral, then divide what its sale brings.      *)
LiquidateCall(s, k) ==
  /\ loan[k].status = "active"
  /\ Outstanding(loan[k]) > Ceiling[k]
  /\ Begin(s, "liquidate", "seize", k, loan[k])
  /\ UNCHANGED <<journals, bal, loan>>

LiquidateSeize(s) ==
  LET k == call[s].row IN
  /\ At(s, "liquidate", "seize")
  /\ PostJournal(<<"seize", k>>, Move(Collateral, Sink, Pledged[k]))
  /\ Goto(s, "settle")
  /\ UNCHANGED loan

LiquidateSettle(s) ==
  LET k == call[s].row
      covered == Least(Outstanding(call[s].saw), Worth[k])
      interest == Least(covered, call[s].saw.accrued)
  IN
  /\ At(s, "liquidate", "settle")
  /\ PostJournal(<<"settle", k>>,
       Both(Move(Proceeds, LoanCash, Worth[k] - covered),
            Both(Move(Proceeds, LoanPool, covered - interest), Move(Proceeds, LoanFee, interest))))
  /\ Goto(s, "close")
  /\ UNCHANGED loan

LiquidateClose(s) ==
  /\ At(s, "liquidate", "close")
  /\ loan' = [loan EXCEPT ![call[s].row] = LoanRow("liquidated", 0, 0)]
  /\ Leave(s)
  /\ UNCHANGED ledgerVars

-----------------------------------------------------------------------------
LendingNext ==
  \E s \in Slots :
    \/ \E k \in Loans : OpenCall(s, k) \/ AccrueCall(s, k) \/ LiquidateCall(s, k)
    \/ \E r \in RepayKeys : RepayCall(s, r)
    \/ OpenPost(s) \/ OpenInsert(s) \/ AccrueUpdate(s)
    \/ RepayPost(s) \/ RepayRelease(s) \/ RepayClose(s) \/ RepayUpdate(s)
    \/ LiquidateSeize(s) \/ LiquidateSettle(s) \/ LiquidateClose(s)
    \/ Dies(s) /\ UNCHANGED loan

LendingSpec == LendingInit /\ [][LendingNext]_lendingVars

-----------------------------------------------------------------------------
(* Correctness *)

(* The cash that the borrower has paid on a loan.                          *)
Repaid(r) == IF Posted(<<"repay", r>>) THEN -journals[<<"repay", r>>][LoanCash] ELSE 0

PaidOn(k) ==
  SumFunctionOnSet([r \in RepayKeys |-> Repaid(r)], {r \in RepayKeys : RepayLoan[r] = k})

(* However repayments, accruals and crashes interleave, and although each  *)
(* overwrites the row with values that may be out of date, an open loan    *)
(* never shows less debt than the money that is missing: what was lent     *)
(* minus what was paid (lendingService.ts:195, 205, 247, 250).             *)
DebtNeverForgiven ==
  \A k \in Loans :
    loan[k].status = "active" => Outstanding(loan[k]) >= Borrowed[k] - PaidOn(k)

(* The collateral goes back to the borrower only when the loan was paid,   *)
(* and a loan is closed only behind the journals that close it             *)
(* (lendingService.ts:234-247, 291-308).                                   *)
LoanClosesPaid ==
  \A k \in Loans :
    /\ Posted(<<"release", k>>) => PaidOn(k) >= Borrowed[k]
    /\ loan[k].status = "repaid" => Posted(<<"release", k>>)
    /\ loan[k].status = "liquidated" => Posted(<<"seize", k>>) /\ Posted(<<"settle", k>>)
    /\ loan[k].status # "none" => Posted(<<"open", k>>)
=============================================================================
