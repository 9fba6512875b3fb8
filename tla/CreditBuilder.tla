--------------------------- MODULE CreditBuilder ---------------------------
(***************************************************************************)
(* A teen's secured card, backend/src/services/creditBuilderService.ts:    *)
(* the account a guardian secures, charges up to the secured limit, the    *)
(* monthly statement, its payment from the guardian's cash and the report  *)
(* to the credit bureau.                                                   *)
(*                                                                         *)
(* Every handler reads the rows first and overwrites them later: a charge  *)
(* writes the balance it computed from what it read, a payment writes 0.   *)
(* A statement is paid under a key that holds the caller's key; the        *)
(* security is moved under the teen's, whatever limit is asked for.        *)
(***************************************************************************)
EXTENDS Service, Functions

CONSTANTS
  Charges,       \* idempotency keys of authorizations
  ChargeAmount,  \* ChargeAmount[k]: amountMinor
  Periods,
  PayKeys,       \* idempotency keys of payments
  SecuredLimits, \* what securedLimitMinor may be
  GuardianCash, GuardianSavings, CreditClearing

ASSUME CreditBuilderAssumption ==
  /\ IsFiniteSet(Charges)
  /\ ChargeAmount \in [Charges -> Nat \ {0}]
  /\ SecuredLimits \subseteq Nat \ {0}
  /\ {GuardianCash, GuardianSavings, CreditClearing} \subseteq Accounts
  /\ Cardinality({GuardianCash, GuardianSavings, CreditClearing}) = 3
  /\ None \notin Int

VARIABLES
  secured,    \* the account: its statement_balance_minor, or None
  limit,      \* and its secured_limit_minor
  opens,      \* history: the limits that openings were asked for
  charged,    \* keys in card_authorizations
  statement,  \* statement[p]: status, and closing_minor as it was closed
  reported    \* periods in credit_bureau_reports

creditVars == <<journals, bal, call, secured, limit, opens, charged, statement, reported>>

CreditInit ==
  /\ ServiceInit
  /\ secured = None
  /\ limit = 0
  /\ opens = {}
  /\ charged = {}
  /\ statement = [p \in Periods |-> [status |-> "none", closing |-> 0]]
  /\ reported = {}

ReadOnly == UNCHANGED <<journals, bal, secured, limit, opens, charged, statement, reported>>

-----------------------------------------------------------------------------
(* openCreditBuilderAccount: the security is moved in a transaction of its *)
(* own; the row is inserted after it (UNIQUE per teen).                    *)
OpenCredit(s, l) ==
  /\ secured = None
  /\ bal[GuardianCash] >= l
  /\ Begin(s, "open-credit", "post", None, l)
  /\ opens' = opens \cup {l}
  /\ UNCHANGED <<journals, bal, secured, limit, charged, statement, reported>>

Security(l) == Move(GuardianCash, GuardianSavings, l)

SecurePost(s) ==
  /\ At(s, "open-credit", "post")
  /\ PostJournal(<<"cb:open">>, Security(call[s].saw))
  /\ Goto(s, "insert")
  /\ UNCHANGED <<secured, limit, opens, charged, statement, reported>>

SecureInsert(s) ==
  /\ At(s, "open-credit", "insert")
  /\ IF secured = None
       THEN secured' = 0 /\ limit' = call[s].saw
       ELSE UNCHANGED <<secured, limit>>
  /\ Leave(s)
  /\ UNCHANGED <<journals, bal, opens, charged, statement, reported>>

-----------------------------------------------------------------------------
(* authorizeCreditBuilder: one transaction inserts the authorization       *)
(* (UNIQUE key, else it aborts) and writes the balance it computed.        *)
Charge(s, k) ==
  /\ secured # None
  /\ k \notin charged
  /\ secured + ChargeAmount[k] <= limit
  /\ Begin(s, "charge", "commit", k, secured)
  /\ ReadOnly

ChargeCommit(s) ==
  LET k == call[s].row IN
  /\ At(s, "charge", "commit")
  /\ IF k \in charged
       THEN UNCHANGED <<secured, charged>>
       ELSE charged' = charged \cup {k} /\ secured' = call[s].saw + ChargeAmount[k]
  /\ Leave(s)
  /\ UNCHANGED <<journals, bal, limit, opens, statement, reported>>

-----------------------------------------------------------------------------
(* closeStatement                                                          *)
CloseStatement(s, p) ==
  /\ secured # None
  /\ statement[p].status = "none"
  /\ Begin(s, "close-statement", "insert", p, secured)
  /\ ReadOnly

StatementInsert(s) ==
  LET p == call[s].row IN
  /\ At(s, "close-statement", "insert")
  /\ statement' = [statement EXCEPT ![p] =
       IF @.status = "none" THEN [status |-> "open", closing |-> call[s].saw] ELSE @]
  /\ Leave(s)
  /\ UNCHANGED <<journals, bal, secured, limit, opens, charged, reported>>

-----------------------------------------------------------------------------
(* autopayStatement: the status and the balance are read; the journal, the *)
(* statement and the account are written one after the other.              *)
Billed(p) == statement[p].closing

Autopay(s, p, key) ==
  /\ statement[p].status = "open"
  /\ bal[GuardianCash] >= Billed(p)
  /\ Begin(s, "autopay", "post", p, key)
  /\ ReadOnly

AutopayPost(s) ==
  LET p == call[s].row IN
  /\ At(s, "autopay", "post")
  /\ IF Billed(p) > 0
       THEN PostJournal(<<"cb:pay", p, call[s].saw>>, Move(GuardianCash, CreditClearing, Billed(p)))
       ELSE UNCHANGED ledgerVars
  /\ Goto(s, "mark")
  /\ UNCHANGED <<secured, limit, opens, charged, statement, reported>>

StatementMark(s, op, status, next) ==
  /\ At(s, op, "mark")
  /\ statement' = [statement EXCEPT ![call[s].row].status = status]
  /\ IF next = "done" THEN Leave(s) ELSE Goto(s, next)
  /\ UNCHANGED <<journals, bal, secured, limit, opens, charged, reported>>

AutopayMark(s) == StatementMark(s, "autopay", "paid", "clear")

AutopayClear(s) ==
  /\ At(s, "autopay", "clear")
  /\ secured' = 0
  /\ Leave(s)
  /\ UNCHANGED <<journals, bal, limit, opens, charged, statement, reported>>

-----------------------------------------------------------------------------
(* reportStatementToBureau: the report is sent and stored, then the      *)
(* statement is marked.                                                  *)
Reportable(p) == statement[p].status = "paid"

ReportStatement(s, p) ==
  /\ Reportable(p)
  /\ Begin(s, "report", "submit", p, None)
  /\ ReadOnly

ReportSubmit(s) ==
  /\ At(s, "report", "submit")
  /\ reported' = reported \cup {call[s].row}
  /\ Goto(s, "mark")
  /\ UNCHANGED <<journals, bal, secured, limit, opens, charged, statement>>

ReportMark(s) == StatementMark(s, "report", "reported", "done")

-----------------------------------------------------------------------------
CreditNext ==
  \E s \in Slots :
    \/ \E l \in SecuredLimits : OpenCredit(s, l)
    \/ SecurePost(s) \/ SecureInsert(s)
    \/ \E k \in Charges : Charge(s, k)
    \/ ChargeCommit(s)
    \/ \E p \in Periods :
         \/ CloseStatement(s, p) \/ ReportStatement(s, p)
         \/ \E key \in PayKeys : Autopay(s, p, key)
    \/ StatementInsert(s)
    \/ AutopayPost(s) \/ AutopayMark(s) \/ AutopayClear(s)
    \/ ReportSubmit(s) \/ ReportMark(s)
    \/ Dies(s) /\ UNCHANGED <<secured, limit, opens, charged, statement, reported>>

CreditSpec == CreditInit /\ [][CreditNext]_creditVars

-----------------------------------------------------------------------------
(* Correctness *)

(* What the bureau is told is true: a statement that says paid, or that    *)
(* was reported as paid, was paid from the guardian's cash, however        *)
(* payments, reports and deaths fall (creditBuilderService.ts:182-208,     *)
(* 224, 238-256).                                                          *)
ReportsArePaid ==
  \A p \in Periods :
    statement[p].status \in {"paid", "reported"} \/ p \in reported =>
      statement[p].closing = 0 \/ \E key \in PayKeys : Posted(<<"cb:pay", p, key>>)

(* The balance may fall behind the charges (each of two charges at once    *)
(* writes its own sum, and a payment writes 0 over later charges), but a   *)
(* teen never owes what was not charged, nor more than the limit; and the  *)
(* limit is what was moved to the guardian's savings, unless openings      *)
(* asked for different limits: the journal's key holds none                *)
(* (creditBuilderService.ts:78-94, 123-139, 210).                          *)
OwedIsCharged ==
  secured # None =>
    /\ secured <= SumFunctionOnSet(ChargeAmount, charged)
    /\ secured <= limit
    /\ \E l \in opens : Posted(<<"cb:open">>) /\ journals[<<"cb:open">>] = Security(l)
    /\ opens = {limit} => journals[<<"cb:open">>] = Security(limit)
=============================================================================
