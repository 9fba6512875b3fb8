------------------------------- MODULE Ledger -------------------------------
(***************************************************************************)
(* The double-entry ledger of backend/src/services/ledgerService.ts, as    *)
(* the money services see it from inside one serializable transaction.     *)
(*                                                                         *)
(* journals is the table ledger_journals: the idempotency keys in use,     *)
(* each with the net effect of its ledger_entries on every account         *)
(* (credits minus debits).  bal[a] is what getBalance(a) returns, the sum  *)
(* of a's entries: posting a journal is the only way it changes.           *)
(***************************************************************************)
EXTENDS Integers

CONSTANTS
  Accounts,  \* rows of ledger_accounts that the component uses
  Opening    \* their balance before the component's first journal

ASSUME OpeningAssumption == Opening \in [Accounts -> Int]

VARIABLES journals, bal

ledgerVars == <<journals, bal>>

Effects == [Accounts -> Int]

LedgerTypeOK ==
  /\ journals \in [DOMAIN journals -> Effects]
  /\ bal \in Effects

LedgerInit ==
  /\ journals = [k \in {} |-> Opening]
  /\ bal = Opening

-----------------------------------------------------------------------------
(* The two legs of a simple journal: debit "from", credit "to".            *)
Move(from, to, n) ==
  [a \in Accounts |-> (IF a = to THEN n ELSE 0) - (IF a = from THEN n ELSE 0)]

(* The legs of two simple journals posted as one.                          *)
Both(d, e) == [a \in Accounts |-> d[a] + e[a]]

Posted(key) == key \in DOMAIN journals

(* postJournal: a key already in ledger_journals returns the journal it    *)
(* has; a new one inserts the journal with all its entries.                *)
PostJournal(key, effect) ==
  IF Posted(key)
    THEN UNCHANGED ledgerVars
    ELSE /\ journals' = [k \in DOMAIN journals \cup {key} |->
                           IF k = key THEN effect ELSE journals[k]]
         /\ bal' = Both(bal, effect)
=============================================================================
