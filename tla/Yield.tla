------------------------------- MODULE Yield --------------------------------
(***************************************************************************)
(* Assets that pay their holders: backend/src/services/treasuryService.ts  *)
(* over corporateActionService.ts, and tokenizedDepositService.ts.         *)
(*                                                                         *)
(* A distribution lists the holders, reads their balances one by one, and  *)
(* then pays them one by one, each under a key of the action and holder.   *)
(* Units change hands meanwhile.  A subscription and a redemption check    *)
(* the balance and post; only a deposit's redemption is a transaction.     *)
(***************************************************************************)
EXTENDS Service

CONSTANTS
  UnitHolders,       \* user ids
  HolderUnits, HolderCash,  \* their accounts in the asset and in cash
  Actions,       \* ids of corporate actions
  PerUnit,       \* amount_per_unit_minor
  ParMinor,      \* PAR_MINOR
  Subscriptions, \* idempotency keys
  SubscriptionOf,\* SubscriptionOf[k]: <<"subscribe" or "redeem", holder, qtyBase>>
  LargestQty,    \* no qtyBase is larger
  YieldSource, SubSink, TokenSupply,
  Redemptions,   \* idempotency keys of redemptions of a tokenized deposit
  RedeemMinor,   \* amountMinor of each
  DepositCash, DepositClearing  \* in USDD, a currency of its own

UnitAccounts == {HolderUnits[h] : h \in UnitHolders}
CashAccounts == {HolderCash[h] : h \in UnitHolders}

ASSUME YieldAssumption ==
  /\ HolderUnits \in [UnitHolders -> Accounts] /\ HolderCash \in [UnitHolders -> Accounts]
  /\ PerUnit \in Nat \ {0} /\ ParMinor \in Nat \ {0} /\ RedeemMinor \in Nat \ {0}
  /\ SubscriptionOf \in [Subscriptions -> {"subscribe", "redeem"} \X UnitHolders \X (1..LargestQty)]
  /\ LargestQty \in Nat
  /\ {YieldSource, SubSink, TokenSupply, DepositCash, DepositClearing} \subseteq Accounts
  /\ YieldSource \notin CashAccounts
  /\ UnitAccounts \cap (CashAccounts \cup {YieldSource, SubSink, TokenSupply, DepositClearing}) = {}
  /\ DepositCash \notin UnitAccounts \cup CashAccounts
                         \cup {YieldSource, SubSink, TokenSupply, DepositClearing}
  /\ Opening[DepositCash] >= 0 /\ \A a \in UnitAccounts : Opening[a] >= 0

VARIABLES
  declared,  \* rows in corporate_actions
  accrued,   \* rows in treasury_accruals: the corporate_action_id of each
  held       \* held[a][h]: what h has held since a was declared, a history variable

yieldVars == <<journals, bal, call, declared, accrued, held>>

NotYet == [h \in UnitHolders |-> {}]

YieldInit ==
  /\ ServiceInit
  /\ declared = {}
  /\ accrued = {}
  /\ held = [a \in Actions |-> NotYet]

HeldNow(h) == bal[HolderUnits[h]]

(* Units move: every action that is declared sees what is held now.        *)
Moved ==
  held' = [a \in Actions |->
             IF a \in declared
               THEN [h \in UnitHolders |-> held[a][h] \cup {bal'[HolderUnits[h]]}]
               ELSE held[a]]

-----------------------------------------------------------------------------
Unread == [h \in UnitHolders |-> 0]

(* declareCorporateAction, by an administrator or by accrueYield, which    *)
(* goes on to distribute.                                                  *)
Declare(s, a, op) ==
  /\ a \notin declared
  /\ declared' = declared \cup {a}
  /\ held' = [held EXCEPT ![a] = [h \in UnitHolders |-> {HeldNow(h)}]]
  /\ IF op = "accrue" THEN Begin(s, op, "read", a, <<UnitHolders, Unread>>) ELSE UNCHANGED call
  /\ UNCHANGED <<journals, bal, accrued>>

(* distributeDividend, which may be run again.  saw is who is still to be  *)
(* read, or paid, and what each one held when it was read.                 *)
Distribute(s, a) ==
  /\ a \in declared
  /\ Begin(s, "distribute", "read", a, <<UnitHolders, Unread>>)
  /\ UNCHANGED <<journals, bal, declared, accrued, held>>

Distributing(s, at) == call[s].op \in {"accrue", "distribute"} /\ call[s].at = at

ReadHolder(s) ==
  LET left == call[s].saw[1]  read == call[s].saw[2] IN
  /\ Distributing(s, "read")
  /\ IF left = {}
       THEN Seeing(s, "pay", <<{h \in UnitHolders : read[h] > 0}, read>>)
       ELSE \E h \in left : Seeing(s, "read", <<left \ {h}, [read EXCEPT ![h] = HeldNow(h)]>>)
  /\ UNCHANGED <<journals, bal, declared, accrued, held>>

Payout(s, h) == call[s].saw[2][h] * PerUnit

PayHolder(s) ==
  /\ Distributing(s, "pay")
  /\ \E h \in call[s].saw[1] :
       /\ PostJournal(<<"dividend", call[s].row, h>>,
                      Move(YieldSource, HolderCash[h], Payout(s, h)))
       /\ Seeing(s, "pay", <<call[s].saw[1] \ {h}, call[s].saw[2]>>)
  /\ UNCHANGED <<declared, accrued, held>>

Distributed(s) ==
  /\ Distributing(s, "pay") /\ call[s].saw[1] = {}
  /\ accrued' = IF call[s].op = "accrue" THEN accrued \cup {call[s].row} ELSE accrued
  /\ Leave(s)
  /\ UNCHANGED <<journals, bal, declared, held>>

-----------------------------------------------------------------------------
(* subscribe and redeem at par: the balances are read, then the journal.   *)
SubscriptionCall(s, k) ==
  LET op == SubscriptionOf[k][1]  h == SubscriptionOf[k][2]  qty == SubscriptionOf[k][3] IN
  /\ IF op = "subscribe"
       THEN bal[HolderCash[h]] >= qty * ParMinor /\ bal[TokenSupply] >= qty
       ELSE HeldNow(h) >= qty
  /\ Begin(s, op, "post", k, None)
  /\ UNCHANGED <<journals, bal, declared, accrued, held>>

SubscriptionEffect(k) ==
  LET h == SubscriptionOf[k][2]  qty == SubscriptionOf[k][3] IN
  IF SubscriptionOf[k][1] = "subscribe"
    THEN Both(Move(HolderCash[h], SubSink, qty * ParMinor), Move(TokenSupply, HolderUnits[h], qty))
    ELSE Both(Move(SubSink, HolderCash[h], qty * ParMinor), Move(HolderUnits[h], TokenSupply, qty))

SubscriptionPost(s) ==
  /\ call[s].op \in {"subscribe", "redeem"} /\ call[s].at = "post"
  /\ PostJournal(<<call[s].op, call[s].row>>, SubscriptionEffect(call[s].row))
  /\ Moved
  /\ Leave(s)
  /\ UNCHANGED <<declared, accrued>>

-----------------------------------------------------------------------------
(* A tokenized deposit: the redemption looks its key up, then reads the    *)
(* balance inside the transaction that posts.                              *)
DepositRedeem(s, k) ==
  /\ ~Posted(<<"deposit", k>>)
  /\ Begin(s, "deposit", "commit", k, None)
  /\ UNCHANGED <<journals, bal, declared, accrued, held>>

DepositCommit(s) ==
  /\ At(s, "deposit", "commit")
  /\ IF bal[DepositCash] >= RedeemMinor
       THEN PostJournal(<<"deposit", call[s].row>>, Move(DepositCash, DepositClearing, RedeemMinor))
       ELSE UNCHANGED ledgerVars
  /\ Leave(s)
  /\ UNCHANGED <<declared, accrued, held>>

-----------------------------------------------------------------------------
YieldNext ==
  \E s \in Slots :
    \/ \E a \in Actions : Distribute(s, a) \/ \E op \in {"accrue", "declare"} : Declare(s, a, op)
    \/ \E k \in Subscriptions : SubscriptionCall(s, k)
    \/ \E k \in Redemptions : DepositRedeem(s, k)
    \/ ReadHolder(s) \/ PayHolder(s) \/ Distributed(s)
    \/ SubscriptionPost(s) \/ DepositCommit(s)
    \/ Dies(s) /\ UNCHANGED <<declared, accrued, held>>

YieldSpec == YieldInit /\ [][YieldNext]_yieldVars

-----------------------------------------------------------------------------
(* Correctness *)

(* However often a distribution is run, dies or overlaps with trades, a    *)
(* holder is paid at most once for an action, for units that were held at  *)
(* some time since it was declared; and an accrual that has its row has    *)
(* paid everybody who held units all along                                 *)
(* (corporateActionService.ts:72-84, 108-131, treasuryService.ts:152-158). *)
PaidOnceForHoldings ==
  \A a \in Actions, h \in UnitHolders :
    LET payouts == {j \in DOMAIN journals : j[1] = "dividend" /\ j[2] = a /\ j[3] = h}
        paid == {journals[j][HolderCash[h]] : j \in payouts} IN
    /\ Cardinality(payouts) <= 1
    /\ paid \subseteq {q * PerUnit : q \in held[a][h]}
    /\ a \in accrued /\ (\A q \in held[a][h] : q > 0) => payouts # {}

(* Balances that are read before the journal can be overdrawn only by as   *)
(* many calls as overlap, and one that is read in its transaction never is *)
(* (treasuryService.ts:75, 104, tokenizedDepositService.ts:92-104).        *)
DepositNeverOverdrawn ==
  /\ bal[DepositCash] >= 0
  /\ \A h \in UnitHolders : HeldNow(h) >= -(Cardinality(Slots) - 1) * LargestQty
=============================================================================
