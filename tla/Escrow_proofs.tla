--------------------------- MODULE Escrow_proofs ---------------------------
(***************************************************************************)
(* Proofs about Escrow and the two services over it, for every set of      *)
(* users, keys, intents or purchases and slots, every amount and both      *)
(* rails: the inductive invariant Inv, the safety invariants that follow   *)
(* from it, and that Escrow implements its promise.  Payments and          *)
(* purchases move money by escrow operations only, so its theorems carry   *)
(* over to them; what payment_intents and payment_events claim is backed   *)
(* by the escrow rows; the asset of a purchase follows the money, and a    *)
(* purchase's status is never ahead of either, whatever races, dies or is  *)
(* resolved past the purchase.                                             *)
(***************************************************************************)
EXTENDS Escrow, GoemonPay, Purchases, Ledger_proofs, SequenceTheorems, TLAPS

Inv ==
  /\ EscrowTypeOK
  /\ RowsWellFormed
  /\ CallsInOrder
  /\ RowsMatchJournals
  /\ NoOverdraft
  /\ LedgerFollowsChain
  /\ EventLogTellsStatus

-----------------------------------------------------------------------------
(* The event logs are short.                                               *)
LEMMA AppendToOne ==
  ASSUME NEW a, NEW b
  PROVE  Append(<<a>>, b) = <<a, b>>
<1> DEFINE S == {a, b}
<1>0. <<a>> \in Seq(S) /\ <<a, b>> \in Seq(S)
  OBVIOUS
<1>1. PICK s \in Seq(S) : s = <<a>>
  BY <1>0
<1>2. PICK t \in Seq(S) : t = <<a, b>>
  BY <1>0
<1>3. Len(s) = 1 /\ s[1] = a /\ Len(t) = 2 /\ t[1] = a /\ t[2] = b
  BY <1>1, <1>2
<1>4. PICK r \in Seq(S) : r = Append(s, b)
  BY AppendProperties
<1>5. Len(r) = 2 /\ r[1] = a /\ r[2] = b
  <2>1. Len(r) = Len(s) + 1 /\ r[Len(s) + 1] = b /\ \A i \in 1 .. Len(s) : r[i] = s[i]
    BY <1>4, AppendProperties
  <2> QED
    BY <1>3, <2>1
<1>6. Len(r) = Len(t) /\ \A i \in 1 .. Len(r) : r[i] = t[i]
  BY <1>3, <1>5
<1>7. r = t
  BY <1>6, SeqEqual
<1> QED
  BY <1>1, <1>2, <1>4, <1>7

LEMMA AppendToTwo ==
  ASSUME NEW a, NEW b, NEW c
  PROVE  Append(<<a, b>>, c) = <<a, b, c>>
<1> DEFINE S == {a, b, c}
<1>0. <<a, b>> \in Seq(S) /\ <<a, b, c>> \in Seq(S)
  OBVIOUS
<1>1. PICK s \in Seq(S) : s = <<a, b>>
  BY <1>0
<1>2. PICK t \in Seq(S) : t = <<a, b, c>>
  BY <1>0
<1>3. Len(s) = 2 /\ s[1] = a /\ s[2] = b /\ Len(t) = 3 /\ t[1] = a /\ t[2] = b /\ t[3] = c
  BY <1>1, <1>2
<1>4. PICK r \in Seq(S) : r = Append(s, c)
  BY AppendProperties
<1>5. Len(r) = 3 /\ r[1] = a /\ r[2] = b /\ r[3] = c
  <2>1. Len(r) = Len(s) + 1 /\ r[Len(s) + 1] = c /\ \A i \in 1 .. Len(s) : r[i] = s[i]
    BY <1>4, AppendProperties
  <2> QED
    BY <1>3, <2>1
<1>6. Len(r) = Len(t) /\ \A i \in 1 .. Len(r) : r[i] = t[i]
  BY <1>3, <1>5
<1>7. r = t
  BY <1>6, SeqEqual
<1> QED
  BY <1>1, <1>2, <1>4, <1>7

-----------------------------------------------------------------------------
LEMMA InitInv == EscrowInit => Inv
<1> SUFFICES ASSUME EscrowInit PROVE Inv
  OBVIOUS
<1> USE EscrowAssumption, OpeningAssumption DEF EscrowInit, LedgerInit
<1>1. EscrowTypeOK
  BY DEF EscrowTypeOK, LedgerTypeOK, Effects, Rows, NoRow, Row, Calls, Idle, Call
<1>2. RowsWellFormed
  BY DEF RowsWellFormed, Exists, NoRow, Row, Open
<1>3. CallsInOrder
  BY DEF CallsInOrder, CallFits, Idle, Call, Ops
<1>4. RowsMatchJournals
  BY DEF RowsMatchJournals, Posted, Exists, NoRow, Row, Terminal
<1>5. NoOverdraft
  BY DEF NoOverdraft
<1>6. LedgerFollowsChain
  BY DEF LedgerFollowsChain, Exists, NoRow, Row
<1>7. EventLogTellsStatus
  BY DEF EventLogTellsStatus, NoRow, Row, Terminal
<1> QED
  BY <1>1, <1>2, <1>3, <1>4, <1>5, <1>6, <1>7 DEF Inv
-----------------------------------------------------------------------------
(* Most steps change one call only, and on-chain legs are never undone.    *)
LEMMA CallStep ==
  ASSUME Inv, NEW s \in Slots, NEW c \in Calls,
         req' = [req EXCEPT ![s] = c],
         UNCHANGED <<journals, bal, escrow, log>>,
         chainIn' \in [Keys -> [Users -> Nat]],
         chainOut' \in [Keys -> [Users -> Nat]],
         \A k \in Keys, u \in Users : chainIn'[k][u] >= chainIn[k][u],
         \A k \in Keys, u \in Users : chainOut'[k][u] >= chainOut[k][u],
         CallFits(c)'
  PROVE  Inv'
<1> USE DEF Inv
<1>1. EscrowTypeOK'
  BY DEF EscrowTypeOK, LedgerTypeOK
<1>2. RowsWellFormed'
  BY DEF RowsWellFormed, Exists
<1>3. CallsInOrder'
  <2> SUFFICES ASSUME NEW t \in Slots PROVE CallFits(req[t])'
    BY DEF CallsInOrder
  <2>1. CASE t = s
    BY <2>1 DEF EscrowTypeOK, CallFits, Exists, Recipient
  <2>2. CASE t # s
    <3>1. req'[t] = req[t] /\ req[t] \in Calls /\ CallFits(req[t])
      BY <2>2 DEF EscrowTypeOK, CallsInOrder
    <3>2. req[t].key \in OnChain /\ req[t].pc = "commit" =>
            /\ req[t].key \in Keys /\ req[t].user \in Users
            /\ IF req[t].op = "hold" THEN chainIn'[req[t].key][req[t].user] > 0
                                     ELSE chainOut'[req[t].key][req[t].user] > 0
      BY <3>1 DEF CallFits, EscrowTypeOK
    <3> QED
      BY <3>1, <3>2 DEF CallFits, Exists, Recipient
  <2> QED
    BY <2>1, <2>2
<1>4. RowsMatchJournals'
  BY DEF RowsMatchJournals, Posted, Exists
<1>5. NoOverdraft'
  BY DEF NoOverdraft
<1>6. LedgerFollowsChain'
  <2> SUFFICES ASSUME NEW k \in OnChain
               PROVE  (/\ Exists(k) => chainIn[k][escrow[k].payer] > 0
                       /\ escrow[k].status = "released" => chainOut[k][escrow[k].payee] > 0
                       /\ escrow[k].status = "refunded" => chainOut[k][escrow[k].payer] > 0)'
    BY DEF LedgerFollowsChain
  <2> k \in Keys
    BY EscrowAssumption
  <2>1. Exists(k) => escrow[k].payer \in Users /\ escrow[k].payee \in Users
    BY DEF RowsWellFormed
  <2> QED
    BY <2>1 DEF LedgerFollowsChain, Exists, EscrowTypeOK
<1>7. EventLogTellsStatus'
  BY DEF EventLogTellsStatus
<1> QED
  BY <1>1, <1>2, <1>3, <1>4, <1>5, <1>6, <1>7

(* The calls that do not touch the chain either.                           *)
LEMMA QuietCallStep ==
  ASSUME Inv, NEW s \in Slots, NEW c \in Calls,
         req' = [req EXCEPT ![s] = c],
         UNCHANGED <<journals, bal, escrow, log, chainIn, chainOut>>,
         CallFits(c)'
  PROVE  Inv'
<1>1. /\ chainIn' \in [Keys -> [Users -> Nat]]
      /\ chainOut' \in [Keys -> [Users -> Nat]]
  BY DEF Inv, EscrowTypeOK
<1>2. /\ \A k \in Keys, u \in Users : chainIn'[k][u] >= chainIn[k][u]
      /\ \A k \in Keys, u \in Users : chainOut'[k][u] >= chainOut[k][u]
  BY DEF Inv, EscrowTypeOK
<1> QED
  BY <1>1, <1>2, CallStep

LEMMA LeaveInv ==
  ASSUME Inv, NEW s \in Slots, Leave(s),
         UNCHANGED <<journals, bal, escrow, log, chainIn, chainOut>>
  PROVE  Inv'
<1>1. Idle \in Calls /\ CallFits(Idle)'
  BY DEF Idle, Call, Calls, CallFits, Ops
<1> QED
  BY <1>1, QuietCallStep DEF Leave

(* A call that goes on keeps its operands.                                 *)
LEMMA GotoInv ==
  ASSUME Inv, NEW s \in Slots, NEW pc \in {"funds", "leg", "returned"},
         ~At(s, "idle"), Goto(s, pc),
         UNCHANGED <<journals, bal, escrow, log, chainIn, chainOut>>
  PROVE  Inv'
<1>1. req[s] \in Calls /\ CallFits(req[s])
  BY DEF Inv, EscrowTypeOK, CallsInOrder
<1>2. PICK c \in Calls : c = [req[s] EXCEPT !.pc = pc]
  BY <1>1 DEF Calls
<1>3. req' = [req EXCEPT ![s] = c]
  BY <1>1, <1>2 DEF Goto
<1>4. /\ c.op = req[s].op /\ c.key = req[s].key /\ c.user = req[s].user
      /\ c.payee = req[s].payee /\ c.pc = pc
  BY <1>1, <1>2 DEF Calls
<1>5. CallFits(c)'
  BY <1>1, <1>4 DEF CallFits, At, Exists, Recipient
<1> QED
  BY <1>3, <1>5, QuietCallStep

-----------------------------------------------------------------------------
(* Each operation keeps Inv.                                               *)
LEMMA HoldCallInv ==
  ASSUME Inv, NEW s \in Slots, NEW payer \in Users, NEW payee \in Users, NEW k \in Keys,
         HoldCall(s, payer, payee, k)
  PROVE  Inv'
<1>1. PICK pc \in {"funds", "returned"} :
        req' = [req EXCEPT ![s] = Call(pc, "hold", k, payer, payee)]
  BY DEF HoldCall
<1>2. PICK c \in Calls : c = Call(pc, "hold", k, payer, payee)
  BY DEF Call, Calls
<1>3. CallFits(c)'
  BY <1>2 DEF CallFits, Call, Ops, HoldCall
<1> QED
  BY <1>1, <1>2, <1>3, QuietCallStep DEF HoldCall

LEMMA SettleCallInv ==
  ASSUME Inv, NEW s \in Slots, NEW op \in Ops, NEW k \in Keys, SettleCall(s, op, k)
  PROVE  Inv'
<1>1. Recipient(op, k) \in Users /\ Exists(k)
  BY DEF Inv, RowsWellFormed, SettleCall, Recipient
<1>2. CASE LegOrCommit(k) = "leg" \/ escrow[k].status = TerminalOf(op)
  <2>1. PICK pc \in {"leg", "returned"} :
          req' = [req EXCEPT ![s] = Call(pc, op, k, Recipient(op, k), None)]
    BY <1>2 DEF SettleCall, TerminalOf, FromStatus
  <2>2. PICK c \in Calls : c = Call(pc, op, k, Recipient(op, k), None)
    BY <1>1 DEF Call, Calls
  <2>3. CallFits(c)'
    BY <1>1, <2>2 DEF CallFits, Call, Ops, SettleCall, Exists, Recipient
  <2> QED
    BY <2>1, <2>2, <2>3, QuietCallStep DEF SettleCall
<1>3. CASE LegOrCommit(k) # "leg" /\ escrow[k].status # TerminalOf(op)
  <2>1. PICK c \in Calls : c = Call("commit", op, k, Recipient(op, k), None)
    BY <1>1 DEF Call, Calls
  <2>2. k \notin OnChain /\ req' = [req EXCEPT ![s] = c]
    BY <1>3, <2>1 DEF SettleCall, LegOrCommit
  <2>3. CallFits(c)'
    BY <1>1, <2>1, <2>2 DEF CallFits, Call, Ops, SettleCall, Exists, Recipient
  <2> QED
    BY <2>2, <2>3, QuietCallStep DEF SettleCall
<1> QED
  BY <1>2, <1>3

LEMMA HoldFundsInv ==
  ASSUME Inv, NEW s \in Slots, HoldFunds(s)
  PROVE  Inv'
<1>1. CASE bal[req[s].user] >= Amount[req[s].key]
  <2>1. CASE req[s].key \in OnChain
    <3>1. Goto(s, "leg")
      BY <1>1, <2>1 DEF HoldFunds, LegOrCommit
    <3> QED
      BY <3>1, GotoInv DEF HoldFunds, At
  <2>2. CASE req[s].key \notin OnChain
    <3>1. req[s] \in Calls /\ CallFits(req[s])
      BY DEF Inv, EscrowTypeOK, CallsInOrder
    <3>2. PICK c \in Calls : c = [req[s] EXCEPT !.pc = "commit"]
      BY <3>1 DEF Calls
    <3>3. req' = [req EXCEPT ![s] = c]
      BY <1>1, <2>2, <3>1, <3>2 DEF HoldFunds, Goto, LegOrCommit
    <3>4. CallFits(c)'
      BY <2>2, <3>1, <3>2 DEF CallFits, Calls, HoldFunds, Holding, At, Ops
    <3> QED
      BY <3>3, <3>4, QuietCallStep DEF HoldFunds
  <2> QED
    BY <2>1, <2>2
<1>2. CASE ~(bal[req[s].user] >= Amount[req[s].key])
  BY <1>2, LeaveInv DEF HoldFunds
<1> QED
  BY <1>1, <1>2

LEMMA HoldLegInv ==
  ASSUME Inv, NEW s \in Slots, HoldLeg(s)
  PROVE  Inv'
<1> DEFINE k == req[s].key
           u == req[s].user
<1>1. req[s] \in Calls /\ CallFits(req[s])
  BY DEF Inv, EscrowTypeOK, CallsInOrder
<1>2. k \in Keys /\ u \in Users
  BY <1>1 DEF CallFits, HoldLeg, At
<1>3. PICK c \in Calls : c = [req[s] EXCEPT !.pc = "commit"]
  BY <1>1 DEF Calls
<1>4. req' = [req EXCEPT ![s] = c]
  BY <1>1, <1>3 DEF HoldLeg, Goto
<1>5. /\ chainIn \in [Keys -> [Users -> Nat]] /\ chainOut \in [Keys -> [Users -> Nat]]
      /\ chainIn' = [chainIn EXCEPT ![k][u] = @ + 1] /\ chainOut' = chainOut
  BY DEF Inv, EscrowTypeOK, HoldLeg
<1>6. /\ chainIn' \in [Keys -> [Users -> Nat]] /\ chainOut' \in [Keys -> [Users -> Nat]]
      /\ \A j \in Keys, v \in Users : chainIn'[j][v] >= chainIn[j][v]
      /\ \A j \in Keys, v \in Users : chainOut'[j][v] >= chainOut[j][v]
      /\ chainIn'[k][u] > 0
  BY <1>2, <1>5
<1>7. c.op = "hold" /\ c.key = k /\ c.user = u /\ c.payee = req[s].payee /\ c.pc = "commit"
  BY <1>1, <1>3 DEF Calls, HoldLeg, Holding
<1>8. CallFits(c)'
  BY <1>1, <1>2, <1>6, <1>7 DEF CallFits, HoldLeg, Holding, Ops
<1> QED
  BY <1>4, <1>6, <1>8, CallStep DEF HoldLeg

LEMMA SettleLegInv ==
  ASSUME Inv, NEW s \in Slots, SettleLeg(s)
  PROVE  Inv'
<1> DEFINE k == req[s].key
           u == req[s].user
<1>1. req[s] \in Calls /\ CallFits(req[s])
  BY DEF Inv, EscrowTypeOK, CallsInOrder
<1>2. k \in Keys /\ u \in Users
  BY <1>1 DEF CallFits, SettleLeg, At
<1>3. PICK c \in Calls : c = [req[s] EXCEPT !.pc = "commit"]
  BY <1>1 DEF Calls
<1>4. req' = [req EXCEPT ![s] = c]
  BY <1>1, <1>3 DEF SettleLeg, Goto
<1>5. /\ chainIn \in [Keys -> [Users -> Nat]] /\ chainOut \in [Keys -> [Users -> Nat]]
      /\ chainOut' = [chainOut EXCEPT ![k][u] = @ + 1] /\ chainIn' = chainIn
  BY DEF Inv, EscrowTypeOK, SettleLeg
<1>6. /\ chainIn' \in [Keys -> [Users -> Nat]] /\ chainOut' \in [Keys -> [Users -> Nat]]
      /\ \A j \in Keys, v \in Users : chainIn'[j][v] >= chainIn[j][v]
      /\ \A j \in Keys, v \in Users : chainOut'[j][v] >= chainOut[j][v]
      /\ chainOut'[k][u] > 0
  BY <1>2, <1>5
<1>7. c.op = req[s].op /\ c.key = k /\ c.user = u /\ c.payee = req[s].payee /\ c.pc = "commit"
  BY <1>1, <1>3 DEF Calls
<1>8. CallFits(c)'
  BY <1>1, <1>2, <1>6, <1>7 DEF CallFits, SettleLeg, Settling, Ops, At, Exists, Recipient
<1> QED
  BY <1>4, <1>6, <1>8, CallStep DEF SettleLeg

(* The transaction of hold: the journal key is free because the row is.    *)
LEMMA HoldPostInv ==
  ASSUME Inv, NEW s \in Slots, Holding(s), At(s, "commit"), HoldPost(s),
         UNCHANGED <<chainIn, chainOut>>
  PROVE  Inv'
<1> DEFINE k == req[s].key
           payer == req[s].user
           payee == req[s].payee
           key == <<"escrow:hold", k>>
           d == Move(payer, EscrowAcct, Amount[k])
<1> USE EscrowAssumption DEF Inv
<1>1. req[s] \in Calls /\ CallFits(req[s])
  BY DEF EscrowTypeOK, CallsInOrder
<1>2. k \in Keys /\ payer \in Users /\ payee \in Users \ {payer} /\ Amount[k] \in Nat \ {0}
  BY <1>1 DEF CallFits, Holding, At
<1>3. d \in Effects
  BY <1>2, MoveType
<1>4. ~Exists(k) /\ ~Posted(key)
  BY <1>2 DEF HoldPost, RowsMatchJournals
<1>5. PostJournal(key, d)
  BY DEF HoldPost, InsertHold
<1>6. /\ LedgerTypeOK'
      /\ DOMAIN journals' = DOMAIN journals \cup {key}
      /\ journals'[key] = d
      /\ \A j \in DOMAIN journals : journals'[j] = journals[j]
      /\ \A a \in Accounts : bal'[a] = bal[a] + d[a]
  BY <1>3, <1>4, <1>5, PostFresh DEF EscrowTypeOK
<1>7. PICK row \in Rows : row = Row("held", payer, payee, "null")
  BY <1>2 DEF Rows, Row, Open
<1>8. /\ row.status = "held" /\ row.payer = payer /\ row.payee = payee
      /\ row.resolution = "null"
  BY <1>7 DEF Row
<1>9. /\ escrow' = [escrow EXCEPT ![k] = row]
      /\ log' = [log EXCEPT ![k] = Append(@, "held")]
      /\ req' = [req EXCEPT ![s].pc = "returned"]
  BY <1>7 DEF HoldPost, InsertHold, Goto
<1>10. \A j \in Keys \ {k} : escrow'[j] = escrow[j] /\ log'[j] = log[j]
  BY <1>9 DEF EscrowTypeOK
<1>11. escrow'[k] = row /\ log'[k] = <<"held">>
  <2>1. log[k] = << >>
    BY <1>2, <1>4 DEF EventLogTellsStatus, Exists
  <2> QED
    BY <1>2, <1>9, <2>1 DEF EscrowTypeOK
<1>12. EscrowTypeOK'
  <2>1. escrow' \in [Keys -> Rows]
    BY <1>9 DEF EscrowTypeOK
  <2>2. log' \in [Keys -> Seq(Events)]
    <3>1. Append(log[k], "held") \in Seq(Events)
      BY <1>2 DEF EscrowTypeOK, Events
    <3> QED
      BY <1>9, <3>1 DEF EscrowTypeOK
  <2>3. req' \in [Slots -> Calls]
    BY <1>9 DEF EscrowTypeOK, Calls
  <2> QED
    BY <1>6, <2>1, <2>2, <2>3 DEF EscrowTypeOK
<1>13. RowsWellFormed'
  BY <1>2, <1>8, <1>10, <1>11 DEF RowsWellFormed, Exists, Open
<1>14. CallsInOrder'
  <2> SUFFICES ASSUME NEW t \in Slots PROVE CallFits(req[t])'
    BY DEF CallsInOrder
  <2>1. req[t] \in Calls /\ CallFits(req[t])
    BY DEF EscrowTypeOK, CallsInOrder
  <2>2. /\ req'[t].op = req[t].op /\ req'[t].key = req[t].key
        /\ req'[t].user = req[t].user /\ req'[t].payee = req[t].payee
        /\ req'[t].pc = (IF t = s THEN "returned" ELSE req[t].pc)
    BY <1>9, <2>1 DEF EscrowTypeOK, Calls
  <2>3. req[t].op \in Ops => req[t].key # k /\ req[t].key \in Keys
    BY <1>4, <2>1 DEF CallFits, Ops
  <2>4. req[t].op \in Ops => escrow'[req[t].key] = escrow[req[t].key]
    BY <1>10, <2>3
  <2> QED
    BY <2>1, <2>2, <2>4 DEF CallFits, Exists, Recipient, At, Holding
<1>15. RowsMatchJournals'
  <2> SUFFICES ASSUME NEW j \in Keys
               PROVE  LET e == escrow'[j]
                          hold == <<"escrow:hold", j>>
                          settle == <<"escrow:settle", j>> IN
                      /\ hold \in DOMAIN journals' <=> e.status # "none"
                      /\ e.status # "none" => journals'[hold] = Move(e.payer, EscrowAcct, Amount[j])
                      /\ settle \in DOMAIN journals' <=> e.status \in Terminal
                      /\ e.status = "released" => journals'[settle] = Move(EscrowAcct, e.payee, Amount[j])
                      /\ e.status = "refunded" => journals'[settle] = Move(EscrowAcct, e.payer, Amount[j])
    BY DEF RowsMatchJournals, Posted, Exists
  <2>2. CASE j = k
    <3>1. <<"escrow:settle", k>> \notin DOMAIN journals'
      BY <1>2, <1>4, <1>6 DEF RowsMatchJournals, Posted, Exists, Terminal
    <3> QED
      BY <1>6, <1>8, <1>11, <2>2, <3>1 DEF Terminal
  <2>3. CASE j # k
    <3>1. escrow'[j] = escrow[j]
      BY <1>10, <2>3
    <3>2. /\ <<"escrow:hold", j>> # key /\ <<"escrow:settle", j>> # key
      BY <2>3
    <3> QED
      BY <1>6, <3>1, <3>2 DEF RowsMatchJournals, Posted, Exists, Terminal
  <2> QED
    BY <2>2, <2>3
<1>16. NoOverdraft'
  <2> SUFFICES ASSUME NEW u \in Users PROVE bal'[u] >= 0
    BY DEF NoOverdraft
  <2>1. u \in Accounts /\ u # EscrowAcct /\ bal[u] \in Int /\ bal[u] >= 0
    BY DEF EscrowTypeOK, LedgerTypeOK, Effects, NoOverdraft
  <2>2. bal'[u] = bal[u] - (IF u = payer THEN Amount[k] ELSE 0)
    BY <1>2, <1>6, <2>1 DEF Move
  <2>3. bal[payer] >= Amount[k]
    BY DEF HoldPost
  <2> QED
    BY <1>2, <2>1, <2>2, <2>3
<1>17. LedgerFollowsChain'
  <2>1. k \in OnChain => chainIn[k][payer] > 0
    BY <1>1 DEF CallFits, Holding, At
  <2> QED
    BY <1>8, <1>10, <1>11, <2>1 DEF LedgerFollowsChain, Exists
<1>18. EventLogTellsStatus'
  BY <1>8, <1>10, <1>11 DEF EventLogTellsStatus, Terminal
<1> QED
  BY <1>12, <1>13, <1>14, <1>15, <1>16, <1>17, <1>18

(* The transaction of settle: the status it re-reads is not terminal, so   *)
(* the settle key is free, and the recipient read earlier is still right.  *)
LEMMA SettlePostInv ==
  ASSUME Inv, NEW s \in Slots, Settling(s), At(s, "commit"), SettlePost(s),
         UNCHANGED <<chainIn, chainOut>>
  PROVE  Inv'
<1> DEFINE k == req[s].key
           op == req[s].op
           to == req[s].user
           key == <<"escrow:settle", k>>
           d == Move(EscrowAcct, to, Amount[k])
           event == IF IsResolution(op) THEN "dispute_resolved" ELSE TerminalOf(op)
<1> USE EscrowAssumption DEF Inv
<1>1. req[s] \in Calls /\ CallFits(req[s]) /\ op \in Ops
  BY DEF EscrowTypeOK, CallsInOrder, Settling
<1>2. k \in Keys /\ to \in Users /\ Exists(k) /\ to = Recipient(op, k) /\ Amount[k] \in Nat \ {0}
  BY <1>1 DEF CallFits, At
<1>3. d \in Effects
  BY <1>2, MoveType
<1>4. escrow[k].status = FromStatus(op) /\ escrow[k].status \in Open
  BY DEF SettlePost, FromStatus, Open
<1>5. ~Posted(key)
  BY <1>2, <1>4 DEF RowsMatchJournals, Open, Terminal
<1>6. PostJournal(key, d)
  BY DEF SettlePost, PayOut
<1>7. /\ LedgerTypeOK'
      /\ DOMAIN journals' = DOMAIN journals \cup {key}
      /\ journals'[key] = d
      /\ \A j \in DOMAIN journals : journals'[j] = journals[j]
      /\ \A a \in Accounts : bal'[a] = bal[a] + d[a]
  BY <1>3, <1>5, <1>6, PostFresh DEF EscrowTypeOK
<1>8. /\ TerminalOf(op) \in Terminal
      /\ TerminalOf(op) = "released" => to = escrow[k].payee
      /\ TerminalOf(op) = "refunded" => to = escrow[k].payer
      /\ event \in Events
  BY <1>2 DEF TerminalOf, Terminal, Outcome, Recipient, Events
<1>9. /\ escrow'[k].status = TerminalOf(op)
      /\ escrow'[k].resolution = (IF IsResolution(op) THEN Outcome(op) ELSE "null")
      /\ escrow'[k].payer = escrow[k].payer /\ escrow'[k].payee = escrow[k].payee
      /\ escrow' \in [Keys -> Rows]
  <2>1. PICK row \in Rows :
          row = Row(TerminalOf(op), escrow[k].payer, escrow[k].payee,
                    IF IsResolution(op) THEN Outcome(op) ELSE "null")
    BY <1>2, <1>8 DEF EscrowTypeOK, Rows, Row, Outcome
  <2>2. escrow' = [escrow EXCEPT ![k] = row]
    BY <2>1 DEF SettlePost, PayOut
  <2> QED
    BY <1>2, <2>1, <2>2 DEF EscrowTypeOK, Row
<1>10. \A j \in Keys \ {k} : escrow'[j] = escrow[j] /\ log'[j] = log[j]
  BY DEF SettlePost, PayOut, EscrowTypeOK
<1>11. log'[k] = Append(log[k], event) /\ log' \in [Keys -> Seq(Events)]
  <2>1. log' = [log EXCEPT ![k] = Append(@, event)]
    BY DEF SettlePost, PayOut
  <2>2. Append(log[k], event) \in Seq(Events)
    BY <1>2, <1>8 DEF EscrowTypeOK
  <2> QED
    BY <1>2, <2>1, <2>2 DEF EscrowTypeOK
<1>12. req' = [req EXCEPT ![s].pc = "returned"]
  BY DEF SettlePost, PayOut, Goto
<1>13. EscrowTypeOK'
  <2>1. req' \in [Slots -> Calls]
    BY <1>12 DEF EscrowTypeOK, Calls
  <2> QED
    BY <1>7, <1>9, <1>11, <2>1 DEF EscrowTypeOK
<1>14. \A j \in Keys : /\ Exists(j)' <=> Exists(j)
                       /\ escrow'[j].payer = escrow[j].payer
                       /\ escrow'[j].payee = escrow[j].payee
  BY <1>2, <1>8, <1>9, <1>10 DEF Exists, Terminal
<1>15. RowsWellFormed'
  <2> SUFFICES ASSUME NEW j \in Keys
               PROVE  (/\ ~Exists(j) => escrow[j] = NoRow
                       /\ Exists(j) => /\ escrow[j].payer \in Users
                                       /\ escrow[j].payee \in Users \ {escrow[j].payer}
                       /\ escrow[j].status \in Open => escrow[j].resolution = "null")'
    BY DEF RowsWellFormed
  <2>1. CASE j = k
    BY <1>2, <1>8, <1>9, <1>14, <2>1 DEF RowsWellFormed, Open, Terminal
  <2>2. CASE j # k
    BY <1>10, <2>2 DEF RowsWellFormed, Exists
  <2> QED
    BY <2>1, <2>2
<1>16. CallsInOrder'
  <2> SUFFICES ASSUME NEW t \in Slots PROVE CallFits(req[t])'
    BY DEF CallsInOrder
  <2>1. req[t] \in Calls /\ CallFits(req[t])
    BY DEF EscrowTypeOK, CallsInOrder
  <2>2. /\ req'[t].op = req[t].op /\ req'[t].key = req[t].key
        /\ req'[t].user = req[t].user /\ req'[t].payee = req[t].payee
        /\ req'[t].pc = (IF t = s THEN "returned" ELSE req[t].pc)
    BY <1>12, <2>1 DEF EscrowTypeOK, Calls
  <2>3. req[t].op \in Ops => req[t].key \in Keys
    BY <2>1 DEF CallFits, Ops
  <2> QED
    BY <1>14, <2>1, <2>2, <2>3 DEF CallFits, Recipient, At, Settling, Ops
<1>17. RowsMatchJournals'
  <2> SUFFICES ASSUME NEW j \in Keys
               PROVE  LET e == escrow'[j]
                          hold == <<"escrow:hold", j>>
                          settle == <<"escrow:settle", j>> IN
                      /\ hold \in DOMAIN journals' <=> e.status # "none"
                      /\ e.status # "none" => journals'[hold] = Move(e.payer, EscrowAcct, Amount[j])
                      /\ settle \in DOMAIN journals' <=> e.status \in Terminal
                      /\ e.status = "released" => journals'[settle] = Move(EscrowAcct, e.payee, Amount[j])
                      /\ e.status = "refunded" => journals'[settle] = Move(EscrowAcct, e.payer, Amount[j])
    BY DEF RowsMatchJournals, Posted, Exists
  <2>2. CASE j = k
    <3>1. /\ <<"escrow:hold", k>> \in DOMAIN journals
          /\ <<"escrow:hold", k>> # key
          /\ journals[<<"escrow:hold", k>>] = Move(escrow[k].payer, EscrowAcct, Amount[k])
      BY <1>2 DEF RowsMatchJournals, Posted
    <3> QED
      BY <1>7, <1>8, <1>9, <2>2, <3>1 DEF Terminal
  <2>3. CASE j # k
    <3>1. escrow'[j] = escrow[j]
      BY <1>10, <2>3
    <3>2. /\ <<"escrow:hold", j>> # key /\ <<"escrow:settle", j>> # key
      BY <2>3
    <3> QED
      BY <1>7, <3>1, <3>2 DEF RowsMatchJournals, Posted, Exists, Terminal
  <2> QED
    BY <2>2, <2>3
<1>18. NoOverdraft'
  <2> SUFFICES ASSUME NEW u \in Users PROVE bal'[u] >= 0
    BY DEF NoOverdraft
  <2>1. u \in Accounts /\ u # EscrowAcct /\ bal[u] \in Int /\ bal[u] >= 0
    BY DEF EscrowTypeOK, LedgerTypeOK, Effects, NoOverdraft
  <2>2. bal'[u] = bal[u] + (IF u = to THEN Amount[k] ELSE 0)
    BY <1>2, <1>7, <2>1 DEF Move
  <2> QED
    BY <1>2, <2>1, <2>2
<1>19. LedgerFollowsChain'
  <2>1. k \in OnChain => chainOut[k][to] > 0
    BY <1>1 DEF CallFits, At, Ops
  <2> QED
    BY <1>2, <1>8, <1>9, <1>10, <2>1 DEF LedgerFollowsChain, Exists
<1>20. EventLogTellsStatus'
  <2>1. /\ IsResolution(op) => escrow[k].status = "disputed" /\ log[k] = <<"held", "disputed">>
        /\ ~IsResolution(op) => escrow[k].status = "held" /\ log[k] = <<"held">>
    BY <1>2, <1>4 DEF EventLogTellsStatus, FromStatus
  <2>2. IsResolution(op) => log'[k] = <<"held", "disputed", "dispute_resolved">>
    BY <1>11, <2>1, AppendToTwo
  <2>3. ~IsResolution(op) => log'[k] = <<"held", TerminalOf(op)>>
    BY <1>11, <2>1, AppendToOne
  <2> QED
    BY <1>8, <1>9, <1>10, <2>1, <2>2, <2>3 DEF EventLogTellsStatus, Terminal, Outcome
<1> QED
  BY <1>13, <1>15, <1>16, <1>17, <1>18, <1>19, <1>20

LEMMA OpenDisputeInv ==
  ASSUME Inv, NEW k \in Keys, OpenDispute(k)
  PROVE  Inv'
<1> USE DEF Inv, OpenDispute
<1>1. /\ escrow'[k].status = "disputed" /\ escrow'[k].resolution = escrow[k].resolution
      /\ escrow'[k].payer = escrow[k].payer /\ escrow'[k].payee = escrow[k].payee
      /\ escrow' \in [Keys -> Rows]
  BY DEF EscrowTypeOK, Rows, Open
<1>2. \A j \in Keys \ {k} : escrow'[j] = escrow[j] /\ log'[j] = log[j]
  BY DEF EscrowTypeOK
<1>3. log[k] = <<"held">> /\ log'[k] = <<"held", "disputed">> /\ log' \in [Keys -> Seq(Events)]
  <2>1. log[k] = <<"held">> /\ log' = [log EXCEPT ![k] = Append(@, "disputed")]
    BY DEF EventLogTellsStatus
  <2>2. Append(log[k], "disputed") = <<"held", "disputed">>
    BY <2>1, AppendToOne
  <2>3. <<"held", "disputed">> \in Seq(Events)
    BY DEF Events
  <2> QED
    BY <2>1, <2>2, <2>3 DEF EscrowTypeOK
<1>4. \A j \in Keys : /\ Exists(j)' <=> Exists(j)
                      /\ escrow'[j].payer = escrow[j].payer
                      /\ escrow'[j].payee = escrow[j].payee
  BY <1>1, <1>2 DEF Exists
<1>5. EscrowTypeOK'
  BY <1>1, <1>3 DEF EscrowTypeOK, LedgerTypeOK
<1>6. RowsWellFormed'
  BY <1>1, <1>2, <1>4 DEF RowsWellFormed, Exists, Open
<1>7. CallsInOrder'
  <2> SUFFICES ASSUME NEW t \in Slots PROVE CallFits(req[t])'
    BY DEF CallsInOrder
  <2>1. req'[t] = req[t] /\ req[t] \in Calls /\ CallFits(req[t])
    BY DEF EscrowTypeOK, CallsInOrder
  <2> QED
    BY <1>4, <2>1 DEF CallFits, Recipient, Ops
<1>8. RowsMatchJournals'
  BY <1>1, <1>2 DEF RowsMatchJournals, Posted, Exists, Terminal
<1>9. NoOverdraft'
  BY DEF NoOverdraft
<1>10. LedgerFollowsChain'
  BY <1>1, <1>2 DEF LedgerFollowsChain, Exists
<1>11. EventLogTellsStatus'
  BY <1>1, <1>2, <1>3 DEF EventLogTellsStatus, Terminal
<1> QED
  BY <1>5, <1>6, <1>7, <1>8, <1>9, <1>10, <1>11

LEMMA HoldCommitInv ==
  ASSUME Inv, NEW s \in Slots, HoldCommit(s)
  PROVE  Inv'
<1>1. CASE HoldDuplicate(s)
  BY <1>1, GotoInv DEF HoldCommit, HoldDuplicate, At
<1>2. CASE HoldRefused(s)
  BY <1>2, LeaveInv DEF HoldCommit, HoldRefused
<1>3. CASE HoldPost(s)
  BY <1>3, HoldPostInv DEF HoldCommit
<1> QED
  BY <1>1, <1>2, <1>3 DEF HoldCommit

LEMMA SettleCommitInv ==
  ASSUME Inv, NEW s \in Slots, SettleCommit(s)
  PROVE  Inv'
<1>1. CASE SettleDuplicate(s)
  BY <1>1, GotoInv DEF SettleCommit, SettleDuplicate, At
<1>2. CASE SettleRefused(s)
  BY <1>2, LeaveInv DEF SettleCommit, SettleRefused
<1>3. CASE SettlePost(s)
  BY <1>3, SettlePostInv DEF SettleCommit
<1> QED
  BY <1>1, <1>2, <1>3 DEF SettleCommit

LEMMA NextInv == Inv /\ [EscrowNext]_escrowVars => Inv'
<1> SUFFICES ASSUME Inv, [EscrowNext]_escrowVars PROVE Inv'
  OBVIOUS
<1>1. ASSUME NEW s \in Slots, NEW payer \in Users, NEW payee \in Users, NEW k \in Keys,
             HoldCall(s, payer, payee, k)
      PROVE  Inv'
  BY <1>1, HoldCallInv
<1>2. ASSUME NEW s \in Slots, NEW op \in Ops, NEW k \in Keys, SettleCall(s, op, k)
      PROVE  Inv'
  BY <1>2, SettleCallInv
<1>3. ASSUME NEW s \in Slots, EscrowStep(s) PROVE Inv'
  BY <1>3, HoldFundsInv, HoldLegInv, HoldCommitInv, SettleLegInv, SettleCommitInv DEF EscrowStep
<1>4. ASSUME NEW s \in Slots, Respond(s) \/ Fail(s) PROVE Inv'
  BY <1>4, LeaveInv DEF Respond, Fail
<1>5. ASSUME NEW k \in Keys, OpenDispute(k) PROVE Inv'
  BY <1>5, OpenDisputeInv
<1>6. CASE UNCHANGED escrowVars
  <2> USE <1>6 DEF escrowVars
  <2>1. EscrowTypeOK' /\ RowsWellFormed' /\ NoOverdraft' /\ EventLogTellsStatus'
    BY DEF Inv, EscrowTypeOK, LedgerTypeOK, RowsWellFormed, Exists, NoOverdraft,
           EventLogTellsStatus
  <2>2. CallsInOrder'
    BY DEF Inv, CallsInOrder, CallFits, Exists, Recipient
  <2>3. RowsMatchJournals' /\ LedgerFollowsChain'
    BY DEF Inv, RowsMatchJournals, Posted, Exists, LedgerFollowsChain
  <2> QED
    BY <2>1, <2>2, <2>3 DEF Inv
<1> QED
  BY <1>1, <1>2, <1>3, <1>4, <1>5, <1>6 DEF EscrowNext

(* Inv holds in every state of every run of the escrow layer.              *)
THEOREM EscrowInvariant == EscrowSpec => []Inv
BY InitInv, NextInv, PTL DEF EscrowSpec

-----------------------------------------------------------------------------
(* Every table, chain counter and call keeps its shape: only the statuses, *)
(* events and resolutions the schema allows are ever stored.               *)
THEOREM EscrowTypes == EscrowSpec => []EscrowTypeOK
<1>1. Inv => EscrowTypeOK
  BY DEF Inv
<1> QED
  BY <1>1, EscrowInvariant, PTL

(* No number of holds side by side overdraws a payer: the balance check    *)
(* inside the transaction decides (escrowService.ts:138).                  *)
THEOREM EscrowNoOverdraft == EscrowSpec => []NoOverdraft
<1>1. Inv => NoOverdraft
  BY DEF Inv
<1> QED
  BY <1>1, EscrowInvariant, PTL

(* An escrow has one hold journal, and one settle journal exactly when its *)
(* status is terminal, which pays the party the status names.              *)
THEOREM EscrowRowsMatchJournals == EscrowSpec => []RowsMatchJournals
<1>1. Inv => RowsMatchJournals
  BY DEF Inv
<1> QED
  BY <1>1, EscrowInvariant, PTL

(* On the Hedera rail the ledger never records a move the chain has not    *)
(* executed.                                                               *)
THEOREM EscrowLedgerFollowsChain == EscrowSpec => []LedgerFollowsChain
<1>1. Inv => LedgerFollowsChain
  BY DEF Inv
<1> QED
  BY <1>1, EscrowInvariant, PTL

(* The event log of an escrow is its history, each transition once.        *)
THEOREM EscrowEventLog == EscrowSpec => []EventLogTellsStatus
<1>1. Inv => EventLogTellsStatus
  BY DEF Inv
<1> QED
  BY <1>1, EscrowInvariant, PTL

-----------------------------------------------------------------------------
(* What an escrow step may do to the rows: an escrow keeps its parties,    *)
(* and its terminal status once it has one.                                *)
RowsPersist ==
  \A k \in Keys :
    Exists(k) =>
      /\ Exists(k)'
      /\ escrow'[k].payer = escrow[k].payer
      /\ escrow'[k].payee = escrow[k].payee
      /\ escrow[k].status \in Terminal => escrow'[k].status = escrow[k].status

LEMMA UnchangedRowsPersist ==
  ASSUME UNCHANGED escrow
  PROVE  RowsPersist
BY DEF RowsPersist, Exists

LEMMA HoldRowsPersist ==
  ASSUME Inv, NEW s \in Slots, Holding(s), At(s, "commit"), HoldPost(s)
  PROVE  RowsPersist /\ \A k \in Keys : Exists(k)' => Exists(k) \/ escrow'[k].payee = req[s].payee
<1>1. PICK k \in Keys : k = req[s].key
  BY DEF Inv, CallsInOrder, CallFits, At
<1>2. /\ ~Exists(k)
      /\ escrow'[k].payee = req[s].payee
      /\ \A j \in Keys \ {k} : escrow'[j] = escrow[j]
  BY <1>1 DEF HoldPost, InsertHold, Inv, EscrowTypeOK, Row
<1> QED
  BY <1>2 DEF RowsPersist, Exists

LEMMA SettleRowsPersist ==
  ASSUME Inv, NEW s \in Slots, Settling(s), At(s, "commit"), SettlePost(s)
  PROVE  RowsPersist /\ \A k \in Keys : Exists(k)' => Exists(k)
<1>1. PICK k \in Keys, op \in Ops : k = req[s].key /\ op = req[s].op
  BY DEF Inv, CallsInOrder, CallFits, At, Settling
<1>2. /\ escrow[k].status \in Open
      /\ escrow'[k].status \in Terminal
      /\ escrow'[k].payer = escrow[k].payer
      /\ escrow'[k].payee = escrow[k].payee
      /\ \A j \in Keys \ {k} : escrow'[j] = escrow[j]
  BY <1>1 DEF SettlePost, PayOut, Inv, EscrowTypeOK, Row, FromStatus, TerminalOf, Open, Terminal
<1> QED
  BY <1>2 DEF RowsPersist, Exists, Open, Terminal

LEMMA DisputeRowsPersist ==
  ASSUME Inv, NEW k \in Keys, OpenDispute(k)
  PROVE  RowsPersist /\ \A j \in Keys : Exists(j)' => Exists(j)
<1>1. /\ escrow[k].status = "held"
      /\ escrow'[k].status = "disputed"
      /\ escrow'[k].payer = escrow[k].payer
      /\ escrow'[k].payee = escrow[k].payee
      /\ \A j \in Keys \ {k} : escrow'[j] = escrow[j]
  BY DEF OpenDispute, Inv, EscrowTypeOK, Rows, Open
<1> QED
  BY <1>1 DEF RowsPersist, Exists, Terminal

(* What an escrow step leaves alone: the rows as above, every journal that *)
(* is not an escrow's, every account that is neither a user's nor custody. *)
EscrowFrame ==
  /\ RowsPersist
  /\ \A key : (\A k \in Keys : key # <<"escrow:hold", k>> /\ key # <<"escrow:settle", k>>)
              => (Posted(key)' <=> Posted(key))
  /\ \A a \in Accounts \ (Users \cup {EscrowAcct}) : bal'[a] = bal[a]

LEMMA SameTablesFrame ==
  ASSUME UNCHANGED <<journals, bal, escrow>>
  PROVE  EscrowFrame
BY UnchangedRowsPersist DEF EscrowFrame, Posted

(* Posting an escrow's journal between a user and custody.                 *)
LEMMA PostFrame ==
  ASSUME Inv, RowsPersist, NEW k \in Keys,
         NEW key \in {<<"escrow:hold", k>>, <<"escrow:settle", k>>},
         NEW from \in Users \cup {EscrowAcct}, NEW to \in Users \cup {EscrowAcct},
         PostJournal(key, Move(from, to, Amount[k]))
  PROVE  EscrowFrame
<1>0. Amount[k] \in Int
  BY EscrowAssumption
<1>1. Move(from, to, Amount[k]) \in Effects
  BY <1>0, MoveType
<1>2. \A a \in Accounts \ (Users \cup {EscrowAcct}) : Move(from, to, Amount[k])[a] = 0
  BY <1>0, MoveSpares
<1>3. PICK d \in Effects : d = Move(from, to, Amount[k])
  BY <1>1
<1>4. DOMAIN journals' = DOMAIN journals \cup {key}
  BY <1>3, PostAny DEF Inv, EscrowTypeOK
<1>5. \A a \in Accounts \ (Users \cup {EscrowAcct}) : bal'[a] = bal[a]
  <2>1. CASE Posted(key)
    BY <2>1 DEF PostJournal, ledgerVars
  <2>2. CASE ~Posted(key)
    <3>1. \A a \in Accounts : bal'[a] = bal[a] + d[a]
      BY <1>3, <2>2, PostFresh DEF Inv, EscrowTypeOK
    <3>2. \A a \in Accounts : bal[a] \in Int
      BY DEF Inv, EscrowTypeOK, LedgerTypeOK, Effects
    <3> QED
      BY <1>2, <1>3, <3>1, <3>2
  <2> QED
    BY <2>1, <2>2
<1> QED
  BY <1>4, <1>5 DEF EscrowFrame, Posted

LEMMA EscrowStepFrame ==
  ASSUME Inv, [EscrowNext]_escrowVars
  PROVE  EscrowFrame
<1>1. ASSUME NEW s \in Slots, HoldCommit(s), HoldPost(s) PROVE EscrowFrame
  <2>1. RowsPersist
    BY <1>1, HoldRowsPersist DEF HoldCommit
  <2>2. req[s].key \in Keys /\ req[s].user \in Users
    BY <1>1 DEF HoldCommit, At, Inv, CallsInOrder, CallFits
  <2> QED
    BY <1>1, <2>1, <2>2, PostFrame DEF HoldPost, InsertHold
<1>2. ASSUME NEW s \in Slots, SettleCommit(s), SettlePost(s) PROVE EscrowFrame
  <2>1. RowsPersist
    BY <1>2, SettleRowsPersist DEF SettleCommit
  <2>2. req[s].key \in Keys /\ req[s].user \in Users
    BY <1>2 DEF SettleCommit, At, Inv, CallsInOrder, CallFits
  <2> QED
    BY <1>2, <2>1, <2>2, PostFrame DEF SettlePost, PayOut
<1>3. ASSUME NEW k \in Keys, OpenDispute(k) PROVE EscrowFrame
  BY <1>3, DisputeRowsPersist DEF EscrowFrame, OpenDispute, Posted
<1>4. ASSUME NEW s \in Slots,
             \/ HoldFunds(s) \/ HoldLeg(s) \/ SettleLeg(s) \/ Respond(s) \/ Fail(s)
             \/ HoldDuplicate(s) \/ HoldRefused(s) \/ SettleDuplicate(s) \/ SettleRefused(s)
      PROVE  UNCHANGED <<journals, bal, escrow>>
  BY <1>4 DEF HoldFunds, HoldLeg, SettleLeg, Respond, Fail, HoldDuplicate, HoldRefused,
              SettleDuplicate, SettleRefused
<1>5. ASSUME NEW s \in Slots, EscrowStep(s) \/ Respond(s) \/ Fail(s) PROVE EscrowFrame
  BY <1>1, <1>2, <1>4, <1>5, SameTablesFrame DEF EscrowStep, HoldCommit, SettleCommit
<1>6. ASSUME NEW s \in Slots, NEW payer \in Users, NEW payee \in Users, NEW k \in Keys,
             HoldCall(s, payer, payee, k)
      PROVE  EscrowFrame
  BY <1>6, SameTablesFrame DEF HoldCall
<1>7. ASSUME NEW s \in Slots, NEW op \in Ops, NEW k \in Keys, SettleCall(s, op, k)
      PROVE  EscrowFrame
  BY <1>7, SameTablesFrame DEF SettleCall
<1>8. CASE UNCHANGED escrowVars
  BY <1>8, SameTablesFrame DEF escrowVars
<1> QED
  BY <1>3, <1>5, <1>6, <1>7, <1>8 DEF EscrowNext

LEMMA SettleCallRequest ==
  ASSUME Inv, NEW s \in Slots, NEW op \in Ops, NEW k \in Keys, SettleCall(s, op, k)
  PROVE  \E q \in Calls :
           /\ req' = [req EXCEPT ![s] = q]
           /\ q.op = op /\ q.key = k /\ q.pc # "idle"
           /\ q.pc = "returned" => escrow'[k].status = TerminalOf(op)
<1>1. Recipient(op, k) \in Users
  BY DEF Inv, RowsWellFormed, SettleCall, Recipient
<1>2. PICK pc \in {"leg", "commit", "returned"} :
        /\ req' = [req EXCEPT ![s] = Call(pc, op, k, Recipient(op, k), None)]
        /\ pc = "returned" => escrow[k].status = TerminalOf(op)
  BY DEF SettleCall, LegOrCommit
<1>3. PICK q \in Calls : q = Call(pc, op, k, Recipient(op, k), None)
  BY <1>1 DEF Call, Calls
<1>4. q.op = op /\ q.key = k /\ q.pc = pc
  BY <1>3 DEF Call
<1> QED
  BY <1>2, <1>3, <1>4 DEF SettleCall

(* How the request of a slot looks after the escrow service ran for it:    *)
(* over, or further on with the same operands.                             *)
LEMMA EscrowRunRequest ==
  ASSUME Inv, NEW s \in Slots, EscrowStep(s)
  PROVE  /\ ~At(s, "idle")
         /\ \/ req' = [req EXCEPT ![s] = Idle]
            \/ \E q \in Calls :
                 /\ req' = [req EXCEPT ![s] = q]
                 /\ q.pc # "idle"
                 /\ q.op = req[s].op /\ q.key = req[s].key /\ q.payee = req[s].payee
                 /\ q.pc = "returned" =>
                      IF q.op = "hold" THEN Exists(q.key)'
                                       ELSE escrow'[q.key].status = TerminalOf(q.op)
<1>1. req[s] \in Calls /\ CallFits(req[s])
  BY DEF Inv, EscrowTypeOK, CallsInOrder
<1>2. ~At(s, "idle")
  BY DEF EscrowStep, HoldFunds, HoldLeg, HoldCommit, SettleLeg, SettleCommit, At
<1>3. PICK k, op : k = req[s].key /\ op = req[s].op
  OBVIOUS
<1>4. ASSUME NEW pc \in {"leg", "commit", "returned"}, Goto(s, pc),
             pc = "returned" =>
               IF op = "hold" THEN Exists(k)' ELSE escrow'[k].status = TerminalOf(op)
      PROVE  \E q \in Calls :
               /\ req' = [req EXCEPT ![s] = q]
               /\ q.pc # "idle"
               /\ q.op = req[s].op /\ q.key = req[s].key /\ q.payee = req[s].payee
               /\ q.pc = "returned" =>
                    IF q.op = "hold" THEN Exists(q.key)'
                                     ELSE escrow'[q.key].status = TerminalOf(q.op)
  <2>1. PICK q \in Calls : q = [req[s] EXCEPT !.pc = pc]
    BY <1>1 DEF Calls
  <2>2. q.pc = pc /\ q.op = op /\ q.key = k /\ q.payee = req[s].payee
    BY <1>1, <1>3, <2>1 DEF Calls
  <2>3. req' = [req EXCEPT ![s] = q]
    BY <1>1, <1>4, <2>1 DEF Goto
  <2>4. q.pc = "returned" =>
          IF q.op = "hold" THEN Exists(q.key)' ELSE escrow'[q.key].status = TerminalOf(q.op)
    BY <1>4, <2>2
  <2> QED
    BY <1>3, <1>4, <2>2, <2>3, <2>4
<1>5. CASE HoldFunds(s) \/ HoldLeg(s) \/ SettleLeg(s)
  <2>1. Leave(s) \/ \E pc \in {"leg", "commit"} : Goto(s, pc)
    BY <1>5 DEF HoldFunds, HoldLeg, SettleLeg, LegOrCommit
  <2> QED
    BY <1>2, <1>4, <2>1 DEF Leave
<1>6. CASE HoldCommit(s)
  <2>1. k \in Keys /\ op = "hold"
    BY <1>1, <1>3, <1>6 DEF CallFits, HoldCommit, Holding, At
  <2>2. Leave(s) \/ (Goto(s, "returned") /\ Exists(k)')
    <3>1. HoldDuplicate(s) => Goto(s, "returned") /\ Exists(k)'
      BY <1>3 DEF HoldDuplicate, Exists
    <3>2. HoldRefused(s) => Leave(s)
      BY DEF HoldRefused
    <3>3. HoldPost(s) => Goto(s, "returned") /\ Exists(k)'
      BY <1>3, <2>1 DEF HoldPost, InsertHold, Exists, Row, Inv, EscrowTypeOK
    <3> QED
      BY <1>6, <3>1, <3>2, <3>3 DEF HoldCommit
  <2> QED
    BY <1>2, <1>4, <2>1, <2>2 DEF Leave
<1>7. CASE SettleCommit(s)
  <2>1. k \in Keys /\ op \in Ops
    BY <1>1, <1>3, <1>7 DEF CallFits, SettleCommit, Settling, At
  <2>2. Leave(s) \/ (Goto(s, "returned") /\ escrow'[k].status = TerminalOf(op))
    <3>1. SettleDuplicate(s) => Goto(s, "returned") /\ escrow'[k].status = TerminalOf(op)
      BY <1>3 DEF SettleDuplicate
    <3>2. SettleRefused(s) => Leave(s)
      BY DEF SettleRefused
    <3>3. SettlePost(s) => Goto(s, "returned") /\ escrow'[k].status = TerminalOf(op)
      BY <1>3, <2>1 DEF SettlePost, PayOut, Row, Inv, EscrowTypeOK
    <3> QED
      BY <1>7, <3>1, <3>2, <3>3 DEF SettleCommit
  <2>3. op # "hold"
    BY <2>1 DEF Ops
  <2> QED
    BY <1>2, <1>4, <2>2, <2>3 DEF Leave
<1> QED
  BY <1>5, <1>6, <1>7 DEF EscrowStep

-----------------------------------------------------------------------------
(* Escrow implements EscrowPromise: the two transactions that post a       *)
(* journal and the one that opens a dispute are the promise's steps, every *)
(* other step is a stutter.                                                *)

LEMMA PromiseInit == EscrowInit => Promise!Init
BY EscrowAssumption, OpeningAssumption
   DEF EscrowInit, LedgerInit, Promise!Init, Exists, NoRow, Row

LEMMA PromiseStutters ==
  ASSUME UNCHANGED <<escrow, bal>>
  PROVE  UNCHANGED Promise!promiseVars
BY DEF Promise!promiseVars, Exists

(* How the three variables of the promise follow a change of one row and   *)
(* of one user's balance.                                                  *)
LEMMA StatusFollows ==
  ASSUME NEW k \in Keys, NEW st,
         escrow'[k].status = st, \A j \in Keys \ {k} : escrow'[j] = escrow[j]
  PROVE  [j \in Keys |-> escrow[j].status]' =
           [[j \in Keys |-> escrow[j].status] EXCEPT ![k] = st]
OBVIOUS

LEMMA PartiesFollow ==
  ASSUME \A j \in Keys : /\ Exists(j)' <=> Exists(j)
                         /\ escrow'[j].payer = escrow[j].payer
                         /\ escrow'[j].payee = escrow[j].payee
  PROVE  [k \in {j \in Keys : Exists(j)} |->
            [payer |-> escrow[k].payer, payee |-> escrow[k].payee]]' =
         [k \in {j \in Keys : Exists(j)} |->
            [payer |-> escrow[k].payer, payee |-> escrow[k].payee]]
<1>1. {j \in Keys : Exists(j)}' = {j \in Keys : Exists(j)}
  OBVIOUS
<1> QED
  BY <1>1

LEMMA CashFollows ==
  ASSUME NEW u \in Users, NEW n, \A v \in Users : bal'[v] = IF v = u THEN n ELSE bal[v]
  PROVE  [v \in Users |-> bal[v]]' = [[v \in Users |-> bal[v]] EXCEPT ![u] = n]
OBVIOUS

LEMMA HoldIsPromised ==
  ASSUME Inv, NEW s \in Slots, Holding(s), At(s, "commit"), HoldPost(s)
  PROVE  Promise!Next
<1> USE EscrowAssumption DEF Inv
<1>1. req[s] \in Calls /\ CallFits(req[s])
  BY DEF EscrowTypeOK, CallsInOrder
<1>2. PICK k \in Keys, payer \in Users, payee \in Users :
        /\ k = req[s].key /\ payer = req[s].user /\ payee = req[s].payee
        /\ payer # payee /\ Amount[k] \in Nat \ {0}
  BY <1>1 DEF CallFits, Holding, At
<1>3. ~Exists(k) /\ ~Posted(<<"escrow:hold", k>>) /\ bal[payer] >= Amount[k]
  BY <1>2 DEF HoldPost, RowsMatchJournals
<1>4. \A a \in Accounts : bal'[a] = bal[a] + Move(payer, EscrowAcct, Amount[k])[a]
  <2>1. Move(payer, EscrowAcct, Amount[k]) \in Effects
    BY <1>2, MoveType
  <2>2. PostJournal(<<"escrow:hold", k>>, Move(payer, EscrowAcct, Amount[k]))
    BY <1>2 DEF HoldPost, InsertHold
  <2> QED
    BY <1>3, <2>1, <2>2, PostFresh DEF EscrowTypeOK
<1>5. \A u \in Users : /\ bal[u] \in Int
                       /\ bal'[u] = IF u = payer THEN bal[u] - Amount[k] ELSE bal[u]
  <2> SUFFICES ASSUME NEW u \in Users
               PROVE  /\ bal[u] \in Int
                      /\ bal'[u] = IF u = payer THEN bal[u] - Amount[k] ELSE bal[u]
    OBVIOUS
  <2>1. u \in Accounts /\ u # EscrowAcct /\ bal[u] \in Int
    BY DEF EscrowTypeOK, LedgerTypeOK, Effects
  <2> QED
    BY <1>2, <1>4, <2>1 DEF Move
<1>6. /\ escrow'[k].status = "held" /\ escrow'[k].payer = payer /\ escrow'[k].payee = payee
      /\ \A j \in Keys \ {k} : escrow'[j] = escrow[j]
  BY <1>2 DEF HoldPost, InsertHold, Row, EscrowTypeOK
<1>7. [j \in Keys |-> escrow[j].status]' =
        [[j \in Keys |-> escrow[j].status] EXCEPT ![k] = "held"]
  BY <1>2, <1>6, StatusFollows
<1>8. [u \in Users |-> bal[u]]' =
        [[u \in Users |-> bal[u]] EXCEPT ![payer] = bal[payer] - Amount[k]]
  BY <1>2, <1>5, CashFollows
<1>9. {j \in Keys : Exists(j)}' = {j \in Keys : Exists(j)} \cup {k}
  BY <1>2, <1>6 DEF Exists
<1>10. PICK P : P = [i \in {j \in Keys : Exists(j)} |->
                       [payer |-> escrow[i].payer, payee |-> escrow[i].payee]]
  OBVIOUS
<1>11. [i \in {j \in Keys : Exists(j)} |->
          [payer |-> escrow[i].payer, payee |-> escrow[i].payee]]' =
       [j \in DOMAIN P \cup {k} |->
          IF j = k THEN [payer |-> payer, payee |-> payee] ELSE P[j]]
  <2>1. DOMAIN P \cup {k} = {j \in Keys : Exists(j)}'
    BY <1>9, <1>10
  <2>2. \A j \in {i \in Keys : Exists(i)}' :
          [payer |-> escrow'[j].payer, payee |-> escrow'[j].payee] =
            IF j = k THEN [payer |-> payer, payee |-> payee] ELSE P[j]
    BY <1>6, <1>9, <1>10
  <2> QED
    BY <2>1, <2>2
<1>12. Promise!Hold(k, payer, payee)
  <2>1. /\ [j \in Keys |-> escrow[j].status][k] = "none"
        /\ [u \in Users |-> bal[u]][payer] = bal[payer]
    BY <1>2, <1>3 DEF Exists
  <2> QED
    BY <1>2, <1>3, <1>7, <1>8, <1>10, <1>11, <2>1 DEF Promise!Hold
<1> QED
  BY <1>2, <1>12 DEF Promise!Next

LEMMA SettleIsPromised ==
  ASSUME Inv, NEW s \in Slots, Settling(s), At(s, "commit"), SettlePost(s)
  PROVE  Promise!Next
<1> USE EscrowAssumption DEF Inv
<1>1. req[s] \in Calls /\ CallFits(req[s]) /\ req[s].op \in Ops
  BY DEF EscrowTypeOK, CallsInOrder, Settling
<1>2. PICK k \in Keys, op \in Ops, to \in Users :
        /\ k = req[s].key /\ op = req[s].op /\ to = req[s].user
        /\ Exists(k) /\ to = Recipient(op, k) /\ Amount[k] \in Nat \ {0}
  BY <1>1 DEF CallFits, At
<1>3. escrow[k].status \in {"held", "disputed"} /\ ~Posted(<<"escrow:settle", k>>)
  BY <1>2 DEF SettlePost, FromStatus, RowsMatchJournals, Terminal
<1>4. \A a \in Accounts : bal'[a] = bal[a] + Move(EscrowAcct, to, Amount[k])[a]
  <2>1. Move(EscrowAcct, to, Amount[k]) \in Effects
    BY <1>2, MoveType
  <2>2. PostJournal(<<"escrow:settle", k>>, Move(EscrowAcct, to, Amount[k]))
    BY <1>2 DEF SettlePost, PayOut
  <2> QED
    BY <1>3, <2>1, <2>2, PostFresh DEF EscrowTypeOK
<1>5. \A u \in Users : /\ bal[u] \in Int
                       /\ bal'[u] = IF u = to THEN bal[u] + Amount[k] ELSE bal[u]
  <2> SUFFICES ASSUME NEW u \in Users
               PROVE  /\ bal[u] \in Int
                      /\ bal'[u] = IF u = to THEN bal[u] + Amount[k] ELSE bal[u]
    OBVIOUS
  <2>1. u \in Accounts /\ u # EscrowAcct /\ bal[u] \in Int
    BY DEF EscrowTypeOK, LedgerTypeOK, Effects
  <2> QED
    BY <1>2, <1>4, <2>1 DEF Move
<1>6. /\ escrow'[k].status = TerminalOf(op)
      /\ escrow'[k].payer = escrow[k].payer /\ escrow'[k].payee = escrow[k].payee
      /\ \A j \in Keys \ {k} : escrow'[j] = escrow[j]
  BY <1>2 DEF SettlePost, PayOut, Row, EscrowTypeOK
<1>7. [j \in Keys |-> escrow[j].status]' =
        [[j \in Keys |-> escrow[j].status] EXCEPT ![k] = TerminalOf(op)]
  BY <1>2, <1>6, StatusFollows
<1>8. [k_ \in {j \in Keys : Exists(j)} |->
          [payer |-> escrow[k_].payer, payee |-> escrow[k_].payee]]' =
       [k_ \in {j \in Keys : Exists(j)} |->
          [payer |-> escrow[k_].payer, payee |-> escrow[k_].payee]]
  <2>1. \A j \in Keys : /\ Exists(j)' <=> Exists(j)
                        /\ escrow'[j].payer = escrow[j].payer
                        /\ escrow'[j].payee = escrow[j].payee
    BY <1>2, <1>6 DEF Exists, TerminalOf
  <2> QED
    BY <2>1, PartiesFollow
<1>9. [u \in Users |-> bal[u]]' =
        [[u \in Users |-> bal[u]] EXCEPT ![to] = bal[to] + Amount[k]]
  BY <1>2, <1>5, CashFollows
<1>10. CASE Outcome(op) = "release"
  <2>1. TerminalOf(op) = "released" /\ to = escrow[k].payee
    BY <1>2, <1>10 DEF TerminalOf, Recipient
  <2>2. Promise!Release(k)
    BY <1>2, <1>3, <1>7, <1>8, <1>9, <2>1 DEF Promise!Release, Promise!Open, Exists
  <2> QED
    BY <1>2, <2>2 DEF Promise!Next
<1>11. CASE Outcome(op) # "release"
  <2>1. TerminalOf(op) = "refunded" /\ to = escrow[k].payer
    BY <1>2, <1>11 DEF TerminalOf, Recipient
  <2>2. Promise!Refund(k)
    BY <1>2, <1>3, <1>7, <1>8, <1>9, <2>1 DEF Promise!Refund, Promise!Open, Exists
  <2> QED
    BY <1>2, <2>2 DEF Promise!Next
<1> QED
  BY <1>10, <1>11

LEMMA DisputeIsPromised ==
  ASSUME Inv, NEW k \in Keys, OpenDispute(k)
  PROVE  Promise!Next
<1>1. /\ escrow'[k].status = "disputed"
      /\ escrow'[k].payer = escrow[k].payer /\ escrow'[k].payee = escrow[k].payee
      /\ \A j \in Keys \ {k} : escrow'[j] = escrow[j]
      /\ bal' = bal
  BY DEF Inv, EscrowTypeOK, OpenDispute, Rows
<1>2. [j \in Keys |-> escrow[j].status]' =
        [[j \in Keys |-> escrow[j].status] EXCEPT ![k] = "disputed"]
  BY <1>1, StatusFollows
<1>3. [k_ \in {j \in Keys : Exists(j)} |->
         [payer |-> escrow[k_].payer, payee |-> escrow[k_].payee]]' =
      [k_ \in {j \in Keys : Exists(j)} |->
         [payer |-> escrow[k_].payer, payee |-> escrow[k_].payee]]
  <2>1. \A j \in Keys : /\ Exists(j)' <=> Exists(j)
                        /\ escrow'[j].payer = escrow[j].payer
                        /\ escrow'[j].payee = escrow[j].payee
    BY <1>1 DEF Exists, OpenDispute
  <2> QED
    BY <2>1, PartiesFollow
<1>4. Promise!Dispute(k)
  BY <1>1, <1>2, <1>3 DEF Promise!Dispute, OpenDispute
<1> QED
  BY <1>4 DEF Promise!Next

LEMMA PromiseStep ==
  Inv /\ [EscrowNext]_escrowVars => [Promise!Next]_(Promise!promiseVars)
<1> SUFFICES ASSUME Inv, [EscrowNext]_escrowVars
             PROVE  Promise!Next \/ UNCHANGED Promise!promiseVars
  OBVIOUS
<1>1. ASSUME NEW s \in Slots, HoldCommit(s)
      PROVE  Promise!Next \/ UNCHANGED Promise!promiseVars
  BY <1>1, HoldIsPromised, PromiseStutters DEF HoldCommit, HoldDuplicate, HoldRefused
<1>2. ASSUME NEW s \in Slots, SettleCommit(s)
      PROVE  Promise!Next \/ UNCHANGED Promise!promiseVars
  BY <1>2, SettleIsPromised, PromiseStutters DEF SettleCommit, SettleDuplicate, SettleRefused
<1>3. ASSUME NEW s \in Slots, HoldFunds(s) \/ HoldLeg(s) \/ SettleLeg(s) \/ Respond(s) \/ Fail(s)
      PROVE  UNCHANGED Promise!promiseVars
  BY <1>3, PromiseStutters DEF HoldFunds, HoldLeg, SettleLeg, Respond, Fail
<1>4. ASSUME NEW s \in Slots, NEW payer \in Users, NEW payee \in Users, NEW k \in Keys,
             HoldCall(s, payer, payee, k)
      PROVE  UNCHANGED Promise!promiseVars
  BY <1>4, PromiseStutters DEF HoldCall
<1>5. ASSUME NEW s \in Slots, NEW op \in Ops, NEW k \in Keys, SettleCall(s, op, k)
      PROVE  UNCHANGED Promise!promiseVars
  BY <1>5, PromiseStutters DEF SettleCall
<1>6. ASSUME NEW k \in Keys, OpenDispute(k)
      PROVE  Promise!Next
  BY <1>6, DisputeIsPromised
<1>7. CASE UNCHANGED escrowVars
  BY <1>7, PromiseStutters DEF escrowVars
<1> QED
  BY <1>1, <1>2, <1>3, <1>4, <1>5, <1>6, <1>7 DEF EscrowNext, EscrowStep

(* The concurrent, failing, three-step calls of escrowService.ts implement *)
(* the promise: custody is entered once with the payer's own cash and left *)
(* at most once, whole, towards the payee or back to the payer.            *)
THEOREM EscrowImplementsPromise == EscrowSpec => ImplementsPromise
<1>1. Inv /\ [EscrowNext]_escrowVars => [Promise!Next]_(Promise!promiseVars)
  BY PromiseStep
<1>2. EscrowSpec => []Inv
  BY EscrowInvariant
<1>3. EscrowInit => Promise!Init
  BY PromiseInit
<1> QED
  BY <1>1, <1>2, <1>3, PTL DEF EscrowSpec, ImplementsPromise, Promise!Spec
-----------------------------------------------------------------------------
(* Custody and cash: sums over the rows of escrow_payments.                *)

(* The escrows that u paid into and did not get back, and those that were  *)
(* released to u.                                                          *)
PaidBy(u) == {i \in Keys : escrow[i].payer = u /\ escrow[i].status \in Open \cup {"released"}}
ReleasedTo(u) == {i \in Keys : escrow[i].payee = u /\ escrow[i].status = "released"}
OpenKeys == {k \in Keys : escrow[k].status \in Open}

CashFollowsRows ==
  \A u \in Users :
    bal[u] = Opening[u] - SumFunctionOnSet(Amount, PaidBy(u))
                        + SumFunctionOnSet(Amount, ReleasedTo(u))

(* Only finitely many holds have been made: the sums are over finite sets. *)
FinitelyMany == IsFiniteSet({k \in Keys : Exists(k)})

CustodyInv == FinitelyMany /\ PotBacksOpenEscrows /\ CashFollowsRows

(* What a step does to the sums: no row changes its standing, or one hold  *)
(* enters custody, or one open escrow leaves it.                           *)
SameStanding(k) ==
  /\ escrow'[k].payer = escrow[k].payer /\ escrow'[k].payee = escrow[k].payee
  /\ Exists(k)' <=> Exists(k)
  /\ escrow'[k].status \in Open <=> escrow[k].status \in Open
  /\ escrow'[k].status = "released" <=> escrow[k].status = "released"

Entered(k) ==
  /\ ~Exists(k) /\ escrow[k] = NoRow
  /\ escrow'[k].status = "held"
  /\ escrow'[k].payer \in Users /\ escrow'[k].payee \in Users
  /\ Shifted(escrow'[k].payer, EscrowAcct, Amount[k])

Left(k, to) ==
  /\ escrow[k].status \in Open /\ escrow'[k].status \in Terminal
  /\ escrow'[k].payer = escrow[k].payer /\ escrow'[k].payee = escrow[k].payee
  /\ to = (IF escrow'[k].status = "released" THEN escrow[k].payee ELSE escrow[k].payer)
  /\ escrow[k].payer \in Users /\ escrow[k].payee \in Users \ {escrow[k].payer}
  /\ Shifted(EscrowAcct, to, Amount[k])

OthersStay(k) == \A j \in Keys \ {k} : escrow'[j] = escrow[j]

CustodyStep ==
  \/ bal' = bal /\ \A k \in Keys : SameStanding(k)
  \/ \E k \in Keys : OthersStay(k) /\ Entered(k)
  \/ \E k \in Keys, to \in Users : OthersStay(k) /\ Left(k, to)

(* A committed hold enters custody.                                        *)
LEMMA HoldEnters ==
  ASSUME Inv, NEW s \in Slots, Holding(s), At(s, "commit"), HoldPost(s)
  PROVE  CustodyStep
<1> DEFINE k == req[s].key  payer == req[s].user  payee == req[s].payee
<1>1. req[s] \in Calls /\ CallFits(req[s])
  BY DEF Inv, EscrowTypeOK, CallsInOrder
<1>2. k \in Keys /\ payer \in Users /\ payee \in Users /\ Amount[k] \in Int
  BY <1>1, EscrowAssumption DEF CallFits, Holding, At
<1>3. ~Exists(k) /\ ~Posted(<<"escrow:hold", k>>) /\ escrow[k] = NoRow
  BY <1>2 DEF HoldPost, Inv, RowsMatchJournals, RowsWellFormed
<1>4. Shifted(payer, EscrowAcct, Amount[k])
  <2>1. Move(payer, EscrowAcct, Amount[k]) \in Effects
    BY <1>2, MoveType
  <2> QED
    BY <1>3, <2>1, PostFresh DEF HoldPost, InsertHold, Inv, EscrowTypeOK, Shifted
<1>5. /\ escrow'[k].status = "held" /\ escrow'[k].payer = payer /\ escrow'[k].payee = payee
      /\ OthersStay(k)
  BY <1>2 DEF HoldPost, InsertHold, Inv, EscrowTypeOK, Row, OthersStay
<1> QED
  BY <1>2, <1>3, <1>4, <1>5 DEF CustodyStep, Entered

(* A committed settlement leaves custody.                                  *)
LEMMA SettleLeaves ==
  ASSUME Inv, NEW s \in Slots, Settling(s), At(s, "commit"), SettlePost(s)
  PROVE  CustodyStep
<1> DEFINE k == req[s].key  op == req[s].op  to == req[s].user
<1>1. req[s] \in Calls /\ CallFits(req[s])
  BY DEF Inv, EscrowTypeOK, CallsInOrder
<1>2. k \in Keys /\ op \in Ops /\ to \in Users /\ to = Recipient(op, k) /\ Amount[k] \in Int
  BY <1>1, EscrowAssumption DEF CallFits, Settling, At
<1>3. /\ escrow[k].status \in Open
      /\ escrow[k].payer \in Users /\ escrow[k].payee \in Users \ {escrow[k].payer}
      /\ ~Posted(<<"escrow:settle", k>>)
  BY <1>2 DEF SettlePost, FromStatus, Open, Inv, RowsWellFormed, RowsMatchJournals,
              Exists, Terminal
<1>4. Shifted(EscrowAcct, to, Amount[k])
  <2>1. Move(EscrowAcct, to, Amount[k]) \in Effects
    BY <1>2, MoveType
  <2> QED
    BY <1>3, <2>1, PostFresh DEF SettlePost, PayOut, Inv, EscrowTypeOK, Shifted
<1>5. /\ escrow'[k].status = TerminalOf(op)
      /\ escrow'[k].payer = escrow[k].payer /\ escrow'[k].payee = escrow[k].payee
      /\ OthersStay(k)
  BY <1>2 DEF SettlePost, PayOut, Row, Inv, EscrowTypeOK, OthersStay
<1>6. Left(k, to)
  BY <1>2, <1>3, <1>4, <1>5 DEF Left, TerminalOf, Recipient, Terminal
<1> QED
  BY <1>2, <1>5, <1>6 DEF CustodyStep

(* Every other step leaves every row's standing and every balance alone.   *)
LEMMA StepIsCustodyStep ==
  ASSUME Inv, [EscrowNext]_escrowVars
  PROVE  CustodyStep
<1>1. ASSUME UNCHANGED <<bal, escrow>> PROVE CustodyStep
  BY <1>1 DEF CustodyStep, SameStanding, Exists
<1>2. ASSUME NEW s \in Slots, EscrowStep(s) \/ Respond(s) \/ Fail(s) PROVE CustodyStep
  <2>1. CASE HoldCommit(s) /\ HoldPost(s)
    BY <2>1, HoldEnters DEF HoldCommit
  <2>2. CASE SettleCommit(s) /\ SettlePost(s)
    BY <2>2, SettleLeaves DEF SettleCommit
  <2>3. \/ UNCHANGED <<bal, escrow>>
        \/ HoldCommit(s) /\ HoldPost(s)
        \/ SettleCommit(s) /\ SettlePost(s)
    BY <1>2 DEF EscrowStep, HoldFunds, HoldLeg, HoldCommit, HoldDuplicate, HoldRefused,
                SettleLeg, SettleCommit, SettleDuplicate, SettleRefused, Respond, Fail
  <2> QED
    BY <1>1, <2>1, <2>2, <2>3
<1>3. ASSUME NEW k \in Keys, OpenDispute(k) PROVE CustodyStep
  <2>1. /\ escrow[k].status = "held" /\ escrow'[k].status = "disputed"
        /\ escrow'[k].payer = escrow[k].payer /\ escrow'[k].payee = escrow[k].payee
        /\ \A j \in Keys \ {k} : escrow'[j] = escrow[j]
        /\ bal' = bal
    BY <1>3 DEF OpenDispute, Inv, EscrowTypeOK, Rows
  <2>2. \A j \in Keys : SameStanding(j)
    BY <2>1 DEF SameStanding, Exists, Open
  <2> QED
    BY <2>1, <2>2 DEF CustodyStep
<1>4. ASSUME NEW s \in Slots, NEW payer \in Users, NEW payee \in Users, NEW k \in Keys,
             HoldCall(s, payer, payee, k)
      PROVE  CustodyStep
  BY <1>1, <1>4 DEF HoldCall
<1>5. ASSUME NEW s \in Slots, NEW op \in Ops, NEW k \in Keys, SettleCall(s, op, k)
      PROVE  CustodyStep
  BY <1>1, <1>5 DEF SettleCall
<1>6. CASE UNCHANGED escrowVars
  BY <1>1, <1>6 DEF escrowVars
<1> QED
  BY <1>2, <1>3, <1>4, <1>5, <1>6 DEF EscrowNext

(* The sums of a row set are integers, and move with one row.              *)
LEMMA RowSumChange ==
  ASSUME NEW S \in SUBSET Keys, NEW T \in SUBSET Keys, NEW k \in Keys,
         IsFiniteSet(S), IsFiniteSet(T), S \ {k} = T \ {k}
  PROVE  /\ SumFunctionOnSet(Amount, S) \in Int
         /\ SumFunctionOnSet(Amount, T) = SumFunctionOnSet(Amount, S)
                                          + (IF k \in T THEN Amount[k] ELSE 0)
                                          - (IF k \in S THEN Amount[k] ELSE 0)
<1>1. \A j \in Keys : Amount[j] \in Int
  BY EscrowAssumption
<1> QED
  BY <1>1, SumType, SumSetChange

(* The rows that the sums range over exist, so there are finitely many.    *)
LEMMA RowSetsFinite ==
  ASSUME FinitelyMany
  PROVE  /\ IsFiniteSet(OpenKeys)
         /\ \A u \in Users : IsFiniteSet(PaidBy(u)) /\ IsFiniteSet(ReleasedTo(u))
<1> DEFINE E == {k \in Keys : Exists(k)}
<1>1. OpenKeys \subseteq E
  BY DEF OpenKeys, Exists, Open
<1>2. \A u \in Users : PaidBy(u) \subseteq E /\ ReleasedTo(u) \subseteq E
  BY DEF PaidBy, ReleasedTo, Exists, Open
<1> QED
  BY <1>1, <1>2, FS_Subset DEF FinitelyMany

LEMMA CustodyInit == EscrowInit => CustodyInv
<1> SUFFICES ASSUME EscrowInit PROVE CustodyInv
  OBVIOUS
<1>1. \A k \in Keys : escrow[k] = NoRow
  BY DEF EscrowInit
<1>2. {k \in Keys : Exists(k)} = {} /\ OpenKeys = {}
  BY <1>1 DEF Exists, OpenKeys, NoRow, Row, Open
<1>3. \A u \in Users : PaidBy(u) = {} /\ ReleasedTo(u) = {}
  BY <1>1 DEF PaidBy, ReleasedTo, NoRow, Row, Open
<1>4. bal = Opening /\ Opening[EscrowAcct] \in Int /\ \A u \in Users : Opening[u] \in Int
  BY EscrowAssumption, OpeningAssumption DEF EscrowInit, LedgerInit
<1>5. FinitelyMany
  BY <1>2, FS_EmptySet DEF FinitelyMany
<1>6. PotBacksOpenEscrows
  <2>1. SumFunctionOnSet(Amount, OpenKeys) = 0
    BY <1>2, SumEmpty
  <2> QED
    BY <1>4, <2>1 DEF PotBacksOpenEscrows, OpenKeys
<1>7. CashFollowsRows
  <2> SUFFICES ASSUME NEW u \in Users
               PROVE  bal[u] = Opening[u] - SumFunctionOnSet(Amount, PaidBy(u))
                                          + SumFunctionOnSet(Amount, ReleasedTo(u))
    BY DEF CashFollowsRows
  <2>1. /\ SumFunctionOnSet(Amount, PaidBy(u)) = 0
        /\ SumFunctionOnSet(Amount, ReleasedTo(u)) = 0
    BY <1>3, SumEmpty
  <2> QED
    BY <1>4, <2>1
<1> QED
  BY <1>5, <1>6, <1>7 DEF CustodyInv

(* One more hold, or none.                                                 *)
LEMMA FinitelyManyStep ==
  ASSUME FinitelyMany, CustodyStep
  PROVE  FinitelyMany'
<1> DEFINE E == {k \in Keys : Exists(k)}
<1>1. CASE \A k \in Keys : Exists(k)' <=> Exists(k)
  <2>1. E' = E
    BY <1>1
  <2> QED
    BY <2>1 DEF FinitelyMany
<1>2. ASSUME NEW k \in Keys, OthersStay(k) PROVE FinitelyMany'
  <2>1. E' \subseteq E \cup {k}
    BY <1>2 DEF OthersStay, Exists
  <2>2. IsFiniteSet(E \cup {k})
    BY FS_AddElement DEF FinitelyMany
  <2>3. IsFiniteSet(E')
    BY <2>1, <2>2, FS_Subset
  <2> QED
    BY <2>3 DEF FinitelyMany
<1> QED
  BY <1>1, <1>2 DEF CustodyStep, SameStanding

(* The pot moves with the open escrows.                                    *)
LEMMA PotStep ==
  ASSUME EscrowTypeOK, FinitelyMany, FinitelyMany', PotBacksOpenEscrows, CustodyStep
  PROVE  PotBacksOpenEscrows'
<1>1. IsFiniteSet(OpenKeys) /\ IsFiniteSet(OpenKeys')
  <2>1. IsFiniteSet(OpenKeys)
    BY RowSetsFinite
  <2>2. OpenKeys' \subseteq {k \in Keys : Exists(k)}'
    BY DEF OpenKeys, Exists, Open
  <2> QED
    BY <2>1, <2>2, FS_Subset DEF FinitelyMany
<1>2. bal[EscrowAcct] = Opening[EscrowAcct] + SumFunctionOnSet(Amount, OpenKeys)
  BY DEF PotBacksOpenEscrows, OpenKeys
<1>3. EscrowAcct \in Accounts /\ EscrowAcct \notin Users /\ Opening[EscrowAcct] \in Int
  BY EscrowAssumption, OpeningAssumption
<1>4. SUFFICES bal'[EscrowAcct] = Opening[EscrowAcct] + SumFunctionOnSet(Amount, OpenKeys')
  BY DEF PotBacksOpenEscrows, OpenKeys
<1>5. CASE bal' = bal /\ \A k \in Keys : SameStanding(k)
  <2>1. OpenKeys' = OpenKeys
    BY <1>5 DEF OpenKeys, SameStanding
  <2> QED
    BY <1>2, <1>5, <2>1
<1>6. ASSUME NEW k \in Keys, OthersStay(k),
             Entered(k) \/ \E to \in Users : Left(k, to)
      PROVE  bal'[EscrowAcct] = Opening[EscrowAcct] + SumFunctionOnSet(Amount, OpenKeys')
  <2>0. Amount[k] \in Int
    BY EscrowAssumption
  <2>1. OpenKeys \ {k} = OpenKeys' \ {k}
    BY <1>6 DEF OthersStay, OpenKeys
  <2>2. /\ SumFunctionOnSet(Amount, OpenKeys) \in Int
        /\ SumFunctionOnSet(Amount, OpenKeys') = SumFunctionOnSet(Amount, OpenKeys)
                                                 + (IF k \in OpenKeys' THEN Amount[k] ELSE 0)
                                                 - (IF k \in OpenKeys THEN Amount[k] ELSE 0)
    <3>1. OpenKeys \in SUBSET Keys /\ OpenKeys' \in SUBSET Keys
      BY DEF OpenKeys
    <3> QED
      BY <1>1, <2>1, <3>1, RowSumChange
  <2>3. CASE Entered(k)
    <3>1. k \in OpenKeys' /\ k \notin OpenKeys
      BY <2>3 DEF Entered, OpenKeys, Open, Exists
    <3>2. PICK payer \in Users : Shifted(payer, EscrowAcct, Amount[k])
      BY <2>3 DEF Entered
    <3>3. /\ bal[EscrowAcct] \in Int
          /\ bal'[EscrowAcct] = bal[EscrowAcct]
                                + (IF EscrowAcct = EscrowAcct THEN Amount[k] ELSE 0)
                                - (IF EscrowAcct = payer THEN Amount[k] ELSE 0)
      BY <1>3, <2>0, <3>2, ShiftedAt DEF EscrowTypeOK
    <3> QED
      BY <1>2, <1>3, <2>0, <2>2, <3>1, <3>3
  <2>4. CASE \E to \in Users : Left(k, to)
    <3>1. k \notin OpenKeys' /\ k \in OpenKeys
      BY <2>4 DEF Left, OpenKeys, Open, Terminal
    <3>2. PICK to \in Users : Shifted(EscrowAcct, to, Amount[k])
      BY <2>4 DEF Left
    <3>3. /\ bal[EscrowAcct] \in Int
          /\ bal'[EscrowAcct] = bal[EscrowAcct]
                                + (IF EscrowAcct = to THEN Amount[k] ELSE 0)
                                - (IF EscrowAcct = EscrowAcct THEN Amount[k] ELSE 0)
      BY <1>3, <2>0, <3>2, ShiftedAt DEF EscrowTypeOK
    <3> QED
      BY <1>2, <1>3, <2>0, <2>2, <3>1, <3>3
  <2> QED
    BY <1>6, <2>3, <2>4
<1> QED
  BY <1>5, <1>6 DEF CustodyStep

(* A user's cash moves with the rows that name that user.                  *)
LEMMA CashStep ==
  ASSUME EscrowTypeOK, FinitelyMany, FinitelyMany', CashFollowsRows, CustodyStep
  PROVE  CashFollowsRows'
<1> SUFFICES ASSUME NEW u \in Users
             PROVE  bal'[u] = Opening[u] - SumFunctionOnSet(Amount, PaidBy(u)')
                                         + SumFunctionOnSet(Amount, ReleasedTo(u)')
  BY DEF CashFollowsRows
<1>1. /\ IsFiniteSet(PaidBy(u)) /\ IsFiniteSet(PaidBy(u)')
      /\ IsFiniteSet(ReleasedTo(u)) /\ IsFiniteSet(ReleasedTo(u)')
  <2>1. IsFiniteSet(PaidBy(u)) /\ IsFiniteSet(ReleasedTo(u))
    BY RowSetsFinite
  <2>2. /\ PaidBy(u)' \subseteq {k \in Keys : Exists(k)}'
        /\ ReleasedTo(u)' \subseteq {k \in Keys : Exists(k)}'
    BY DEF PaidBy, ReleasedTo, Exists, Open
  <2> QED
    BY <2>1, <2>2, FS_Subset DEF FinitelyMany
<1>2. bal[u] = Opening[u] - SumFunctionOnSet(Amount, PaidBy(u))
                          + SumFunctionOnSet(Amount, ReleasedTo(u))
  BY DEF CashFollowsRows
<1>3. u \in Accounts /\ u # EscrowAcct /\ Opening[u] \in Int
  BY EscrowAssumption, OpeningAssumption
<1>4. CASE bal' = bal /\ \A k \in Keys : SameStanding(k)
  <2>1. PaidBy(u)' = PaidBy(u) /\ ReleasedTo(u)' = ReleasedTo(u)
    BY <1>4 DEF PaidBy, ReleasedTo, SameStanding
  <2> QED
    BY <1>2, <1>4, <2>1
<1>5. ASSUME NEW k \in Keys, OthersStay(k),
             Entered(k) \/ \E to \in Users : Left(k, to)
      PROVE  bal'[u] = Opening[u] - SumFunctionOnSet(Amount, PaidBy(u)')
                                  + SumFunctionOnSet(Amount, ReleasedTo(u)')
  <2>0. Amount[k] \in Int
    BY EscrowAssumption
  <2>1. PaidBy(u) \ {k} = PaidBy(u)' \ {k} /\ ReleasedTo(u) \ {k} = ReleasedTo(u)' \ {k}
    BY <1>5 DEF OthersStay, PaidBy, ReleasedTo
  <2>2. /\ PaidBy(u) \in SUBSET Keys /\ PaidBy(u)' \in SUBSET Keys
        /\ ReleasedTo(u) \in SUBSET Keys /\ ReleasedTo(u)' \in SUBSET Keys
    BY DEF PaidBy, ReleasedTo
  <2>3. PICK p \in Int : p = SumFunctionOnSet(Amount, PaidBy(u))
    BY <1>1, <2>1, <2>2, RowSumChange
  <2>4. PICK r \in Int : r = SumFunctionOnSet(Amount, ReleasedTo(u))
    BY <1>1, <2>1, <2>2, RowSumChange
  <2>5. SumFunctionOnSet(Amount, PaidBy(u)') = p + (IF k \in PaidBy(u)' THEN Amount[k] ELSE 0)
                                                 - (IF k \in PaidBy(u) THEN Amount[k] ELSE 0)
    BY <1>1, <2>1, <2>2, <2>3, RowSumChange
  <2>6. SumFunctionOnSet(Amount, ReleasedTo(u)') =
          r + (IF k \in ReleasedTo(u)' THEN Amount[k] ELSE 0)
            - (IF k \in ReleasedTo(u) THEN Amount[k] ELSE 0)
    BY <1>1, <2>1, <2>2, <2>4, RowSumChange
  <2>7. bal[u] = Opening[u] - p + r
    BY <1>2, <2>3, <2>4
  <2>8. CASE Entered(k)
    <3>1. /\ k \in PaidBy(u)' <=> escrow'[k].payer = u
          /\ k \notin PaidBy(u) /\ k \notin ReleasedTo(u)' /\ k \notin ReleasedTo(u)
      BY <2>8 DEF Entered, PaidBy, ReleasedTo, Open, Exists
    <3>2. bal'[u] = bal[u] - (IF escrow'[k].payer = u THEN Amount[k] ELSE 0)
      BY <1>3, <2>0, <2>8, ShiftedAt DEF Entered, EscrowTypeOK
    <3> QED
      BY <1>3, <2>0, <2>5, <2>6, <2>7, <3>1, <3>2
  <2>9. ASSUME NEW to \in Users, Left(k, to)
        PROVE  bal'[u] = Opening[u] - SumFunctionOnSet(Amount, PaidBy(u)')
                                    + SumFunctionOnSet(Amount, ReleasedTo(u)')
    <3>1. bal'[u] = bal[u] + (IF u = to THEN Amount[k] ELSE 0)
        BY <1>3, <2>0, <2>9, ShiftedAt DEF Left, EscrowTypeOK
    <3>2. /\ k \in PaidBy(u) <=> escrow[k].payer = u
          /\ k \notin ReleasedTo(u)
      BY <2>9 DEF Left, PaidBy, ReleasedTo, Open
    <3>3. CASE escrow'[k].status = "released"
      <4>1. /\ k \in PaidBy(u)' <=> escrow[k].payer = u
            /\ k \in ReleasedTo(u)' <=> u = to
        BY <2>9, <3>3 DEF Left, PaidBy, ReleasedTo
      <4> QED
        BY <1>3, <2>0, <2>5, <2>6, <2>7, <3>1, <3>2, <4>1
    <3>4. CASE escrow'[k].status # "released"
      <4>1. /\ k \notin PaidBy(u)' /\ k \notin ReleasedTo(u)'
            /\ escrow[k].payer = u <=> u = to
        BY <2>9, <3>4 DEF Left, PaidBy, ReleasedTo, Open, Terminal
      <4> QED
        BY <1>3, <2>0, <2>5, <2>6, <2>7, <3>1, <3>2, <4>1
    <3> QED
      BY <3>3, <3>4
  <2> QED
    BY <1>5, <2>8, <2>9
<1> QED
  BY <1>4, <1>5 DEF CustodyStep

(* CustodyInv holds in every state of every run of the escrow layer.       *)
THEOREM EscrowCustodyInvariant == EscrowSpec => []CustodyInv
<1>1. Inv /\ CustodyInv /\ [EscrowNext]_escrowVars => CustodyInv'
  <2> SUFFICES ASSUME Inv, CustodyInv, [EscrowNext]_escrowVars PROVE CustodyInv'
    OBVIOUS
  <2>1. CustodyStep /\ EscrowTypeOK
    BY StepIsCustodyStep DEF Inv
  <2>2. FinitelyMany'
    BY <2>1, FinitelyManyStep DEF CustodyInv
  <2> QED
    BY <2>1, <2>2, PotStep, CashStep DEF CustodyInv
<1> QED
  BY <1>1, CustodyInit, EscrowInvariant, PTL DEF EscrowSpec

(* Custody is whole for any number of escrows, calls and interleavings:    *)
(* the escrow account holds exactly the amounts of the open escrows.       *)
THEOREM EscrowCustodyWhole == EscrowSpec => []PotBacksOpenEscrows
<1>1. CustodyInv => PotBacksOpenEscrows
  BY DEF CustodyInv
<1> QED
  BY <1>1, EscrowCustodyInvariant, PTL

-----------------------------------------------------------------------------
(* GoemonPay *)

PayInv ==
  /\ Inv
  /\ PayTypeOK
  /\ SlotsInOrder
  /\ HeldForOwner
  /\ PaidIntentBacked
  /\ EventsNeverAhead

-----------------------------------------------------------------------------
(* Every step of the payment layer is a step of the escrow layer, or none. *)

LEMMA CallKnown ==
  ASSUME PayInv, NEW s \in Slots
  PROVE  /\ SlotFits(call[s], req[s])
         /\ call[s] \in PayCalls
         /\ req[s] \in Calls
         /\ CallFits(req[s])
BY DEF PayInv, SlotsInOrder, PayTypeOK, Inv, EscrowTypeOK, CallsInOrder

LEMMA HoldIsEscrowStep ==
  ASSUME PayInv, NEW s \in Slots, PayHold(s)
  PROVE  EscrowNext
<1>1. call[s].intent \in Keys /\ call[s].user \in Users
  BY CallKnown DEF PayHold, Busy, SlotFits
<1>2. PICK k \in Keys, payer \in Users, payee \in Users : HoldCall(s, payer, payee, k)
  BY <1>1, PayAssumption DEF PayHold
<1> QED
  BY <1>2 DEF EscrowNext

LEMMA FailIsEscrowStep ==
  ASSUME PayInv, NEW s \in Slots, PayFail(s)
  PROVE  [EscrowNext]_escrowVars
<1>1. SlotFits(call[s], req[s]) /\ req \in [Slots -> Calls]
  BY CallKnown DEF PayInv, Inv, EscrowTypeOK
<1>2. CASE At(s, "idle")
  <2>1. req' = req
    BY <1>1, <1>2 DEF PayFail, Leave, At, SlotFits
  <2> QED
    BY <2>1 DEF PayFail, escrowVars
<1>3. CASE ~At(s, "idle")
  <2>1. Fail(s)
    BY <1>3 DEF PayFail, Fail
  <2> QED
    BY <2>1 DEF EscrowNext
<1> QED
  BY <1>2, <1>3

LEMMA PayStepIsEscrowStep == PayInv /\ [PayNext]_payVars => [EscrowNext]_escrowVars
<1> SUFFICES ASSUME PayInv, [PayNext]_payVars PROVE [EscrowNext]_escrowVars
  OBVIOUS
<1>1. ASSUME NEW i \in Keys, CreateIntent(i) \/ TimePasses(i)
      PROVE  UNCHANGED escrowVars
  BY <1>1 DEF CreateIntent, TimePasses
<1>2. ASSUME NEW i \in Keys, DisputeRoute(i) PROVE EscrowNext
  BY <1>2 DEF DisputeRoute, EscrowNext
<1>3. ASSUME NEW s \in Slots, NEW i \in Keys, NEW u \in Users, PayCall(s, u, i)
      PROVE  UNCHANGED escrowVars
  BY <1>3 DEF PayCall
<1>4. ASSUME NEW s \in Slots, NEW i \in Keys, Capture(s, i) \/ RefundIntent(s, i)
      PROVE  EscrowNext
  <2>1. \E op \in Ops : SettleCall(s, op, i)
    BY <1>4 DEF Capture, RefundIntent, Ops
  <2> QED
    BY <2>1 DEF EscrowNext
<1>5. ASSUME NEW s \in Slots, NEW i \in Keys, DisputeIntent(s, i) \/ Cancel(s, i)
      PROVE  EscrowNext \/ UNCHANGED escrowVars
  BY <1>5 DEF DisputeIntent, Cancel, EscrowNext
<1>6. ASSUME NEW s \in Slots, NEW i \in Keys, NEW op \in Ops, EscrowRoute(s, op, i)
      PROVE  EscrowNext
  BY <1>6 DEF EscrowRoute, EscrowNext
<1>7. ASSUME NEW s \in Slots, PayRead(s) \/ PayExpire(s) \/ CancelWrite(s) \/ LogEvent(s)
      PROVE  UNCHANGED escrowVars
  BY <1>7 DEF PayRead, PayExpire, CancelWrite, LogEvent
<1>8. ASSUME NEW s \in Slots, PayHold(s) PROVE EscrowNext
  BY <1>8, HoldIsEscrowStep
<1>9. ASSUME NEW s \in Slots,
             PayLost(s) \/ PayMark(s) \/ Settled(s) \/ EscrowResponds(s) \/ EscrowRuns(s)
      PROVE  EscrowNext
  <2>1. Respond(s) \/ EscrowStep(s)
    BY <1>9 DEF PayLost, PayMark, Settled, EscrowResponds, EscrowRuns
  <2> QED
    BY <2>1 DEF EscrowNext
<1>10. ASSUME NEW s \in Slots, PayFail(s) PROVE [EscrowNext]_escrowVars
  BY <1>10, FailIsEscrowStep
<1>11. ASSUME KillSwitch \/ \E u \in Suspects : FreezeOrRelease(u)
       PROVE  UNCHANGED escrowVars
  BY <1>11 DEF KillSwitch, FreezeOrRelease
<1>12. ASSUME UNCHANGED payVars PROVE UNCHANGED escrowVars
  BY <1>12 DEF payVars
<1>13. ASSUME NEW s \in Slots, ServerStep(s) PROVE [EscrowNext]_escrowVars
  BY <1>7, <1>8, <1>9, <1>13 DEF ServerStep
<1> QED
  BY <1>1, <1>2, <1>3, <1>4, <1>5, <1>6, <1>10, <1>11, <1>12, <1>13 DEF PayNext

-----------------------------------------------------------------------------
(* Running the escrow service for one slot: rows persist, and a new one    *)
(* pays the merchant that owns the intent.                                 *)
LEMMA EscrowRunRows ==
  ASSUME PayInv, NEW s \in Slots, EscrowStep(s)
  PROVE  RowsPersist /\ HeldForOwner'
<1>1. ASSUME UNCHANGED escrow PROVE RowsPersist /\ HeldForOwner'
  BY <1>1, UnchangedRowsPersist DEF PayInv, HeldForOwner, Exists
<1>2. CASE HoldCommit(s) /\ HoldPost(s)
  <2>1. RowsPersist /\ \A k \in Keys : Exists(k)' => Exists(k) \/ escrow'[k].payee = req[s].payee
    BY <1>2, HoldRowsPersist DEF HoldCommit, PayInv
  <2>2. req[s].key \in Keys /\ req[s].payee = Owner[req[s].key] /\ ~Exists(req[s].key)
    BY <1>2, CallKnown DEF HoldCommit, HoldPost, Holding, At, CallFits, SlotFits
  <2>3. \A j \in Keys \ {req[s].key} : escrow'[j] = escrow[j]
    BY <1>2 DEF HoldPost, InsertHold, PayInv, Inv, EscrowTypeOK
  <2> QED
    BY <2>1, <2>2, <2>3 DEF HeldForOwner, PayInv, RowsPersist, Exists
<1>3. CASE SettleCommit(s) /\ SettlePost(s)
  <2>1. RowsPersist /\ \A k \in Keys : Exists(k)' => Exists(k)
    BY <1>3, SettleRowsPersist DEF SettleCommit, PayInv
  <2> QED
    BY <2>1 DEF HeldForOwner, PayInv, RowsPersist
<1>4. \/ UNCHANGED escrow
      \/ HoldCommit(s) /\ HoldPost(s)
      \/ SettleCommit(s) /\ SettlePost(s)
  BY DEF EscrowStep, HoldFunds, HoldLeg, HoldCommit, HoldDuplicate, HoldRefused,
         SettleLeg, SettleCommit, SettleDuplicate, SettleRefused
<1> QED
  BY <1>1, <1>2, <1>3, <1>4

-----------------------------------------------------------------------------
(* What a slot knows stays true while other slots run.                     *)
LEMMA SlotFitsPersists ==
  ASSUME RowsPersist, NEW c \in PayCalls, NEW q \in Calls, CallFits(q), SlotFits(c, q)
  PROVE  SlotFits(c, q)'
<1>1. c.pc = "log" => EventTrue(c.event, c.intent)'
  BY DEF SlotFits, EventTrue, RowsPersist, Exists, Terminal
<1>2. q.pc = "returned" =>
        IF q.op = "hold" THEN Exists(q.key)' ELSE escrow'[q.key].status = TerminalOf(q.op)
  BY DEF SlotFits, CallFits, RowsPersist, Exists, Terminal, TerminalOf
<1> QED
  BY <1>1, <1>2 DEF SlotFits

(* The frame of every step: it is enough that rows persist, that each slot *)
(* is left alone or fits, and that a new "paid" or event is true.          *)
LEMMA PayFrame ==
  ASSUME PayInv, Inv', PayTypeOK', RowsPersist, HeldForOwner',
         \A t \in Slots : SlotFits(call[t], req[t])' \/ (call'[t] = call[t] /\ req'[t] = req[t]),
         \A i \in Keys : intent'[i].status = "paid" =>
           \/ intent'[i] = intent[i]
           \/ Exists(i)' /\ escrow'[i].payer = intent'[i].payer,
         \A i \in Keys : \A event \in plog'[i] : event \in plog[i] \/ EventTrue(event, i)'
  PROVE  PayInv'
<1>1. SlotsInOrder'
  <2> SUFFICES ASSUME NEW t \in Slots PROVE SlotFits(call[t], req[t])'
    BY DEF SlotsInOrder
  <2>1. CASE call'[t] = call[t] /\ req'[t] = req[t]
    <3>1. PICK c \in PayCalls, q \in Calls :
            c = call[t] /\ q = req[t] /\ CallFits(q) /\ SlotFits(c, q)
      BY CallKnown
    <3>2. SlotFits(c, q)'
      BY <3>1, SlotFitsPersists
    <3> QED
      BY <2>1, <3>1, <3>2
  <2> QED
    BY <2>1
<1>2. PaidIntentBacked'
  <2> SUFFICES ASSUME NEW i \in Keys, intent'[i].status = "paid"
               PROVE  Exists(i)' /\ escrow'[i].payer = intent'[i].payer
                        /\ escrow'[i].payee = Owner[i]
    BY DEF PaidIntentBacked
  <2> QED
    BY DEF PayInv, PaidIntentBacked, RowsPersist, HeldForOwner
<1>3. EventsNeverAhead'
  <2> SUFFICES ASSUME NEW i \in Keys, NEW event \in plog'[i] PROVE EventTrue(event, i)'
    BY DEF EventsNeverAhead
  <2>1. ASSUME EventTrue(event, i) PROVE EventTrue(event, i)'
    BY <2>1 DEF EventTrue, RowsPersist, Exists, Terminal
  <2> QED
    BY <2>1 DEF PayInv, EventsNeverAhead
<1> QED
  BY <1>1, <1>2, <1>3 DEF PayInv

(* A step of one slot.                                                     *)
LEMMA SlotStep ==
  ASSUME PayInv, Inv', RowsPersist, HeldForOwner', NEW s \in Slots,
         NEW c \in PayCalls, call' = [call EXCEPT ![s] = c],
         NEW q \in Calls, req' = [req EXCEPT ![s] = q],
         SlotFits(c, q)',
         intent' \in [Keys -> Intents],
         \A i \in Keys : intent'[i].status = "paid" =>
           \/ intent'[i] = intent[i]
           \/ Exists(i)' /\ escrow'[i].payer = intent'[i].payer,
         plog' \in [Keys -> SUBSET PayEvents],
         \A i \in Keys : \A event \in plog'[i] : event \in plog[i] \/ EventTrue(event, i)',
         UNCHANGED <<payEnabled, frozen, late>>
  PROVE  PayInv'
<1>1. PayTypeOK' /\ call'[s] = c /\ req'[s] = q
  BY DEF PayInv, PayTypeOK, Inv, EscrowTypeOK
<1>2. \A t \in Slots : SlotFits(call[t], req[t])' \/ (call'[t] = call[t] /\ req'[t] = req[t])
  <2> SUFFICES ASSUME NEW t \in Slots
               PROVE  SlotFits(call[t], req[t])' \/ (call'[t] = call[t] /\ req'[t] = req[t])
    OBVIOUS
  <2>1. CASE t = s
    BY <1>1, <2>1
  <2>2. CASE t # s
    BY <2>2 DEF PayInv, PayTypeOK, Inv, EscrowTypeOK
  <2> QED
    BY <2>1, <2>2
<1> QED
  BY <1>1, <1>2, PayFrame

(* ... that touches neither the intents nor their events.                  *)
LEMMA QuietSlot ==
  ASSUME PayInv, Inv', RowsPersist, HeldForOwner', NEW s \in Slots,
         NEW c \in PayCalls, call' = [call EXCEPT ![s] = c],
         NEW q \in Calls, req' = [req EXCEPT ![s] = q],
         SlotFits(c, q)',
         UNCHANGED <<intent, plog, payEnabled, frozen, late>>
  PROVE  PayInv'
<1>1. /\ intent' \in [Keys -> Intents]
      /\ \A i \in Keys : intent'[i].status = "paid" =>
           \/ intent'[i] = intent[i]
           \/ Exists(i)' /\ escrow'[i].payer = intent'[i].payer
      /\ plog' \in [Keys -> SUBSET PayEvents]
      /\ \A i \in Keys : \A event \in plog'[i] : event \in plog[i] \/ EventTrue(event, i)'
  BY DEF PayInv, PayTypeOK
<1> QED
  BY <1>1, SlotStep

(* Steps that leave the escrow rows alone.                                 *)
LEMMA SameRows ==
  ASSUME PayInv, UNCHANGED escrow
  PROVE  RowsPersist /\ HeldForOwner'
BY UnchangedRowsPersist DEF PayInv, HeldForOwner, Exists

LEMMA SlotsTyped ==
  ASSUME PayInv
  PROVE  /\ call \in [Slots -> PayCalls] /\ req \in [Slots -> Calls]
         /\ intent \in [Keys -> Intents] /\ plog \in [Keys -> SUBSET PayEvents]
         /\ \A s \in Slots : req = [req EXCEPT ![s] = req[s]]
         /\ \A s \in Slots : call = [call EXCEPT ![s] = call[s]]
BY DEF PayInv, PayTypeOK, Inv, EscrowTypeOK

LEMMA IdleTypes == Idle \in Calls /\ NoCall \in PayCalls
BY DEF Idle, Call, Calls, NoCall, PayCalls, PayEvents

(* Nothing is left of a call that ended.                                   *)
LEMMA EndFits == SlotFits(NoCall, Idle)'
BY EscrowAssumption DEF SlotFits, NoCall, Idle, Call

-----------------------------------------------------------------------------
LEMMA PayInitInv == PayInit => PayInv
<1> SUFFICES ASSUME PayInit PROVE PayInv
  OBVIOUS
<1>1. Inv
  BY InitInv DEF PayInit
<1>2. PayTypeOK
  BY DEF PayInit, PayTypeOK, Intents, PayCalls, NoCall, PayEvents
<1>3. SlotsInOrder
  BY DEF PayInit, EscrowInit, SlotsInOrder, SlotFits, NoCall, Idle, Call
<1>4. HeldForOwner /\ PaidIntentBacked /\ EventsNeverAhead
  BY DEF PayInit, EscrowInit, HeldForOwner, PaidIntentBacked, EventsNeverAhead, Exists, NoRow, Row
<1> QED
  BY <1>1, <1>2, <1>3, <1>4 DEF PayInv

-----------------------------------------------------------------------------
(* Each operation keeps PayInv; that it keeps Inv is known already.        *)
LEMMA CreateIntentInv ==
  ASSUME PayInv, Inv', NEW i \in Keys, CreateIntent(i)
  PROVE  PayInv'
<1>1. RowsPersist /\ HeldForOwner'
  BY SameRows DEF CreateIntent, escrowVars
<1>2. PayTypeOK'
  BY DEF CreateIntent, PayInv, PayTypeOK, Intents, PayEvents
<1>3. \A j \in Keys : intent'[j].status = "paid" => intent'[j] = intent[j]
  <2>1. intent'[i].status = "requires_payment" /\ \A j \in Keys \ {i} : intent'[j] = intent[j]
    BY SlotsTyped DEF CreateIntent, Intents
  <2> QED
    BY <2>1
<1>4. \A j \in Keys : \A event \in plog'[j] : event \in plog[j] \/ EventTrue(event, j)'
  <2>1. \A j \in Keys : plog'[j] \subseteq plog[j] \cup {"created"}
    BY SlotsTyped DEF CreateIntent
  <2> QED
    BY <2>1 DEF EventTrue
<1>5. \A t \in Slots : call'[t] = call[t] /\ req'[t] = req[t]
  BY DEF CreateIntent, escrowVars
<1> QED
  BY <1>1, <1>2, <1>3, <1>4, <1>5, PayFrame

LEMMA PayCallInv ==
  ASSUME PayInv, Inv', NEW s \in Slots, NEW u \in Users, NEW i \in Keys, PayCall(s, u, i)
  PROVE  PayInv'
<1>1. RowsPersist /\ HeldForOwner'
  BY SameRows DEF PayCall, escrowVars
<1>2. PICK c \in PayCalls : c = [pc |-> "read", user |-> u, intent |-> i, event |-> "paid"]
  BY DEF PayCalls, PayEvents
<1>3. req[s] = Idle
  BY CallKnown DEF PayCall, Free, At, SlotFits
<1>4. req' = [req EXCEPT ![s] = Idle]
  BY <1>3, SlotsTyped DEF PayCall, escrowVars
<1>5. SlotFits(c, Idle)'
  BY <1>2 DEF SlotFits, Idle, Call
<1> QED
  BY <1>1, <1>2, <1>4, <1>5, IdleTypes, QuietSlot DEF PayCall, Begin

LEMMA PayReadInv ==
  ASSUME PayInv, Inv', NEW s \in Slots, PayRead(s)
  PROVE  PayInv'
<1>1. RowsPersist /\ HeldForOwner'
  BY SameRows DEF PayRead, escrowVars
<1>2. SlotFits(call[s], req[s]) /\ call[s] \in PayCalls /\ call[s].pc = "read" /\ req[s] = Idle
  BY CallKnown DEF PayRead, Busy, SlotFits
<1>3. req' = [req EXCEPT ![s] = Idle]
  BY <1>2, SlotsTyped DEF PayRead, escrowVars
<1>4. CASE EndCall(s)
  BY <1>1, <1>3, <1>4, IdleTypes, EndFits, QuietSlot DEF PayRead, EndCall
<1>5. ASSUME NEW pc \in {"expire", "hold"}, Advance(s, pc) PROVE PayInv'
  <2>1. PICK c \in PayCalls : c = [call[s] EXCEPT !.pc = pc]
    BY <1>2 DEF PayCalls
  <2>2. call' = [call EXCEPT ![s] = c]
    BY <1>2, <1>5, <2>1 DEF Advance
  <2>3. SlotFits(c, Idle)'
    BY <1>2, <2>1 DEF SlotFits, PayCalls, Idle, Call
  <2> QED
    BY <1>1, <1>3, <2>2, <2>3, IdleTypes, QuietSlot DEF PayRead
<1> QED
  BY <1>4, <1>5 DEF PayRead

LEMMA PayExpireInv ==
  ASSUME PayInv, Inv', NEW s \in Slots, PayExpire(s)
  PROVE  PayInv'
<1>1. RowsPersist /\ HeldForOwner'
  BY SameRows DEF PayExpire, escrowVars
<1>2. /\ SlotFits(call[s], req[s]) /\ call[s] \in PayCalls /\ call[s].pc = "expire"
      /\ req[s] = Idle /\ call[s].intent \in Keys
  BY CallKnown DEF PayExpire, Busy, SlotFits
<1>3. PICK i \in Keys : i = call[s].intent
  BY <1>2
<1>4. req' = [req EXCEPT ![s] = Idle]
  BY <1>2, SlotsTyped DEF PayExpire, escrowVars
<1>5. PICK c \in PayCalls :
        c = [pc |-> "log", user |-> call[s].user, intent |-> i, event |-> "expired"]
  BY <1>2 DEF PayCalls, PayEvents
<1>6. SlotFits(c, Idle)'
  BY <1>5 DEF SlotFits, Idle, Call, EventTrue
<1>7. /\ intent' \in [Keys -> Intents]
      /\ \A j \in Keys : intent'[j].status = "paid" => intent'[j] = intent[j]
  BY <1>3, SlotsTyped DEF PayExpire, Intents
<1> QED
  BY <1>1, <1>3, <1>4, <1>5, <1>6, <1>7, IdleTypes, SlotsTyped, SlotStep
     DEF PayExpire, ThenLog, Begin

LEMMA PayHoldInv ==
  ASSUME PayInv, Inv', NEW s \in Slots, PayHold(s)
  PROVE  PayInv'
<1>1. RowsPersist /\ HeldForOwner'
  BY SameRows DEF PayHold, HoldCall
<1>2. /\ SlotFits(call[s], req[s]) /\ call[s] \in PayCalls /\ call[s].pc = "hold"
      /\ call[s].intent \in Keys /\ call[s].user \in Users
  BY CallKnown DEF PayHold, Busy, SlotFits
<1>3. PICK i \in Keys, u \in Users : i = call[s].intent /\ u = call[s].user
  BY <1>2
<1>4. PICK pc \in {"funds", "returned"} :
        /\ req' = [req EXCEPT ![s] = Call(pc, "hold", i, u, Owner[i])]
        /\ pc = "returned" => Exists(i)
  BY <1>3 DEF PayHold, HoldCall
<1>5. PICK q \in Calls : q = Call(pc, "hold", i, u, Owner[i])
  BY PayAssumption DEF Call, Calls
<1>6. PICK c \in PayCalls : c = [call[s] EXCEPT !.pc = "held"]
  BY <1>2 DEF PayCalls
<1>7. call' = [call EXCEPT ![s] = c]
  BY <1>2, <1>6 DEF PayHold, Advance
<1>8. c.pc = "held" /\ c.intent = i /\ c.user = u
  BY <1>2, <1>3, <1>6 DEF PayCalls
<1>9. Exists(i)' <=> Exists(i)
  BY DEF Exists, PayHold, HoldCall
<1>10. SlotFits(c, q)'
  BY <1>4, <1>5, <1>8, <1>9 DEF SlotFits, Call
<1> QED
  BY <1>1, <1>4, <1>5, <1>7, <1>10, QuietSlot DEF PayHold

LEMMA PayLostInv ==
  ASSUME PayInv, Inv', NEW s \in Slots, PayLost(s)
  PROVE  PayInv'
<1>1. RowsPersist /\ HeldForOwner'
  BY SameRows DEF PayLost, Respond
<1> QED
  BY <1>1, IdleTypes, EndFits, QuietSlot DEF PayLost, Respond, Leave, EndCall

LEMMA PayMarkInv ==
  ASSUME PayInv, Inv', NEW s \in Slots, PayMark(s)
  PROVE  PayInv'
<1>1. RowsPersist /\ HeldForOwner' /\ escrow' = escrow
  BY SameRows DEF PayMark, Respond
<1>2. /\ SlotFits(call[s], req[s]) /\ call[s] \in PayCalls /\ call[s].pc = "held"
      /\ req[s].pc = "returned"
  BY CallKnown DEF PayMark, Busy, At
<1>3. PICK i \in Keys, u \in Users :
        i = call[s].intent /\ u = call[s].user /\ Exists(i) /\ escrow[i].payer = u
  BY <1>2 DEF SlotFits, PayMark
<1>4. PICK c \in PayCalls : c = [pc |-> "log", user |-> u, intent |-> i, event |-> "paid"]
  BY DEF PayCalls, PayEvents
<1>5. call' = [call EXCEPT ![s] = c]
  BY <1>3, <1>4 DEF PayMark, ThenLog, Begin
<1>6. Exists(i)' /\ escrow'[i].payer = u
  BY <1>1, <1>3 DEF Exists
<1>7. SlotFits(c, Idle)'
  BY <1>4, <1>6 DEF SlotFits, Idle, Call, EventTrue
<1>8. /\ intent' \in [Keys -> Intents]
      /\ \A j \in Keys : intent'[j].status = "paid" =>
           \/ intent'[j] = intent[j]
           \/ Exists(j)' /\ escrow'[j].payer = intent'[j].payer
  <2>1. Paid(u) \in Intents /\ Paid(u).payer = u
    BY DEF Paid, Intents
  <2> QED
    BY <1>3, <1>6, <2>1, SlotsTyped DEF PayMark
<1> QED
  BY <1>1, <1>5, <1>7, <1>8, IdleTypes, SlotsTyped, SlotStep DEF PayMark, Respond, Leave

LEMMA SettleIntentInv ==
  ASSUME PayInv, Inv', NEW s \in Slots, NEW i \in Keys, Capture(s, i) \/ RefundIntent(s, i)
  PROVE  PayInv'
<1>1. RowsPersist /\ HeldForOwner'
  BY SameRows DEF Capture, RefundIntent, SettleCall
<1>2. PICK op \in {"release", "refund"}, event \in {"captured", "refunded"} :
        /\ <<event, op>> \in {<<"captured", "release">>, <<"refunded", "refund">>}
        /\ SettleCall(s, op, i)
        /\ Begin(s, "settle", None, i, event)
  BY DEF Capture, RefundIntent
<1>3. PICK q \in Calls :
        /\ req' = [req EXCEPT ![s] = q]
        /\ q.op = op /\ q.key = i /\ q.pc # "idle"
        /\ q.pc = "returned" => escrow'[i].status = TerminalOf(op)
  BY <1>2, SettleCallRequest DEF Ops, PayInv
<1>4. PICK c \in PayCalls : c = [pc |-> "settle", user |-> None, intent |-> i, event |-> event]
  BY <1>2 DEF PayCalls, PayEvents
<1>5. SlotFits(c, q)'
  BY <1>2, <1>3, <1>4 DEF SlotFits
<1> QED
  BY <1>1, <1>2, <1>3, <1>4, <1>5, QuietSlot DEF Begin, Capture, RefundIntent

LEMMA SettledInv ==
  ASSUME PayInv, Inv', NEW s \in Slots, Settled(s)
  PROVE  PayInv'
<1>1. RowsPersist /\ HeldForOwner' /\ escrow' = escrow
  BY SameRows DEF Settled, Respond
<1>2. /\ SlotFits(call[s], req[s]) /\ call[s] \in PayCalls /\ call[s].pc = "settle"
      /\ req[s].pc = "returned"
  BY CallKnown DEF Settled, Busy, At
<1>3. PICK c \in PayCalls : c = [call[s] EXCEPT !.pc = "log"]
  BY <1>2 DEF PayCalls
<1>4. c.pc = "log" /\ c.intent = call[s].intent /\ c.event = call[s].event
  BY <1>2, <1>3 DEF PayCalls
<1>5. call' = [call EXCEPT ![s] = c]
  BY <1>2, <1>3 DEF Settled, Advance
<1>6. EventTrue(c.event, c.intent)'
  BY <1>1, <1>2, <1>4 DEF SlotFits, EventTrue, Exists, TerminalOf, Outcome
<1>7. c.intent \in Keys
  BY <1>2, <1>4 DEF SlotFits
<1>8. SlotFits(c, Idle)'
  BY <1>4, <1>6, <1>7 DEF SlotFits, Idle, Call
<1> QED
  BY <1>1, <1>5, <1>8, IdleTypes, QuietSlot DEF Settled, Respond, Leave

LEMMA DisputeIntentInv ==
  ASSUME PayInv, Inv', NEW s \in Slots, NEW i \in Keys, DisputeIntent(s, i)
  PROVE  PayInv'
<1>1. RowsPersist /\ HeldForOwner'
  <2>1. CASE OpenDispute(i)
    BY <2>1, DisputeRowsPersist DEF PayInv, RowsPersist, HeldForOwner
  <2>2. CASE UNCHANGED escrowVars
    BY <2>2, SameRows DEF escrowVars
  <2> QED
    BY <2>1, <2>2 DEF DisputeIntent
<1>2. req[s] = Idle /\ req' = req
  BY CallKnown DEF DisputeIntent, Free, At, SlotFits, OpenDispute, escrowVars
<1>3. req' = [req EXCEPT ![s] = Idle]
  BY <1>2, SlotsTyped
<1>4. PICK u \in Users \cup {None} : u = intent[i].payer
  BY SlotsTyped DEF Intents
<1>5. PICK c \in PayCalls : c = [pc |-> "log", user |-> u, intent |-> i, event |-> "disputed"]
  BY DEF PayCalls, PayEvents
<1>6. SlotFits(c, Idle)'
  BY <1>5 DEF SlotFits, Idle, Call, EventTrue
<1> QED
  BY <1>1, <1>3, <1>4, <1>5, <1>6, IdleTypes, QuietSlot DEF DisputeIntent, Begin

LEMMA CancelInv ==
  ASSUME PayInv, Inv', NEW s \in Slots, NEW i \in Keys, Cancel(s, i)
  PROVE  PayInv'
<1>1. RowsPersist /\ HeldForOwner'
  BY SameRows DEF Cancel, escrowVars
<1>2. req[s] = Idle
  BY CallKnown DEF Cancel, Free, At, SlotFits
<1>3. req' = [req EXCEPT ![s] = Idle]
  BY <1>2, SlotsTyped DEF Cancel, escrowVars
<1>4. PICK c \in PayCalls :
        c = [pc |-> "cancel", user |-> None, intent |-> i, event |-> "canceled"]
  BY DEF PayCalls, PayEvents
<1>5. SlotFits(c, Idle)'
  BY <1>4 DEF SlotFits, Idle, Call
<1> QED
  BY <1>1, <1>3, <1>4, <1>5, IdleTypes, QuietSlot DEF Cancel, Begin

LEMMA CancelWriteInv ==
  ASSUME PayInv, Inv', NEW s \in Slots, CancelWrite(s)
  PROVE  PayInv'
<1>1. RowsPersist /\ HeldForOwner'
  BY SameRows DEF CancelWrite, escrowVars
<1>2. /\ SlotFits(call[s], req[s]) /\ call[s] \in PayCalls /\ call[s].pc = "cancel"
      /\ req[s] = Idle /\ call[s].intent \in Keys
  BY CallKnown DEF CancelWrite, Busy, SlotFits
<1>3. PICK i \in Keys : i = call[s].intent
  BY <1>2
<1>4. req' = [req EXCEPT ![s] = Idle]
  BY <1>2, SlotsTyped DEF CancelWrite, escrowVars
<1>5. PICK c \in PayCalls :
        c = [pc |-> "log", user |-> call[s].user, intent |-> i, event |-> "canceled"]
  BY <1>2 DEF PayCalls, PayEvents
<1>6. SlotFits(c, Idle)'
  BY <1>5 DEF SlotFits, Idle, Call, EventTrue
<1>7. /\ intent' \in [Keys -> Intents]
      /\ \A j \in Keys : intent'[j].status = "paid" => intent'[j] = intent[j]
  BY <1>3, SlotsTyped DEF CancelWrite, Intents
<1> QED
  BY <1>1, <1>3, <1>4, <1>5, <1>6, <1>7, IdleTypes, SlotsTyped, SlotStep
     DEF CancelWrite, ThenLog, Begin

LEMMA LogEventInv ==
  ASSUME PayInv, Inv', NEW s \in Slots, LogEvent(s)
  PROVE  PayInv'
<1>1. RowsPersist /\ HeldForOwner' /\ escrow' = escrow
  BY SameRows DEF LogEvent, escrowVars
<1>2. /\ SlotFits(call[s], req[s]) /\ call[s] \in PayCalls /\ call[s].pc = "log"
      /\ req[s] = Idle /\ call[s].intent \in Keys
  BY CallKnown DEF LogEvent, Busy, SlotFits
<1>3. req' = [req EXCEPT ![s] = Idle]
  BY <1>2, SlotsTyped DEF LogEvent, escrowVars
<1>4. PICK i \in Keys, e \in PayEvents : i = call[s].intent /\ e = call[s].event /\ EventTrue(e, i)
  BY <1>2 DEF SlotFits, PayCalls
<1>5. EventTrue(e, i)'
  BY <1>1, <1>4 DEF EventTrue, Exists
<1>6. /\ plog' \in [Keys -> SUBSET PayEvents]
      /\ \A j \in Keys : \A event \in plog'[j] : event \in plog[j] \/ EventTrue(event, j)'
  BY <1>4, <1>5, SlotsTyped DEF LogEvent
<1>7. /\ intent' \in [Keys -> Intents]
      /\ \A j \in Keys : intent'[j] = intent[j]
  BY SlotsTyped DEF LogEvent
<1> QED
  BY <1>1, <1>3, <1>6, <1>7, IdleTypes, EndFits, SlotStep DEF LogEvent, EndCall

LEMMA EscrowRunsInv ==
  ASSUME PayInv, Inv', NEW s \in Slots, EscrowRuns(s)
  PROVE  PayInv'
<1>1. RowsPersist /\ HeldForOwner'
  BY EscrowRunRows DEF EscrowRuns
<1>2. SlotFits(call[s], req[s]) /\ call[s] \in PayCalls /\ ~At(s, "idle")
  BY CallKnown, EscrowRunRequest DEF EscrowRuns, PayInv
<1>3. CASE req' = [req EXCEPT ![s] = Idle]
  <2>1. req'[s] = Idle
    BY <1>3, SlotsTyped
  <2>2. call' = [call EXCEPT ![s] = NoCall]
    BY <2>1 DEF EscrowRuns
  <2> QED
    BY <1>1, <1>3, <2>2, IdleTypes, EndFits, QuietSlot DEF EscrowRuns
<1>4. ASSUME NEW q \in Calls,
             req' = [req EXCEPT ![s] = q], q.pc # "idle",
             q.op = req[s].op, q.key = req[s].key, q.payee = req[s].payee,
             q.pc = "returned" =>
               IF q.op = "hold" THEN Exists(q.key)' ELSE escrow'[q.key].status = TerminalOf(q.op)
      PROVE  PayInv'
  <2>1. req'[s] # Idle
    BY <1>4, SlotsTyped DEF Idle, Call
  <2>2. call' = [call EXCEPT ![s] = call[s]]
    BY <2>1, SlotsTyped DEF EscrowRuns
  <2>3. PICK c \in PayCalls : c = call[s] /\ SlotFits(c, req[s])
    BY <1>2
  <2>4. c.pc \in {"idle", "held", "settle"}
    BY <1>2, <2>3 DEF SlotFits, PayCalls, At, Idle, Call
  <2>5. SlotFits(c, q)'
    BY <1>4, <2>3, <2>4 DEF SlotFits
  <2> QED
    BY <1>1, <1>4, <2>2, <2>3, <2>5, QuietSlot DEF EscrowRuns
<1> QED
  BY <1>3, <1>4, EscrowRunRequest DEF EscrowRuns, PayInv

LEMMA EscrowRouteInv ==
  ASSUME PayInv, Inv', NEW s \in Slots, NEW op \in Ops, NEW i \in Keys, EscrowRoute(s, op, i)
  PROVE  PayInv'
<1>1. RowsPersist /\ HeldForOwner'
  BY SameRows DEF EscrowRoute, SettleCall
<1>2. PICK q \in Calls :
        /\ req' = [req EXCEPT ![s] = q]
        /\ q.op = op /\ q.key = i /\ q.pc # "idle"
        /\ q.pc = "returned" => escrow'[i].status = TerminalOf(op)
  BY SettleCallRequest DEF EscrowRoute, PayInv
<1>3. PICK c \in PayCalls : c = call[s] /\ c.pc = "idle"
  BY CallKnown DEF EscrowRoute, Free, Busy
<1>4. call' = [call EXCEPT ![s] = c]
  BY <1>3, SlotsTyped DEF EscrowRoute, payOnly
<1>5. SlotFits(c, q)'
  BY <1>2, <1>3 DEF SlotFits, Ops
<1> QED
  BY <1>1, <1>2, <1>4, <1>5, QuietSlot DEF EscrowRoute, payOnly

LEMMA EscrowRespondsInv ==
  ASSUME PayInv, Inv', NEW s \in Slots, EscrowResponds(s)
  PROVE  PayInv'
<1>1. RowsPersist /\ HeldForOwner'
  BY SameRows DEF EscrowResponds, Respond
<1>2. PICK c \in PayCalls : c = call[s] /\ c.pc = "idle"
  BY CallKnown DEF EscrowResponds, Busy
<1>3. call' = [call EXCEPT ![s] = c]
  BY <1>2, SlotsTyped DEF EscrowResponds, payOnly
<1>4. SlotFits(c, Idle)'
  BY <1>2 DEF SlotFits, Idle, Call
<1> QED
  BY <1>1, <1>2, <1>3, <1>4, IdleTypes, QuietSlot DEF EscrowResponds, Respond, Leave, payOnly

LEMMA PayFailInv ==
  ASSUME PayInv, Inv', NEW s \in Slots, PayFail(s)
  PROVE  PayInv'
<1>1. RowsPersist /\ HeldForOwner'
  BY SameRows DEF PayFail
<1> QED
  BY <1>1, IdleTypes, EndFits, QuietSlot DEF PayFail, Leave, EndCall

LEMMA DisputeRouteInv ==
  ASSUME PayInv, Inv', NEW i \in Keys, DisputeRoute(i)
  PROVE  PayInv'
<1>1. RowsPersist /\ HeldForOwner'
  BY DisputeRowsPersist DEF DisputeRoute, PayInv, RowsPersist, HeldForOwner
<1>2. PayTypeOK'
  BY DEF PayInv, PayTypeOK, DisputeRoute, payOnly
<1>3. UNCHANGED <<intent, plog, call, req>>
  BY DEF DisputeRoute, payOnly, OpenDispute
<1> QED
  BY <1>1, <1>2, <1>3, PayFrame

LEMMA WorldInv ==
  ASSUME PayInv, Inv',
         \/ KillSwitch
         \/ \E u \in Suspects : FreezeOrRelease(u)
         \/ \E i \in Keys : TimePasses(i)
         \/ UNCHANGED payVars
  PROVE  PayInv'
<1>1. UNCHANGED <<escrowVars, intent, plog, call>>
  BY DEF KillSwitch, FreezeOrRelease, TimePasses, payVars, payOnly
<1>2. RowsPersist /\ HeldForOwner'
  BY <1>1, SameRows DEF escrowVars
<1>3. PayTypeOK'
  <2>1. payEnabled' \in BOOLEAN /\ frozen' \subseteq Users /\ late' \subseteq Keys
    BY PayAssumption
       DEF PayInv, PayTypeOK, KillSwitch, FreezeOrRelease, TimePasses, payVars, payOnly
  <2> QED
    BY <1>1, <2>1 DEF PayInv, PayTypeOK
<1> QED
  BY <1>1, <1>2, <1>3, PayFrame DEF escrowVars

LEMMA PayNextInv == PayInv /\ [PayNext]_payVars => PayInv'
<1> SUFFICES ASSUME PayInv, [PayNext]_payVars PROVE PayInv'
  OBVIOUS
<1>1. Inv'
  BY PayStepIsEscrowStep, NextInv DEF PayInv
<1>2. ASSUME NEW i \in Keys, CreateIntent(i) \/ DisputeRoute(i) PROVE PayInv'
  BY <1>1, <1>2, CreateIntentInv, DisputeRouteInv
<1>3. ASSUME NEW s \in Slots, NEW i \in Keys, NEW u \in Users, PayCall(s, u, i) PROVE PayInv'
  BY <1>1, <1>3, PayCallInv
<1>4. ASSUME NEW s \in Slots, NEW i \in Keys,
             \/ Capture(s, i) \/ RefundIntent(s, i)
             \/ DisputeIntent(s, i) \/ Cancel(s, i)
      PROVE  PayInv'
  BY <1>1, <1>4, SettleIntentInv, DisputeIntentInv, CancelInv
<1>5. ASSUME NEW s \in Slots, NEW i \in Keys, NEW op \in Ops, EscrowRoute(s, op, i)
      PROVE  PayInv'
  BY <1>1, <1>5, EscrowRouteInv
<1>6. ASSUME NEW s \in Slots, ServerStep(s) PROVE PayInv'
  BY <1>1, <1>6, PayReadInv, PayExpireInv, PayHoldInv, PayLostInv, PayMarkInv, SettledInv,
     CancelWriteInv, LogEventInv, EscrowRunsInv, EscrowRespondsInv DEF ServerStep
<1>7. ASSUME NEW s \in Slots, PayFail(s) PROVE PayInv'
  BY <1>1, <1>7, PayFailInv
<1>8. ASSUME \/ KillSwitch
             \/ \E u \in Suspects : FreezeOrRelease(u)
             \/ \E i \in Keys : TimePasses(i)
             \/ UNCHANGED payVars
      PROVE  PayInv'
  BY <1>1, <1>8, WorldInv
<1> QED
  BY <1>2, <1>3, <1>4, <1>5, <1>6, <1>7, <1>8 DEF PayNext

(* PayInv holds in every state of every run of the payment layer.          *)
THEOREM PayInvariant == PaySpec => []PayInv
BY PayInitInv, PayNextInv, PTL DEF PaySpec

-----------------------------------------------------------------------------
(* A paid intent is protected by the escrow of its own payer in favour of  *)
(* the merchant, however payments, cancellations and expiries race.        *)
THEOREM PayPaidIntentBacked == PaySpec => []PaidIntentBacked
<1>1. PayInv => PaidIntentBacked
  BY DEF PayInv
<1> QED
  BY <1>1, PayInvariant, PTL

(* payment_events never reports money that has not moved.                  *)
THEOREM PayEventsNeverAhead == PaySpec => []EventsNeverAhead
<1>1. PayInv => EventsNeverAhead
  BY DEF PayInv
<1> QED
  BY <1>1, PayInvariant, PTL

(* The tables and the slots of the payment layer keep their shape.         *)
THEOREM PayTypes == PaySpec => []PayTypeOK
<1>1. PayInv => PayTypeOK
  BY DEF PayInv
<1> QED
  BY <1>1, PayInvariant, PTL

(* The payment layer is a client of the escrow layer: each of its steps is *)
(* an escrow step or leaves the escrow layer alone.                        *)
THEOREM PayImplementsEscrow == PaySpec => PayKeepsEscrow
<1>1. PayInit => EscrowInit
  BY DEF PayInit
<1>2. PayInv /\ [PayNext]_payVars => [EscrowNext]_escrowVars
  BY PayStepIsEscrowStep
<1> QED
  BY <1>1, <1>2, PayInvariant, PTL DEF PaySpec, PayKeepsEscrow, EscrowSpec

(* Hence the promise of the escrow layer holds of payments as well:        *)
(* custody is entered once with the payer's own cash and left once, whole. *)
THEOREM PayKeepsPromise == PaySpec => ImplementsPromise
BY PayImplementsEscrow, EscrowImplementsPromise, PTL DEF PayKeepsEscrow

(* Every user's cash is what the escrow rows say, for any number of        *)
(* payments, retries and races (paymentService.ts:27-29).                  *)
THEOREM PayCashExplained == PaySpec => []CashExplained
<1>1. CustodyInv => CashExplained
  BY DEF CustodyInv, CashFollowsRows, CashExplained, PaidBy, ReleasedTo
<1> QED
  BY <1>1, PayImplementsEscrow, EscrowCustodyInvariant, PTL DEF PayKeepsEscrow

-----------------------------------------------------------------------------
(* The derived status.                                                     *)

(* A dispute is not taken back, so that a row only goes forward.           *)
RowsGoForward ==
  /\ RowsPersist
  /\ \A k \in Keys : escrow[k].status = "disputed" => escrow'[k].status # "held"

LEMMA EscrowGoesForward ==
  ASSUME Inv, [EscrowNext]_escrowVars
  PROVE  RowsGoForward
<1>1. RowsPersist
  BY EscrowStepFrame DEF EscrowFrame
<1>2. ASSUME UNCHANGED escrow PROVE RowsGoForward
  BY <1>1, <1>2 DEF RowsGoForward
<1>3. ASSUME NEW s \in Slots, HoldCommit(s), HoldPost(s) PROVE RowsGoForward
  <2>1. PICK k \in Keys : k = req[s].key
    BY <1>3 DEF HoldCommit, At, Inv, CallsInOrder, CallFits
  <2>2. ~Exists(k) /\ \A j \in Keys \ {k} : escrow'[j] = escrow[j]
    BY <1>3, <2>1 DEF HoldPost, InsertHold, Inv, EscrowTypeOK
  <2> QED
    BY <1>1, <2>2 DEF RowsGoForward, Exists
<1>4. ASSUME NEW s \in Slots, SettleCommit(s), SettlePost(s) PROVE RowsGoForward
  <2>1. PICK k \in Keys, op \in Ops : k = req[s].key /\ op = req[s].op
    BY <1>4 DEF SettleCommit, Settling, At, Inv, CallsInOrder, CallFits
  <2>2. escrow'[k].status \in Terminal /\ \A j \in Keys \ {k} : escrow'[j] = escrow[j]
    BY <1>4, <2>1 DEF SettlePost, PayOut, Inv, EscrowTypeOK, Row, TerminalOf, Terminal
  <2> QED
    BY <1>1, <2>2 DEF RowsGoForward, Terminal
<1>5. ASSUME NEW k \in Keys, OpenDispute(k) PROVE RowsGoForward
  <2>1. escrow'[k].status = "disputed" /\ \A j \in Keys \ {k} : escrow'[j] = escrow[j]
    BY <1>5 DEF OpenDispute, Inv, EscrowTypeOK, Rows
  <2> QED
    BY <1>1, <2>1 DEF RowsGoForward
<1>6. ASSUME NEW s \in Slots, EscrowStep(s) \/ Respond(s) \/ Fail(s) PROVE RowsGoForward
  <2>1. \/ UNCHANGED escrow
        \/ HoldCommit(s) /\ HoldPost(s)
        \/ SettleCommit(s) /\ SettlePost(s)
    BY <1>6 DEF EscrowStep, HoldFunds, HoldLeg, HoldCommit, HoldDuplicate, HoldRefused,
                SettleLeg, SettleCommit, SettleDuplicate, SettleRefused, Respond, Fail
  <2> QED
    BY <1>2, <1>3, <1>4, <2>1
<1>7. ASSUME NEW s \in Slots,
             \/ \E payer, payee \in Users, k \in Keys : HoldCall(s, payer, payee, k)
             \/ \E op \in Ops, k \in Keys : SettleCall(s, op, k)
      PROVE  UNCHANGED escrow
  BY <1>7 DEF HoldCall, SettleCall
<1>8. ASSUME UNCHANGED escrowVars PROVE UNCHANGED escrow
  BY <1>8 DEF escrowVars
<1> QED
  BY <1>2, <1>5, <1>6, <1>7, <1>8 DEF EscrowNext

(* One statement writes an intent, and its WHERE allows it to.             *)
IntentEdges ==
  {<<"none", "requires_payment">>, <<"requires_payment", "expired">>,
   <<"requires_payment", "canceled">>, <<"expired", "canceled">>}

IntentsGoForward ==
  \A i \in Keys :
    \/ intent'[i] = intent[i]
    \/ <<intent[i].status, intent'[i].status>> \in IntentEdges
    \/ intent[i].status = "requires_payment" /\ intent'[i].status = "paid"

LEMMA PayGoesForward ==
  ASSUME PayInv, [PayNext]_payVars
  PROVE  IntentsGoForward
<1> USE DEF IntentsGoForward
<1>0. intent \in [Keys -> Intents] /\ \A s \in Slots : call[s].pc # "idle" => call[s].intent \in Keys
  BY CallKnown, SlotsTyped DEF SlotFits
<1>1. ASSUME UNCHANGED intent PROVE IntentsGoForward
  BY <1>1
<1>2. ASSUME NEW i \in Keys, CreateIntent(i) PROVE IntentsGoForward
  BY <1>0, <1>2 DEF CreateIntent, IntentEdges, Intents
<1>3. ASSUME NEW s \in Slots, PayExpire(s) PROVE IntentsGoForward
  BY <1>0, <1>3 DEF PayExpire, Busy, IntentEdges, Intents
<1>4. ASSUME NEW s \in Slots, PayMark(s) PROVE IntentsGoForward
  BY <1>0, <1>4 DEF PayMark, Busy, Paid, Intents
<1>5. ASSUME NEW s \in Slots, CancelWrite(s) PROVE IntentsGoForward
  BY <1>0, <1>5 DEF CancelWrite, Busy, IntentEdges, Intents
<1>6. ASSUME NEW s \in Slots, ServerStep(s) \/ PayFail(s) PROVE IntentsGoForward
  BY <1>1, <1>3, <1>4, <1>5, <1>6
     DEF ServerStep, PayFail, PayRead, PayHold, PayLost, Settled, LogEvent, EscrowRuns, EscrowResponds,
         payOnly
<1>7. ASSUME NEW s \in Slots, NEW i \in Keys,
             \/ \E u \in Users : PayCall(s, u, i)
             \/ Capture(s, i) \/ RefundIntent(s, i) \/ DisputeIntent(s, i) \/ Cancel(s, i)
             \/ \E op \in Ops : EscrowRoute(s, op, i)
      PROVE  UNCHANGED intent
  BY <1>7 DEF PayCall, Capture, RefundIntent, DisputeIntent, Cancel, EscrowRoute, payOnly
<1>8. ASSUME \/ \E i \in Keys : DisputeRoute(i) \/ TimePasses(i)
             \/ KillSwitch
             \/ \E u \in Suspects : FreezeOrRelease(u)
             \/ UNCHANGED payVars
      PROVE  UNCHANGED intent
  BY <1>8 DEF DisputeRoute, TimePasses, KillSwitch, FreezeOrRelease, payVars, payOnly
<1> QED
  BY <1>1, <1>2, <1>6, <1>7, <1>8 DEF PayNext

(* The diagram that payments show: two tables, written by different steps, *)
(* of different requests, go through it together.                          *)
LEMMA EffectiveGoesForward ==
  ASSUME PayInv, [PayNext]_payVars, PayInv', NEW i \in Keys, Effective(i)' # Effective(i)
  PROVE  <<Effective(i), Effective(i)'>> \in PayEdges
<1>1. IntentsGoForward /\ RowsGoForward
  BY PayGoesForward, PayStepIsEscrowStep, EscrowGoesForward DEF PayInv
<1>2. /\ escrow[i].status \in {"none", "held", "disputed", "released", "refunded"}
      /\ escrow'[i].status \in {"none", "held", "disputed", "released", "refunded"}
  BY DEF PayInv, Inv, EscrowTypeOK, Rows, Open, Terminal
<1>3. /\ intent[i].status = "paid" => escrow[i].status # "none"
      /\ intent'[i].status = "paid" => escrow'[i].status # "none"
  BY DEF PayInv, PaidIntentBacked, Exists
<1>4. CASE intent'[i] = intent[i]
  <2>1. intent[i].status = "paid"
    BY <1>4 DEF Effective
  <2>2. /\ escrow[i].status \in Terminal => escrow'[i].status = escrow[i].status
        /\ escrow[i].status = "disputed" => escrow'[i].status # "held"
    BY <1>1, <1>3, <2>1 DEF RowsGoForward, RowsPersist, Exists
  <2> QED
    BY <1>2, <1>3, <1>4, <2>1, <2>2 DEF Effective, PayEdges, Terminal
<1>5. CASE <<intent[i].status, intent'[i].status>> \in IntentEdges
  BY <1>5 DEF Effective, PayEdges, IntentEdges
<1>6. CASE intent[i].status = "requires_payment" /\ intent'[i].status = "paid"
  BY <1>2, <1>3, <1>6 DEF Effective, PayEdges
<1> QED
  BY <1>1, <1>4, <1>5, <1>6 DEF IntentsGoForward

(* The effective status follows the diagram of paymentService.ts:16-20,    *)
(* for any number of intents, payers and requests.                         *)
THEOREM PayStatusFollowsDiagram == PaySpec => StatusFollowsDiagram
<1>1. PayInv /\ PayInv' /\ [PayNext]_payVars =>
        [\A i \in Keys : Effective(i)' # Effective(i) => <<Effective(i), Effective(i)'>> \in PayEdges]_payVars
  BY EffectiveGoesForward
<1> QED
  BY <1>1, PayInvariant, PTL DEF PaySpec, StatusFollowsDiagram

-----------------------------------------------------------------------------
(* Purchases *)

PurchaseInv ==
  /\ Inv
  /\ PurchaseTypeOK
  /\ PurchasesInOrder
  /\ DeliveryFollowsPayment
  /\ StatusFollowsEscrow
  /\ UnitDeliveredOnce

Statuses == OpenStatuses \cup Ended \cup {"none"}

(* What StatusFollowsEscrow says of one purchase.                          *)
StatusTrue(st, k) ==
  /\ st # "none" => Exists(k)
  /\ st = "completed" => Delivered(k)
  /\ st = "refunded" => escrow[k].status = "refunded"

-----------------------------------------------------------------------------
(* What a slot knows stays true while rows and deliveries persist.         *)
DeliveriesPersist == \A k \in Keys : Delivered(k) => Delivered(k)'

LEMMA PurchaseFitsPersists ==
  ASSUME RowsPersist, DeliveriesPersist,
         NEW c \in PurchaseCalls, NEW q \in Calls, CallFits(q), PurchaseFits(c, q)
  PROVE  PurchaseFits(c, q)'
<1>1. q.pc = "returned" =>
        IF q.op = "hold" THEN Exists(q.key)' ELSE escrow'[q.key].status = TerminalOf(q.op)
  BY DEF PurchaseFits, CallFits, RowsPersist, Exists, Terminal, TerminalOf
<1>2. /\ c.pc = "sync" => escrow'[c.key].status = TerminalOf(c.op)
      /\ c.pc = "deliver" => escrow'[c.key].status = "released"
  BY DEF PurchaseFits, RowsPersist, Exists, Terminal, TerminalOf
<1>3. c.pc = "write" =>
        /\ Exists(c.key)'
        /\ c.op \in {"confirm", "resolve_release"} => Delivered(c.key)'
        /\ c.op \in {"cancel", "resolve_refund"} => escrow'[c.key].status = "refunded"
  BY DEF PurchaseFits, RowsPersist, DeliveriesPersist, Exists, Terminal
<1> QED
  BY <1>1, <1>2, <1>3 DEF PurchaseFits

LEMMA StatusPersists ==
  ASSUME PurchaseInv, RowsPersist, DeliveriesPersist, UNCHANGED purchase
  PROVE  StatusFollowsEscrow'
BY DEF PurchaseInv, StatusFollowsEscrow, RowsPersist, DeliveriesPersist, Exists, Terminal

(* The frame of every step.                                                *)
LEMMA PurchaseFrame ==
  ASSUME PurchaseInv, Inv', RowsPersist, DeliveriesPersist, PurchaseTypeOK',
         DeliveryFollowsPayment', UnitDeliveredOnce', StatusFollowsEscrow',
         \A t \in Slots :
           PurchaseFits(deal[t], req[t])' \/ (deal'[t] = deal[t] /\ req'[t] = req[t])
  PROVE  PurchaseInv'
<1> SUFFICES ASSUME NEW t \in Slots PROVE PurchaseFits(deal[t], req[t])'
  BY DEF PurchaseInv, PurchasesInOrder
<1>1. CASE deal'[t] = deal[t] /\ req'[t] = req[t]
  <2>1. PICK c \in PurchaseCalls, q \in Calls :
          c = deal[t] /\ q = req[t] /\ CallFits(q) /\ PurchaseFits(c, q)
    BY DEF PurchaseInv, PurchaseTypeOK, PurchasesInOrder, Inv, EscrowTypeOK, CallsInOrder
  <2>2. PurchaseFits(c, q)'
    BY <2>1, PurchaseFitsPersists
  <2> QED
    BY <1>1, <2>1, <2>2
<1> QED
  BY <1>1

-----------------------------------------------------------------------------
(* An escrow step delivers nothing and takes nothing from the treasury.    *)
LEMMA EscrowDeliversNothing ==
  ASSUME PurchaseInv, [EscrowNext]_escrowVars
  PROVE  /\ Inv' /\ RowsPersist /\ DeliveriesPersist
         /\ DeliveryFollowsPayment' /\ UnitDeliveredOnce'
<1>1. Inv' /\ EscrowFrame
  BY NextInv, EscrowStepFrame DEF PurchaseInv
<1>2. ASSUME NEW k \in Keys PROVE Delivered(k)' <=> Delivered(k)
  <2>1. ASSUME NEW op \in {"confirm", "resolve_release"}
        PROVE  Posted(DeliveryKey(op, k))' <=> Posted(DeliveryKey(op, k))
    <3>1. PICK key : key = DeliveryKey(op, k)
      OBVIOUS
    <3>2. \A j \in Keys : key # <<"escrow:hold", j>> /\ key # <<"escrow:settle", j>>
      BY <2>1, <3>1 DEF DeliveryKey
    <3>3. Posted(key)' <=> Posted(key)
      BY <1>1, <3>2 DEF EscrowFrame
    <3> QED
      BY <3>1, <3>3
  <2> QED
    BY <2>1 DEF Delivered
<1>3. RowsPersist /\ bal'[Treasury] = bal[Treasury]
  BY <1>1, PurchaseAssumption DEF EscrowFrame
<1>4. DeliveryFollowsPayment'
  BY <1>2, <1>3 DEF DeliveryFollowsPayment, PurchaseInv, RowsPersist, Exists, Terminal
<1> QED
  BY <1>1, <1>2, <1>3, <1>4 DEF DeliveriesPersist, UnitDeliveredOnce, PurchaseInv

LEMMA DealsTyped ==
  ASSUME PurchaseInv
  PROVE  /\ deal \in [Slots -> PurchaseCalls] /\ req \in [Slots -> Calls]
         /\ purchase \in [Keys -> Statuses] /\ listing \in Listings
         /\ \A s \in Slots : PurchaseFits(deal[s], req[s])
BY DEF PurchaseInv, PurchaseTypeOK, PurchasesInOrder, Inv, EscrowTypeOK, Statuses

LEMMA IdleDeals == Idle \in Calls /\ NoDeal \in PurchaseCalls
BY DEF Idle, Call, Calls, NoDeal, PurchaseCalls

LEMMA EndDealFits == PurchaseFits(NoDeal, Idle) /\ PurchaseFits(NoDeal, Idle)'
BY DEF PurchaseFits, NoDeal, Idle, Call

(* A step of one slot, its part in the escrow layer included, that leaves  *)
(* the purchases alone.                                                    *)
LEMMA EscrowSlotStep ==
  ASSUME PurchaseInv, [EscrowNext]_escrowVars, NEW s \in Slots,
         NEW c \in PurchaseCalls, deal' = [deal EXCEPT ![s] = c],
         NEW q \in Calls, req' = [req EXCEPT ![s] = q],
         PurchaseFits(c, q)',
         UNCHANGED <<purchase, listing>>
  PROVE  PurchaseInv'
<1>1. /\ Inv' /\ RowsPersist /\ DeliveriesPersist
      /\ DeliveryFollowsPayment' /\ UnitDeliveredOnce'
  BY EscrowDeliversNothing
<1>2. StatusFollowsEscrow'
  BY <1>1, StatusPersists
<1>3. PurchaseTypeOK' /\ deal'[s] = c /\ req'[s] = q
  BY DEF PurchaseInv, PurchaseTypeOK, Inv, EscrowTypeOK
<1>4. \A t \in Slots \ {s} : deal'[t] = deal[t] /\ req'[t] = req[t]
  BY DealsTyped
<1>5. \A t \in Slots :
        PurchaseFits(deal[t], req[t])' \/ (deal'[t] = deal[t] /\ req'[t] = req[t])
  BY <1>3, <1>4
<1> QED
  BY <1>1, <1>2, <1>3, <1>5, PurchaseFrame

(* A step of one slot that leaves the escrow's tables alone: what it needs *)
(* to know can be read in the state before it.                             *)
LEMMA ShopStep ==
  ASSUME PurchaseInv, [EscrowNext]_escrowVars, UNCHANGED <<journals, bal, escrow>>,
         NEW s \in Slots,
         NEW c \in PurchaseCalls, deal' = [deal EXCEPT ![s] = c],
         NEW q \in Calls, req' = [req EXCEPT ![s] = q],
         PurchaseFits(c, q),
         purchase' \in [Keys -> Statuses], listing' \in Listings,
         \A k \in Keys : purchase'[k] = purchase[k] \/ StatusTrue(purchase'[k], k)
  PROVE  PurchaseInv'
<1>1. /\ Inv' /\ RowsPersist /\ DeliveriesPersist
      /\ DeliveryFollowsPayment' /\ UnitDeliveredOnce'
  BY EscrowDeliversNothing
<1>2. StatusFollowsEscrow'
  BY DEF PurchaseInv, StatusFollowsEscrow, StatusTrue, Exists, Delivered, Posted
<1>3. PurchaseTypeOK' /\ deal'[s] = c /\ req'[s] = q
  BY DEF PurchaseInv, PurchaseTypeOK, Inv, EscrowTypeOK, Statuses
<1>4. PurchaseFits(c, q)'
  BY DEF PurchaseFits, Exists, Delivered, Posted
<1>5. \A t \in Slots \ {s} : deal'[t] = deal[t] /\ req'[t] = req[t]
  BY DealsTyped
<1>6. \A t \in Slots :
        PurchaseFits(deal[t], req[t])' \/ (deal'[t] = deal[t] /\ req'[t] = req[t])
  BY <1>3, <1>4, <1>5
<1> QED
  BY <1>1, <1>2, <1>3, <1>6, PurchaseFrame

(* ... and the escrow layer altogether.                                    *)
LEMMA ClientStep ==
  ASSUME PurchaseInv, UNCHANGED escrowVars, NEW s \in Slots, req[s] = Idle,
         NEW c \in PurchaseCalls, deal' = [deal EXCEPT ![s] = c],
         PurchaseFits(c, Idle),
         purchase' \in [Keys -> Statuses], listing' \in Listings,
         \A k \in Keys : purchase'[k] = purchase[k] \/ StatusTrue(purchase'[k], k)
  PROVE  PurchaseInv'
<1>1. req' = [req EXCEPT ![s] = Idle]
  BY DealsTyped DEF escrowVars
<1>2. UNCHANGED <<journals, bal, escrow>>
  BY DEF escrowVars
<1> QED
  BY <1>1, <1>2, ShopStep, IdleDeals

-----------------------------------------------------------------------------
(* How an operation begins, goes on and ends.                              *)
LEMMA BeginStep ==
  ASSUME PurchaseInv, UNCHANGED <<escrowVars, purchase, listing>>, NEW s \in Slots, NoDealAt(s),
         NEW pc, NEW op, NEW k \in Keys, BeginDeal(s, pc, op, k),
         \A p \in BOOLEAN :
           LET c == [pc |-> pc, op |-> op, key |-> k, public |-> p]
           IN  c \in PurchaseCalls /\ PurchaseFits(c, Idle)
  PROVE  PurchaseInv'
<1>1. PICK c \in PurchaseCalls :
        /\ c = [pc |-> pc, op |-> op, key |-> k, public |-> listing = "public"]
        /\ PurchaseFits(c, Idle)
  OBVIOUS
<1>2. deal' = [deal EXCEPT ![s] = c]
  BY <1>1 DEF BeginDeal
<1>3. req[s] = Idle
  BY DealsTyped DEF NoDealAt, DealAt, PurchaseFits
<1> QED
  BY <1>1, <1>2, <1>3, ClientStep, DealsTyped

(* A slot that goes on to another step of its operation.                   *)
LEMMA Further ==
  ASSUME PurchaseInv, NEW s \in Slots,
         NEW pc \in {"hold", "insert", "pause", "settled", "sync", "deliver", "write", "list",
                     "answer"},
         DealGoes(s, pc)
  PROVE  \E c \in PurchaseCalls :
           /\ deal' = [deal EXCEPT ![s] = c]
           /\ c.pc = pc /\ c.op = deal[s].op /\ c.key = deal[s].key
<1>1. deal[s] \in PurchaseCalls
  BY DealsTyped
<1>2. PICK c \in PurchaseCalls : c = [deal[s] EXCEPT !.pc = pc]
  BY <1>1 DEF PurchaseCalls
<1>3. c.pc = pc /\ c.op = deal[s].op /\ c.key = deal[s].key
  BY <1>1, <1>2 DEF PurchaseCalls
<1> QED
  BY <1>2, <1>3 DEF DealGoes

(* An operation that is over leaves nothing in its slot.                   *)
LEMMA EndStep ==
  ASSUME PurchaseInv, UNCHANGED <<escrowVars, purchase>>, NEW s \in Slots, req[s] = Idle,
         EndDeal(s), listing' \in Listings
  PROVE  PurchaseInv'
BY IdleDeals, EndDealFits, ClientStep, DealsTyped DEF EndDeal

-----------------------------------------------------------------------------
(* Each operation keeps PurchaseInv. *)

LEMMA BuyInv ==
  ASSUME PurchaseInv, NEW s \in Slots, NEW k \in Keys, Buy(s, k)
  PROVE  PurchaseInv'
<1>1. ASSUME NEW p \in BOOLEAN, NEW c, c = [pc |-> "open", op |-> "buy", key |-> k, public |-> p]
      PROVE  c \in PurchaseCalls /\ PurchaseFits(c, Idle)
  BY <1>1 DEF PurchaseCalls, PurchaseFits, Idle, Call
<1> QED
  BY <1>1, BeginStep DEF Buy

LEMMA ShipInv ==
  ASSUME PurchaseInv, NEW s \in Slots, NEW k \in Keys, Ship(s, k)
  PROVE  PurchaseInv'
<1>1. Exists(k)
  BY DEF Ship, PurchaseInv, StatusFollowsEscrow
<1>2. ASSUME NEW p \in BOOLEAN, NEW c, c = [pc |-> "write", op |-> "ship", key |-> k, public |-> p]
      PROVE  c \in PurchaseCalls /\ PurchaseFits(c, Idle)
  BY <1>1, <1>2 DEF PurchaseCalls, PurchaseFits, Idle, Call
<1> QED
  BY <1>2, BeginStep DEF Ship

LEMMA ConfirmInv ==
  ASSUME PurchaseInv, NEW s \in Slots, NEW k \in Keys, Confirm(s, k)
  PROVE  PurchaseInv'
<1>1. ASSUME NEW p \in BOOLEAN, NEW c, c = [pc |-> "call", op |-> "confirm", key |-> k, public |-> p]
      PROVE  c \in PurchaseCalls /\ PurchaseFits(c, Idle)
  BY <1>1 DEF PurchaseCalls, PurchaseFits, Idle, Call, Settlers
<1> QED
  BY <1>1, BeginStep DEF Confirm

LEMMA CancelPurchaseInv ==
  ASSUME PurchaseInv, NEW s \in Slots, NEW k \in Keys, CancelPurchase(s, k)
  PROVE  PurchaseInv'
<1>1. ASSUME NEW p \in BOOLEAN, NEW c, c = [pc |-> "call", op |-> "cancel", key |-> k, public |-> p]
      PROVE  c \in PurchaseCalls /\ PurchaseFits(c, Idle)
  BY <1>1 DEF PurchaseCalls, PurchaseFits, Idle, Call, Settlers
<1> QED
  BY <1>1, BeginStep DEF CancelPurchase

LEMMA DisputeInv ==
  ASSUME PurchaseInv, NEW s \in Slots, NEW k \in Keys, Dispute(s, k)
  PROVE  PurchaseInv'
<1>1. ASSUME NEW p \in BOOLEAN, NEW c,
             c = [pc |-> "dispute", op |-> "dispute", key |-> k, public |-> p]
      PROVE  c \in PurchaseCalls /\ PurchaseFits(c, Idle)
  BY <1>1 DEF PurchaseCalls, PurchaseFits, Idle, Call
<1> QED
  BY <1>1, BeginStep DEF Dispute

LEMMA GuardedRouteInv ==
  ASSUME PurchaseInv, NEW s \in Slots, NEW k \in Keys, NEW op \in {"release", "refund"},
         GuardedRoute(s, op, k)
  PROVE  PurchaseInv'
<1>1. ASSUME NEW p \in BOOLEAN, NEW c, c = [pc |-> "call", op |-> op, key |-> k, public |-> p]
      PROVE  c \in PurchaseCalls /\ PurchaseFits(c, Idle)
  BY <1>1 DEF PurchaseCalls, PurchaseFits, Idle, Call, Settlers
<1> QED
  BY <1>1, BeginStep DEF GuardedRoute

LEMMA ResolveInv ==
  ASSUME PurchaseInv, NEW s \in Slots, NEW k \in Keys, NEW op \in Resolutions, Resolve(s, op, k)
  PROVE  PurchaseInv'
<1>0. op \in Ops
  BY DEF Resolutions, Ops
<1>1. PICK q \in Calls :
        /\ req' = [req EXCEPT ![s] = q]
        /\ q.op = op /\ q.key = k /\ q.pc # "idle"
        /\ q.pc = "returned" => escrow'[k].status = TerminalOf(op)
  BY <1>0, SettleCallRequest DEF Resolve, PurchaseInv
<1>2. escrow' = escrow /\ [EscrowNext]_escrowVars /\ UNCHANGED <<journals, bal, escrow>>
  BY <1>0 DEF Resolve, SettleCall, EscrowNext
<1>3. PICK c \in PurchaseCalls :
        c = [pc |-> "settled", op |-> op, key |-> k, public |-> listing = "public"]
  <2>1. \A p \in BOOLEAN : [pc |-> "settled", op |-> op, key |-> k, public |-> p] \in PurchaseCalls
    BY DEF PurchaseCalls
  <2> QED
    BY <2>1
<1>4. EscrowOp(op) = op /\ op # "hold"
  BY DEF EscrowOp, Resolutions
<1>5. PurchaseFits(c, q)
  BY <1>1, <1>2, <1>3, <1>4 DEF PurchaseFits
<1> QED
  BY <1>1, <1>2, <1>3, <1>5, ShopStep, DealsTyped DEF Resolve, BeginDeal

LEMMA BuyCheckInv ==
  ASSUME PurchaseInv, NEW s \in Slots, BuyCheck(s)
  PROVE  PurchaseInv'
<1>1. req[s] = Idle /\ deal[s].key \in Keys
  BY DealsTyped DEF BuyCheck, DealAt, PurchaseFits
<1>2. CASE EndDeal(s)
  BY <1>1, <1>2, EndStep, DealsTyped DEF BuyCheck
<1>3. CASE DealGoes(s, "hold")
  <2>1. PICK c \in PurchaseCalls :
          deal' = [deal EXCEPT ![s] = c] /\ c.pc = "hold" /\ c.key = deal[s].key
    BY <1>3, Further
  <2>2. PurchaseFits(c, Idle)
    BY <1>1, <2>1 DEF PurchaseFits, Idle, Call
  <2> QED
    BY <1>1, <2>1, <2>2, ClientStep, DealsTyped DEF BuyCheck
<1> QED
  BY <1>2, <1>3 DEF BuyCheck

LEMMA BuyHoldInv ==
  ASSUME PurchaseInv, NEW s \in Slots, BuyHold(s)
  PROVE  PurchaseInv'
<1>1. PICK k \in Keys : k = deal[s].key
  BY DealsTyped DEF BuyHold, DealAt, PurchaseFits
<1>2. Buyer[k] \in Users /\ Seller \in Users
  BY PurchaseAssumption
<1>3. PICK pc \in {"funds", "returned"} :
        /\ req' = [req EXCEPT ![s] = Call(pc, "hold", k, Buyer[k], Seller)]
        /\ pc = "returned" => Exists(k)
  BY <1>1 DEF BuyHold, HoldCall
<1>4. PICK q \in Calls : q = Call(pc, "hold", k, Buyer[k], Seller)
  BY <1>2 DEF Call, Calls
<1>5. PICK c \in PurchaseCalls :
        deal' = [deal EXCEPT ![s] = c] /\ c.pc = "insert" /\ c.key = k
  BY <1>1, Further DEF BuyHold
<1>6. PurchaseFits(c, q)
  BY <1>3, <1>4, <1>5 DEF PurchaseFits, Call
<1>7. [EscrowNext]_escrowVars /\ UNCHANGED <<journals, bal, escrow>>
  BY <1>1, <1>2 DEF BuyHold, HoldCall, EscrowNext
<1> QED
  BY <1>3, <1>4, <1>5, <1>6, <1>7, ShopStep, DealsTyped DEF BuyHold

LEMMA RespondIsEscrowStep ==
  ASSUME NEW s \in Slots, Respond(s)
  PROVE  /\ [EscrowNext]_escrowVars /\ UNCHANGED <<journals, bal, escrow>>
         /\ req' = [req EXCEPT ![s] = Idle]
BY DEF Respond, EscrowNext, Leave

LEMMA BuyInsertInv ==
  ASSUME PurchaseInv, NEW s \in Slots, BuyInsert(s)
  PROVE  PurchaseInv'
<1>1. PICK k \in Keys : k = deal[s].key /\ Exists(k)
  BY DealsTyped DEF BuyInsert, DealAt, At, PurchaseFits
<1>2. /\ [EscrowNext]_escrowVars /\ UNCHANGED <<journals, bal, escrow>>
      /\ req' = [req EXCEPT ![s] = Idle]
  BY RespondIsEscrowStep DEF BuyInsert
<1>3. /\ purchase' \in [Keys -> Statuses]
      /\ \A j \in Keys : purchase'[j] = purchase[j] \/ StatusTrue(purchase'[j], j)
  <2>1. "escrow_held" \in Statuses /\ StatusTrue("escrow_held", k)
    BY <1>1 DEF Statuses, OpenStatuses, StatusTrue
  <2> QED
    BY <1>1, <2>1, DealsTyped DEF BuyInsert
<1>4. listing' \in Listings
  BY DealsTyped DEF BuyInsert
<1>5. CASE EndDeal(s)
  BY <1>2, <1>3, <1>4, <1>5, IdleDeals, EndDealFits, ShopStep DEF EndDeal
<1>6. CASE DealGoes(s, "pause")
  <2>1. PICK c \in PurchaseCalls :
          deal' = [deal EXCEPT ![s] = c] /\ c.pc = "pause" /\ c.key = k
    BY <1>1, <1>6, Further
  <2>2. PurchaseFits(c, Idle)
    BY <2>1 DEF PurchaseFits, Idle, Call
  <2> QED
    BY <1>2, <1>3, <1>4, <2>1, <2>2, IdleDeals, ShopStep
<1> QED
  BY <1>5, <1>6 DEF BuyInsert

LEMMA ListingInv ==
  ASSUME PurchaseInv, NEW s \in Slots, BuyPause(s) \/ Answer(s)
  PROVE  PurchaseInv'
<1>1. req[s] = Idle
  BY DealsTyped DEF BuyPause, Answer, DealAt, PurchaseFits
<1>2. listing' \in Listings
  BY DealsTyped DEF BuyPause, Answer, Listings
<1> QED
  BY <1>1, <1>2, EndStep DEF BuyPause, Answer

LEMMA DisputeEscrowInv ==
  ASSUME PurchaseInv, NEW s \in Slots, DisputeEscrow(s)
  PROVE  PurchaseInv'
<1>1. PICK k \in Keys : k = deal[s].key /\ req[s] = Idle /\ deal[s].op = "dispute"
  BY DealsTyped DEF DisputeEscrow, DealAt, PurchaseFits
<1>2. CASE EndDeal(s) /\ UNCHANGED escrowVars
  BY <1>1, <1>2, EndStep, DealsTyped DEF DisputeEscrow
<1>3. ASSUME DealGoes(s, "write"),
             OpenDispute(k) \/ (escrow[k].status = "disputed" /\ UNCHANGED escrowVars)
      PROVE  PurchaseInv'
  <2>1. PICK c \in PurchaseCalls :
          deal' = [deal EXCEPT ![s] = c] /\ c.pc = "write" /\ c.op = "dispute" /\ c.key = k
    BY <1>1, <1>3, Further
  <2>2. [EscrowNext]_escrowVars /\ req' = [req EXCEPT ![s] = Idle] /\ Exists(k)
    BY <1>1, <1>3, DealsTyped DEF EscrowNext, OpenDispute, Exists, escrowVars
  <2>3. Exists(k)'
    BY <2>2, EscrowDeliversNothing DEF RowsPersist
  <2>4. PurchaseFits(c, Idle)'
    BY <2>1, <2>3 DEF PurchaseFits, Idle, Call
  <2> QED
    BY <2>1, <2>2, <2>4, IdleDeals, EscrowSlotStep DEF DisputeEscrow
<1> QED
  BY <1>1, <1>2, <1>3 DEF DisputeEscrow

LEMMA UnguardedDisputeInv ==
  ASSUME PurchaseInv, NEW k \in Keys, UnguardedDispute(k)
  PROVE  PurchaseInv'
<1>1. [EscrowNext]_escrowVars
  BY DEF UnguardedDispute, EscrowNext
<1>2. /\ Inv' /\ RowsPersist /\ DeliveriesPersist
      /\ DeliveryFollowsPayment' /\ UnitDeliveredOnce'
  BY <1>1, EscrowDeliversNothing
<1>3. StatusFollowsEscrow'
  BY <1>2, StatusPersists DEF UnguardedDispute
<1>4. PurchaseTypeOK' /\ \A t \in Slots : deal'[t] = deal[t] /\ req'[t] = req[t]
  BY DEF PurchaseInv, PurchaseTypeOK, UnguardedDispute, OpenDispute
<1> QED
  BY <1>2, <1>3, <1>4, PurchaseFrame

LEMMA CallSettleInv ==
  ASSUME PurchaseInv, NEW s \in Slots, CallSettle(s)
  PROVE  PurchaseInv'
<1>1. PICK k \in Keys, op \in Settlers :
        k = deal[s].key /\ op = deal[s].op /\ req[s] = Idle
  BY DealsTyped DEF CallSettle, DealAt, PurchaseFits
<1>2. EscrowOp(op) \in Ops /\ EscrowOp(op) # "hold"
  BY <1>1 DEF EscrowOp, Ops, Settlers
<1>3. CASE EndDeal(s) /\ UNCHANGED escrowVars
  BY <1>1, <1>3, EndStep, DealsTyped DEF CallSettle
<1>4. CASE SettleCall(s, EscrowOp(op), k) /\ DealGoes(s, "settled")
  <2>1. PICK q \in Calls :
          /\ req' = [req EXCEPT ![s] = q]
          /\ q.op = EscrowOp(op) /\ q.key = k /\ q.pc # "idle"
          /\ q.pc = "returned" => escrow'[k].status = TerminalOf(EscrowOp(op))
    BY <1>2, <1>4, SettleCallRequest DEF PurchaseInv
  <2>2. escrow' = escrow /\ [EscrowNext]_escrowVars /\ UNCHANGED <<journals, bal, escrow>>
    BY <1>2, <1>4 DEF SettleCall, EscrowNext
  <2>3. PICK c \in PurchaseCalls :
          deal' = [deal EXCEPT ![s] = c] /\ c.pc = "settled" /\ c.op = op /\ c.key = k
    BY <1>1, <1>4, Further
  <2>4. PurchaseFits(c, q)
    BY <1>2, <2>1, <2>2, <2>3 DEF PurchaseFits
  <2> QED
    BY <2>1, <2>2, <2>3, <2>4, ShopStep, DealsTyped DEF CallSettle
<1> QED
  BY <1>1, <1>3, <1>4 DEF CallSettle

LEMMA DealSettledInv ==
  ASSUME PurchaseInv, NEW s \in Slots, DealSettled(s)
  PROVE  PurchaseInv'
<1>1. PICK k \in Keys, op \in Settlers \cup Resolutions :
        k = deal[s].key /\ op = deal[s].op /\ escrow[k].status = TerminalOf(EscrowOp(op))
  <2>1. EscrowOp(deal[s].op) # "hold" /\ deal[s].key \in Keys
    BY DealsTyped DEF DealSettled, DealAt, PurchaseFits, EscrowOp, Settlers, Resolutions
  <2> QED
    BY <2>1, DealsTyped DEF DealSettled, DealAt, At, PurchaseFits
<1>2. /\ [EscrowNext]_escrowVars /\ UNCHANGED <<journals, bal, escrow>>
      /\ req' = [req EXCEPT ![s] = Idle]
  BY RespondIsEscrowStep DEF DealSettled
<1>3. ASSUME NEW pc \in {"deliver", "write", "sync"}, DealGoes(s, pc),
             /\ pc = "deliver" => op = "confirm"
             /\ pc = "write" => op = "cancel"
             /\ pc = "sync" => op \in Resolutions
      PROVE  PurchaseInv'
  <2>1. PICK c \in PurchaseCalls :
          deal' = [deal EXCEPT ![s] = c] /\ c.pc = pc /\ c.op = op /\ c.key = k
    BY <1>1, <1>3, Further
  <2>2. /\ op = "confirm" => TerminalOf(EscrowOp(op)) = "released"
        /\ op = "cancel" => TerminalOf(EscrowOp(op)) = "refunded"
        /\ op \in Resolutions => EscrowOp(op) = op
    BY DEF TerminalOf, EscrowOp, Outcome, Resolutions
  <2>3. pc = "write" => Exists(k)
    BY <1>1, <1>3, <2>2 DEF Exists
  <2>4. PurchaseFits(c, Idle)
    BY <1>1, <1>3, <2>1, <2>2, <2>3 DEF PurchaseFits, Idle, Call
  <2> QED
    BY <1>2, <2>1, <2>4, IdleDeals, ShopStep, DealsTyped DEF DealSettled
<1>4. CASE EndDeal(s)
  BY <1>2, <1>4, IdleDeals, EndDealFits, ShopStep, DealsTyped DEF EndDeal, DealSettled
<1>5. \/ op = "confirm" /\ DealGoes(s, "deliver")
      \/ op = "cancel" /\ DealGoes(s, "write")
      \/ op \in Resolutions /\ DealGoes(s, "sync")
      \/ EndDeal(s)
  BY <1>1 DEF DealSettled, Settlers
<1> QED
  BY <1>3, <1>4, <1>5

LEMMA SyncInv ==
  ASSUME PurchaseInv, NEW s \in Slots, Sync(s)
  PROVE  PurchaseInv'
<1>1. PICK k \in Keys, op \in Resolutions :
        /\ k = deal[s].key /\ op = deal[s].op /\ req[s] = Idle
        /\ escrow[k].status = TerminalOf(op)
  BY DealsTyped DEF Sync, DealAt, PurchaseFits
<1>2. PICK pc \in {"answer", "deliver", "write"} :
        /\ DealGoes(s, pc)
        /\ pc = "deliver" => op = "resolve_release"
        /\ pc = "write" => op = "resolve_refund"
  BY <1>1 DEF Sync, Resolutions
<1>3. PICK c \in PurchaseCalls :
        deal' = [deal EXCEPT ![s] = c] /\ c.pc = pc /\ c.op = op /\ c.key = k
  BY <1>1, <1>2, Further
<1>4. /\ pc = "deliver" => escrow[k].status = "released"
      /\ pc = "write" => escrow[k].status = "refunded" /\ Exists(k)
  BY <1>1, <1>2 DEF TerminalOf, Outcome, Exists
<1>5. PurchaseFits(c, Idle)
  BY <1>2, <1>3, <1>4 DEF PurchaseFits, Idle, Call, Resolutions
<1> QED
  BY <1>1, <1>3, <1>5, ClientStep, DealsTyped DEF Sync

(* The status is written last, when what it says has happened.             *)
LEMMA WriteInv ==
  ASSUME PurchaseInv, NEW s \in Slots, Write(s)
  PROVE  PurchaseInv'
<1>1. PICK k \in Keys, op \in {"ship", "dispute", "confirm", "cancel"} \cup Resolutions :
        /\ k = deal[s].key /\ op = deal[s].op /\ req[s] = Idle
        /\ Exists(k)
        /\ op \in {"confirm", "resolve_release"} => Delivered(k)
        /\ op \in {"cancel", "resolve_refund"} => escrow[k].status = "refunded"
  BY DealsTyped DEF Write, DealAt, PurchaseFits
<1>2. NewStatus(op) \in Statuses /\ StatusTrue(NewStatus(op), k)
  BY <1>1 DEF NewStatus, Statuses, OpenStatuses, Ended, StatusTrue, Resolutions
<1>3. /\ purchase' \in [Keys -> Statuses]
      /\ \A j \in Keys : purchase'[j] = purchase[j] \/ StatusTrue(purchase'[j], j)
  <2>1. PICK st \in Statuses : st = NewStatus(op) /\ StatusTrue(st, k)
    BY <1>2
  <2>2. purchase' = [purchase EXCEPT ![k] = st]
    BY <1>1, <2>1 DEF Write
  <2> QED
    BY <2>1, <2>2, DealsTyped
<1>4. UNCHANGED escrowVars /\ listing' \in Listings
  BY DealsTyped DEF Write
<1>5. CASE EndDeal(s)
  BY <1>1, <1>3, <1>4, <1>5, IdleDeals, EndDealFits, ClientStep DEF EndDeal
<1>6. CASE DealGoes(s, "list")
  <2>1. PICK c \in PurchaseCalls :
          deal' = [deal EXCEPT ![s] = c] /\ c.pc = "list" /\ c.key = k
    BY <1>1, <1>6, Further
  <2>2. PurchaseFits(c, Idle)
    BY <2>1 DEF PurchaseFits, Idle, Call
  <2> QED
    BY <1>1, <1>3, <1>4, <2>1, <2>2, ClientStep
<1> QED
  BY <1>5, <1>6 DEF Write

LEMMA RelistInv ==
  ASSUME PurchaseInv, NEW s \in Slots, Relist(s)
  PROVE  PurchaseInv'
<1>1. req[s] = Idle /\ deal[s].key \in Keys
  BY DealsTyped DEF Relist, DealAt, PurchaseFits
<1>2. listing' \in Listings
  BY DealsTyped DEF Relist, Listings
<1>3. CASE EndDeal(s)
  BY <1>1, <1>2, <1>3, EndStep DEF Relist
<1>4. CASE DealGoes(s, "answer")
  <2>1. PICK c \in PurchaseCalls :
          deal' = [deal EXCEPT ![s] = c] /\ c.pc = "answer" /\ c.key = deal[s].key
    BY <1>4, Further
  <2>2. PurchaseFits(c, Idle)
    BY <1>1, <2>1 DEF PurchaseFits, Idle, Call
  <2> QED
    BY <1>1, <1>2, <2>1, <2>2, ClientStep, DealsTyped DEF Relist
<1> QED
  BY <1>3, <1>4 DEF Relist

LEMMA EscrowServesInv ==
  ASSUME PurchaseInv, NEW s \in Slots, EscrowServes(s)
  PROVE  PurchaseInv'
<1>1. [EscrowNext]_escrowVars
  BY DEF EscrowServes, EscrowNext
<1>2. ~At(s, "idle")
  BY EscrowRunRequest DEF EscrowServes, PurchaseInv
<1>3. CASE req' = [req EXCEPT ![s] = Idle]
  <2>1. deal' = [deal EXCEPT ![s] = NoDeal]
    BY <1>3, DealsTyped DEF EscrowServes
  <2> QED
    BY <1>1, <1>3, <2>1, IdleDeals, EndDealFits, EscrowSlotStep DEF EscrowServes
<1>4. ASSUME NEW q \in Calls,
             req' = [req EXCEPT ![s] = q], q.pc # "idle",
             q.op = req[s].op, q.key = req[s].key, q.payee = req[s].payee,
             q.pc = "returned" =>
               IF q.op = "hold" THEN Exists(q.key)' ELSE escrow'[q.key].status = TerminalOf(q.op)
      PROVE  PurchaseInv'
  <2>1. req'[s] # Idle
    BY <1>4, DealsTyped DEF Idle, Call
  <2>2. deal' = [deal EXCEPT ![s] = deal[s]]
    BY <2>1, DealsTyped DEF EscrowServes
  <2>3. PICK c \in PurchaseCalls : c = deal[s] /\ PurchaseFits(c, req[s])
    BY DealsTyped
  <2>4. c.pc \in {"insert", "settled"}
    BY <1>2, <2>3 DEF PurchaseFits, At, Idle, Call
  <2>5. PurchaseFits(c, q)'
    BY <1>4, <2>3, <2>4 DEF PurchaseFits
  <2> QED
    BY <1>1, <1>4, <2>2, <2>3, <2>5, EscrowSlotStep DEF EscrowServes
<1> QED
  BY <1>3, <1>4, EscrowRunRequest DEF EscrowServes, PurchaseInv

LEMMA PurchaseFailIsEscrowStep ==
  ASSUME PurchaseInv, NEW s \in Slots, PurchaseFail(s)
  PROVE  [EscrowNext]_escrowVars
<1>1. CASE At(s, "idle")
  <2>1. req[s] = Idle
    BY <1>1, DealsTyped DEF At, PurchaseFits
  <2>2. req' = req
    BY <2>1, DealsTyped DEF PurchaseFail, Leave
  <2> QED
    BY <2>2 DEF PurchaseFail, escrowVars
<1>2. CASE ~At(s, "idle")
  <2>1. Fail(s)
    BY <1>2 DEF PurchaseFail, Fail
  <2> QED
    BY <2>1 DEF EscrowNext
<1> QED
  BY <1>1, <1>2

LEMMA PurchaseFailInv ==
  ASSUME PurchaseInv, NEW s \in Slots, PurchaseFail(s)
  PROVE  PurchaseInv'
BY PurchaseFailIsEscrowStep, IdleDeals, EndDealFits, EscrowSlotStep DEF PurchaseFail, Leave, EndDeal

-----------------------------------------------------------------------------
(* The delivery is the one step outside the escrow layer that posts a      *)
(* journal.  It leaves the escrows' journals and accounts alone and takes  *)
(* a unit that is there.                                                   *)
LEMMA DeliveryPosts ==
  ASSUME PurchaseInv, NEW k \in Keys, NEW key,
         \A j \in Keys : key # <<"escrow:hold", j>> /\ key # <<"escrow:settle", j>>,
         Posted(key) \/ bal[Treasury] >= 1,
         PostJournal(key, Move(Treasury, Asset[Buyer[k]], 1))
  PROVE  /\ LedgerTypeOK'
         /\ DOMAIN journals' = DOMAIN journals \cup {key}
         /\ \A j \in DOMAIN journals : journals'[j] = journals[j]
         /\ \A a \in Users \cup {EscrowAcct} : bal'[a] = bal[a]
         /\ bal'[Treasury] >= 0
<1>1. PICK d \in Effects : d = Move(Treasury, Asset[Buyer[k]], 1)
  BY MoveType
<1>2. LedgerTypeOK
  BY DEF PurchaseInv, Inv, EscrowTypeOK
<1>3. CASE Posted(key)
  BY <1>2, <1>3 DEF PostJournal, ledgerVars, Posted, LedgerTypeOK, PurchaseInv, UnitDeliveredOnce
<1>4. CASE ~Posted(key)
  <2>1. /\ LedgerTypeOK'
        /\ DOMAIN journals' = DOMAIN journals \cup {key}
        /\ \A j \in DOMAIN journals : journals'[j] = journals[j]
        /\ \A a \in Accounts : bal'[a] = bal[a] + d[a]
    BY <1>1, <1>2, <1>4, PostFresh
  <2>2. Asset[Buyer[k]] \in Accounts \ (Users \cup {EscrowAcct, Treasury})
    BY PurchaseAssumption
  <2>3. \A a \in Users \cup {EscrowAcct} : a \in Accounts /\ a # Treasury /\ a # Asset[Buyer[k]]
    BY <2>2, EscrowAssumption, PurchaseAssumption
  <2>4. \A a \in Users \cup {EscrowAcct} : d[a] = 0
    BY <1>1, <2>3, MoveSpares
  <2>5. d[Treasury] = -1 /\ Treasury \in Accounts
    BY <1>1, <2>2, PurchaseAssumption DEF Move
  <2>6. \A a \in Accounts : bal[a] \in Int
    BY <1>2 DEF LedgerTypeOK, Effects
  <2> QED
    BY <1>4, <2>1, <2>3, <2>4, <2>5, <2>6
<1> QED
  BY <1>3, <1>4

LEMMA DeliveryKeepsEscrow ==
  ASSUME Inv, LedgerTypeOK', UNCHANGED <<escrow, log, chainIn, chainOut, req>>,
         NEW key, \A j \in Keys : key # <<"escrow:hold", j>> /\ key # <<"escrow:settle", j>>,
         DOMAIN journals' = DOMAIN journals \cup {key},
         \A j \in DOMAIN journals : journals'[j] = journals[j],
         \A a \in Users \cup {EscrowAcct} : bal'[a] = bal[a]
  PROVE  Inv'
<1>1. EscrowTypeOK'
  BY DEF Inv, EscrowTypeOK
<1>2. RowsWellFormed' /\ LedgerFollowsChain' /\ EventLogTellsStatus'
  BY DEF Inv, RowsWellFormed, LedgerFollowsChain, EventLogTellsStatus, Exists
<1>3. CallsInOrder'
  BY DEF Inv, CallsInOrder, CallFits, Exists, Recipient
<1>4. NoOverdraft'
  BY DEF Inv, NoOverdraft
<1>5. RowsMatchJournals'
  <2> SUFFICES ASSUME NEW k \in Keys
               PROVE  LET e == escrow[k]  hold == <<"escrow:hold", k>>  settle == <<"escrow:settle", k>> IN
                      /\ Posted(hold)' <=> Exists(k)'
                      /\ Exists(k)' => journals'[hold] = Move(e.payer, EscrowAcct, Amount[k])
                      /\ Posted(settle)' <=> e.status \in Terminal
                      /\ e.status = "released" => journals'[settle] = Move(EscrowAcct, e.payee, Amount[k])
                      /\ e.status = "refunded" => journals'[settle] = Move(EscrowAcct, e.payer, Amount[k])
    BY DEF RowsMatchJournals, Posted, Exists
  <2>1. PICK hold, settle : hold = <<"escrow:hold", k>> /\ settle = <<"escrow:settle", k>>
    OBVIOUS
  <2>2. /\ hold \in DOMAIN journals' <=> hold \in DOMAIN journals
        /\ settle \in DOMAIN journals' <=> settle \in DOMAIN journals
    BY <2>1
  <2>3. /\ hold \in DOMAIN journals <=> Exists(k)
        /\ Exists(k) => journals[hold] = Move(escrow[k].payer, EscrowAcct, Amount[k])
        /\ settle \in DOMAIN journals <=> escrow[k].status \in Terminal
        /\ escrow[k].status = "released" =>
             journals[settle] = Move(EscrowAcct, escrow[k].payee, Amount[k])
        /\ escrow[k].status = "refunded" =>
             journals[settle] = Move(EscrowAcct, escrow[k].payer, Amount[k])
    BY <2>1 DEF Inv, RowsMatchJournals, Posted
  <2>4. Exists(k)' <=> Exists(k)
    BY DEF Exists
  <2> QED
    BY <2>1, <2>2, <2>3, <2>4 DEF Posted, Terminal
<1> QED
  BY <1>1, <1>2, <1>3, <1>4, <1>5 DEF Inv

LEMMA DeliverInv ==
  ASSUME PurchaseInv, NEW s \in Slots, Deliver(s)
  PROVE  PurchaseInv' /\ UNCHANGED escrow /\ \A u \in Users : bal'[u] = bal[u]
<1>1. PICK k \in Keys, op \in {"confirm", "resolve_release"} :
        /\ k = deal[s].key /\ op = deal[s].op /\ req[s] = Idle
        /\ escrow[k].status = "released"
  BY DealsTyped DEF Deliver, DealAt, PurchaseFits
<1>2. PICK key : key = DeliveryKey(op, k)
  OBVIOUS
<1>3. CASE EndDeal(s) /\ UNCHANGED <<journals, bal>>
  BY <1>1, <1>3, EndStep, DealsTyped DEF Deliver, escrowVars
<1>4. CASE /\ Posted(key) \/ bal[Treasury] >= 1
           /\ PostJournal(key, Move(Treasury, Asset[Buyer[k]], 1))
           /\ DealGoes(s, "write")
  <2>1. UNCHANGED <<escrow, log, chainIn, chainOut, req, purchase, listing>>
    BY DEF Deliver
  <2>2. \A j \in Keys : key # <<"escrow:hold", j>> /\ key # <<"escrow:settle", j>>
    BY <1>2 DEF DeliveryKey
  <2>3. /\ LedgerTypeOK'
        /\ DOMAIN journals' = DOMAIN journals \cup {key}
        /\ \A j \in DOMAIN journals : journals'[j] = journals[j]
        /\ \A a \in Users \cup {EscrowAcct} : bal'[a] = bal[a]
        /\ bal'[Treasury] >= 0
    BY <1>4, <2>2, DeliveryPosts
  <2>4. Inv'
    BY <2>1, <2>2, <2>3, DeliveryKeepsEscrow DEF PurchaseInv
  <2>5. RowsPersist
    BY <2>1, UnchangedRowsPersist
  <2>6. /\ \A j \in Keys : Delivered(j) => Delivered(j)'
        /\ \A j \in Keys : Delivered(j)' => Delivered(j) \/ j = k
        /\ Delivered(k)'
    BY <1>1, <1>2, <2>3 DEF Delivered, Posted, DeliveryKey
  <2>7. DeliveryFollowsPayment'
    BY <1>1, <2>1, <2>6 DEF PurchaseInv, DeliveryFollowsPayment
  <2>8. UnitDeliveredOnce' /\ DeliveriesPersist
    BY <2>3, <2>6 DEF UnitDeliveredOnce, DeliveriesPersist
  <2>9. StatusFollowsEscrow'
    BY <2>1, <2>5, <2>8, StatusPersists
  <2>10. PICK c \in PurchaseCalls :
           deal' = [deal EXCEPT ![s] = c] /\ c.pc = "write" /\ c.op = op /\ c.key = k
    BY <1>1, <1>4, Further
  <2>11. deal'[s] = c /\ \A t \in Slots \ {s} : deal'[t] = deal[t]
    BY <2>10, DealsTyped
  <2>12. Exists(k)'
    BY <1>1, <2>1 DEF Exists
  <2>13. PurchaseFits(c, Idle)'
    BY <1>1, <2>1, <2>6, <2>10, <2>12 DEF PurchaseFits, Idle, Call, Resolutions
  <2>14. \A t \in Slots :
           PurchaseFits(deal[t], req[t])' \/ (deal'[t] = deal[t] /\ req'[t] = req[t])
    <3>1. deal'[s] = c /\ req'[s] = Idle
      BY <1>1, <2>1, <2>11
    <3>2. PurchaseFits(deal[s], req[s])'
      BY <2>13, <3>1
    <3> QED
      BY <2>1, <2>11, <3>2
  <2>15. PurchaseTypeOK'
    BY <2>1, <2>10 DEF PurchaseInv, PurchaseTypeOK
  <2> QED
    BY <2>1, <2>3, <2>4, <2>5, <2>7, <2>8, <2>9, <2>14, <2>15, PurchaseFrame
<1> QED
  BY <1>1, <1>2, <1>3, <1>4 DEF Deliver, escrowVars

-----------------------------------------------------------------------------
LEMMA PurchaseInitInv == PurchasesInit => PurchaseInv
<1> SUFFICES ASSUME PurchasesInit PROVE PurchaseInv
  OBVIOUS
<1>1. Inv
  BY InitInv DEF PurchasesInit
<1>2. PurchaseTypeOK
  BY DEF PurchasesInit, PurchaseTypeOK, PurchaseCalls, NoDeal, Listings
<1>3. PurchasesInOrder
  BY EndDealFits DEF PurchasesInit, EscrowInit, PurchasesInOrder
<1>4. \A k \in Keys : ~Delivered(k)
  BY DEF PurchasesInit, EscrowInit, LedgerInit, Delivered, Posted
<1>5. DeliveryFollowsPayment /\ StatusFollowsEscrow
  BY <1>4 DEF PurchasesInit, DeliveryFollowsPayment, StatusFollowsEscrow
<1>6. UnitDeliveredOnce
  BY PurchaseAssumption DEF PurchasesInit, EscrowInit, LedgerInit, UnitDeliveredOnce
<1> QED
  BY <1>1, <1>2, <1>3, <1>5, <1>6 DEF PurchaseInv

LEMMA StutterInv ==
  ASSUME PurchaseInv, UNCHANGED purchaseVars
  PROVE  PurchaseInv'
<1>1. [EscrowNext]_escrowVars /\ UNCHANGED purchase /\ \A t \in Slots : deal'[t] = deal[t] /\ req'[t] = req[t]
  BY DEF purchaseVars, escrowVars
<1>2. /\ Inv' /\ RowsPersist /\ DeliveriesPersist
      /\ DeliveryFollowsPayment' /\ UnitDeliveredOnce'
  BY <1>1, EscrowDeliversNothing
<1>3. StatusFollowsEscrow'
  BY <1>1, <1>2, StatusPersists
<1>4. PurchaseTypeOK'
  BY DEF PurchaseInv, PurchaseTypeOK, purchaseVars
<1> QED
  BY <1>1, <1>2, <1>3, <1>4, PurchaseFrame

LEMMA PurchaseNextInv == PurchaseInv /\ [PurchasesNext]_purchaseVars => PurchaseInv'
<1> SUFFICES ASSUME PurchaseInv, [PurchasesNext]_purchaseVars PROVE PurchaseInv'
  OBVIOUS
<1>1. ASSUME NEW s \in Slots, NEW k \in Keys,
             Buy(s, k) \/ Ship(s, k) \/ Confirm(s, k) \/ CancelPurchase(s, k) \/ Dispute(s, k)
      PROVE  PurchaseInv'
  BY <1>1, BuyInv, ShipInv, ConfirmInv, CancelPurchaseInv, DisputeInv
<1>2. ASSUME NEW s \in Slots, NEW k \in Keys, NEW op \in Resolutions, Resolve(s, op, k)
      PROVE  PurchaseInv'
  BY <1>2, ResolveInv
<1>3. ASSUME NEW s \in Slots, NEW k \in Keys, NEW op \in {"release", "refund"}, GuardedRoute(s, op, k)
      PROVE  PurchaseInv'
  BY <1>3, GuardedRouteInv
<1>4. ASSUME NEW k \in Keys, UnguardedDispute(k) PROVE PurchaseInv'
  BY <1>4, UnguardedDisputeInv
<1>5. ASSUME NEW s \in Slots, Serve(s) PROVE PurchaseInv'
  BY <1>5, BuyCheckInv, BuyHoldInv, BuyInsertInv, ListingInv, DisputeEscrowInv, CallSettleInv,
     DealSettledInv, SyncInv, DeliverInv, WriteInv, RelistInv, EscrowServesInv DEF Serve
<1>6. ASSUME NEW s \in Slots, PurchaseFail(s) PROVE PurchaseInv'
  BY <1>6, PurchaseFailInv
<1>7. CASE UNCHANGED purchaseVars
  BY <1>7, StutterInv
<1> QED
  BY <1>1, <1>2, <1>3, <1>4, <1>5, <1>6, <1>7 DEF PurchasesNext

(* PurchaseInv holds in every state of every run of the purchases.         *)
THEOREM PurchaseInvariant == PurchasesSpec => []PurchaseInv
BY PurchaseInitInv, PurchaseNextInv, PTL DEF PurchasesSpec

-----------------------------------------------------------------------------
(* The tables and the slots of the purchases keep their shape.             *)
THEOREM PurchaseTypes == PurchasesSpec => []PurchaseTypeOK
<1>1. PurchaseInv => PurchaseTypeOK
  BY DEF PurchaseInv
<1> QED
  BY <1>1, PurchaseInvariant, PTL

(* No asset leaves the treasury before its seller was paid.                *)
THEOREM PurchaseDeliveryFollowsPayment == PurchasesSpec => []DeliveryFollowsPayment
<1>1. PurchaseInv => DeliveryFollowsPayment
  BY DEF PurchaseInv
<1> QED
  BY <1>1, PurchaseInvariant, PTL

(* A purchase that is completed was delivered, one that is refunded was    *)
(* repaid, whatever statuses the operations wrote over each other.         *)
THEOREM PurchaseStatusFollowsEscrow == PurchasesSpec => []StatusFollowsEscrow
<1>1. PurchaseInv => StatusFollowsEscrow
  BY DEF PurchaseInv
<1> QED
  BY <1>1, PurchaseInvariant, PTL

(* The treasury never delivers a unit that it does not have.               *)
THEOREM PurchaseUnitDeliveredOnce == PurchasesSpec => []UnitDeliveredOnce
<1>1. PurchaseInv => UnitDeliveredOnce
  BY DEF PurchaseInv
<1> QED
  BY <1>1, PurchaseInvariant, PTL

-----------------------------------------------------------------------------
(* The purchases' steps as the promise of the escrow layer sees them.      *)
LEMMA PurchaseStepIsPromised ==
  PurchaseInv /\ [PurchasesNext]_purchaseVars => [Promise!Next]_(Promise!promiseVars)
<1> SUFFICES ASSUME PurchaseInv, [PurchasesNext]_purchaseVars
             PROVE  [EscrowNext]_escrowVars \/ UNCHANGED Promise!promiseVars
  BY PromiseStep DEF PurchaseInv
<1>1. ASSUME NEW s \in Slots, NEW k \in Keys,
             Buy(s, k) \/ Ship(s, k) \/ Confirm(s, k) \/ CancelPurchase(s, k) \/ Dispute(s, k)
      PROVE  UNCHANGED escrowVars
  BY <1>1 DEF Buy, Ship, Confirm, CancelPurchase, Dispute
<1>2. ASSUME NEW s \in Slots, NEW k \in Keys, NEW op \in Resolutions, Resolve(s, op, k)
      PROVE  EscrowNext
  <2>1. op \in Ops /\ SettleCall(s, op, k)
    BY <1>2 DEF Resolutions, Ops, Resolve
  <2> QED
    BY <2>1 DEF EscrowNext
<1>3. ASSUME NEW s \in Slots, NEW k \in Keys, NEW op \in {"release", "refund"}, GuardedRoute(s, op, k)
      PROVE  UNCHANGED escrowVars
  BY <1>3 DEF GuardedRoute
<1>4. ASSUME NEW k \in Keys, UnguardedDispute(k) PROVE EscrowNext
  BY <1>4 DEF UnguardedDispute, EscrowNext
<1>5. ASSUME NEW s \in Slots,
             BuyCheck(s) \/ BuyPause(s) \/ Sync(s) \/ Write(s) \/ Relist(s) \/ Answer(s)
      PROVE  UNCHANGED escrowVars
  BY <1>5 DEF BuyCheck, BuyPause, Sync, Write, Relist, Answer
<1>6. ASSUME NEW s \in Slots, BuyHold(s) PROVE EscrowNext
  <2>1. PICK k \in Keys : k = deal[s].key
    BY <1>6, DealsTyped DEF BuyHold, DealAt, PurchaseFits
  <2>2. Buyer[k] \in Users /\ Seller \in Users /\ HoldCall(s, Buyer[k], Seller, k)
    BY <1>6, <2>1, PurchaseAssumption DEF BuyHold
  <2> QED
    BY <2>2 DEF EscrowNext
<1>7. ASSUME NEW s \in Slots, BuyInsert(s) \/ DealSettled(s) PROVE EscrowNext
  BY <1>7 DEF BuyInsert, DealSettled, EscrowNext
<1>8. ASSUME NEW s \in Slots, DisputeEscrow(s) PROVE [EscrowNext]_escrowVars
  <2>1. deal[s].key \in Keys
    BY <1>8, DealsTyped DEF DisputeEscrow, DealAt, PurchaseFits
  <2> QED
    BY <1>8, <2>1 DEF DisputeEscrow, EscrowNext
<1>9. ASSUME NEW s \in Slots, CallSettle(s) PROVE [EscrowNext]_escrowVars
  <2>1. deal[s].key \in Keys /\ deal[s].op \in Settlers
    BY <1>9, DealsTyped DEF CallSettle, DealAt, PurchaseFits
  <2>2. EscrowOp(deal[s].op) \in Ops
    BY <2>1 DEF EscrowOp, Ops, Settlers
  <2> QED
    BY <1>9, <2>1, <2>2 DEF CallSettle, EscrowNext
<1>10. ASSUME NEW s \in Slots, EscrowServes(s) PROVE EscrowNext
  BY <1>10 DEF EscrowServes, EscrowNext
<1>11. ASSUME NEW s \in Slots, PurchaseFail(s) PROVE [EscrowNext]_escrowVars
  BY <1>11, PurchaseFailIsEscrowStep
<1>12. ASSUME NEW s \in Slots, Deliver(s) PROVE UNCHANGED Promise!promiseVars
  BY <1>12, DeliverInv DEF Promise!promiseVars, Exists
<1>13. ASSUME NEW s \in Slots, Serve(s)
       PROVE  [EscrowNext]_escrowVars \/ UNCHANGED Promise!promiseVars
  BY <1>5, <1>6, <1>7, <1>8, <1>9, <1>10, <1>12, <1>13 DEF Serve
<1>14. CASE UNCHANGED purchaseVars
  BY <1>14 DEF purchaseVars, escrowVars
<1> QED
  BY <1>1, <1>2, <1>3, <1>4, <1>11, <1>13, <1>14 DEF PurchasesNext

(* The promise of the escrow layer holds of purchases as well: a buyer's   *)
(* payment enters custody once and leaves it once, whole, to the seller or *)
(* back, and delivering the asset does not touch it.                       *)
THEOREM PurchasesKeepPromise == PurchasesSpec => ImplementsPromise
<1>1. PurchasesInit => Promise!Init
  BY PromiseInit DEF PurchasesInit
<1>2. PurchaseInv /\ [PurchasesNext]_purchaseVars => [Promise!Next]_(Promise!promiseVars)
  BY PurchaseStepIsPromised
<1> QED
  BY <1>1, <1>2, PurchaseInvariant, PTL DEF PurchasesSpec, ImplementsPromise, Promise!Spec
=============================================================================
