---------------------------- MODULE Cards_proofs ----------------------------
(***************************************************************************)
(* Proofs about Cards, for every set of cardholders, authorizations and    *)
(* slots and every amount: the inductive invariant Inv, no overdraft, and  *)
(* that no status is written without its money.                            *)
(***************************************************************************)
EXTENDS Cards, Ledger_proofs

Inv ==
  /\ CardsTypeOK
  /\ NoOverdraft
  /\ StatusFollowsMoney
  /\ RequestsInOrder

-----------------------------------------------------------------------------
LEMMA CardsInitInv == CardsInit => Inv
<1> SUFFICES ASSUME CardsInit PROVE Inv
  OBVIOUS
<1> USE CardsAssumption, OpeningAssumption DEF CardsInit, LedgerInit
<1>1. CardsTypeOK
  BY DEF CardsTypeOK, LedgerTypeOK, Effects, Statuses, Calls, Idle, Call
<1>2. NoOverdraft
  BY DEF NoOverdraft
<1>3. StatusFollowsMoney
  BY DEF StatusFollowsMoney, Exists, Posted, Ops, Writes
<1>4. RequestsInOrder
  BY DEF RequestsInOrder, RequestFits, Idle, Call
<1> QED
  BY <1>1, <1>2, <1>3, <1>4 DEF Inv

(* Requests stay in order when one of them moves on, if no journal is      *)
(* lost and no authorization disappears.                                   *)
LEMMA RequestsPersist ==
  ASSUME Inv, NEW s \in Slots, NEW c \in Calls,
         req' = [req EXCEPT ![s] = c],
         RequestFits(c)',
         DOMAIN journals \subseteq DOMAIN journals',
         \A k \in Keys : Exists(k) => Exists(k)'
  PROVE  req' \in [Slots -> Calls] /\ RequestsInOrder'
<1>1. req \in [Slots -> Calls]
  BY DEF Inv, CardsTypeOK
<1>2. req' \in [Slots -> Calls]
  BY <1>1
<1>3. ASSUME NEW t \in Slots PROVE RequestFits(req[t])'
  <2>1. CASE t = s
    <3>1. req'[t] = c
      BY <1>1, <2>1
    <3> QED
      BY <3>1 DEF RequestFits, Exists, Posted
  <2>2. CASE t # s
    <3>1. req'[t] = req[t] /\ RequestFits(req[t])
      BY <1>1, <2>2 DEF Inv, RequestsInOrder
    <3>2. \A k \in DOMAIN journals : k \in DOMAIN journals'
      OBVIOUS
    <3> QED
      BY <3>1, <3>2 DEF RequestFits, Posted
  <2> QED
    BY <2>1, <2>2
<1> QED
  BY <1>2, <1>3 DEF RequestsInOrder

(* A step that moves a request on and touches no table.                    *)
LEMMA QuietInv ==
  ASSUME Inv, NEW s \in Slots, NEW c \in Calls,
         req' = [req EXCEPT ![s] = c],
         RequestFits(c)',
         UNCHANGED <<journals, bal, auth, rewards>>
  PROVE  Inv'
<1>1. \A k \in Keys : Exists(k) => Exists(k)'
  BY DEF Exists
<1>2. req' \in [Slots -> Calls] /\ RequestsInOrder'
  BY <1>1, RequestsPersist
<1>3. CardsTypeOK'
  BY <1>2 DEF Inv, CardsTypeOK, LedgerTypeOK
<1>4. NoOverdraft'
  BY DEF Inv, NoOverdraft
<1>5. StatusFollowsMoney'
  BY DEF Inv, StatusFollowsMoney, Exists, Posted
<1> QED
  BY <1>2, <1>3, <1>4, <1>5 DEF Inv

LEMMA LeaveInv ==
  ASSUME Inv, NEW s \in Slots, Leave(s), UNCHANGED <<journals, bal, auth, rewards>>
  PROVE  Inv'
<1>1. PICK c \in Calls : c = Idle
  BY DEF Idle, Call, Calls
<1>2. req' = [req EXCEPT ![s] = c] /\ RequestFits(c)'
  BY <1>1 DEF Leave, RequestFits, Idle, Call
<1> QED
  BY <1>2, QuietInv

(* Goto, as the step to one call.                                          *)
LEMMA GotoCall ==
  ASSUME Inv, NEW s \in Slots, NEW pc \in {"mark", "cashback", "reward"}, Goto(s, pc)
  PROVE  /\ Call(pc, req[s].op, req[s].key) \in Calls
         /\ req' = [req EXCEPT ![s] = Call(pc, req[s].op, req[s].key)]
<1>1. req \in [Slots -> Calls]
  BY DEF Inv, CardsTypeOK
<1>2. req[s] \in Calls
  BY <1>1
<1>3. [req[s] EXCEPT !.pc = pc] = Call(pc, req[s].op, req[s].key)
  BY <1>2 DEF Calls, Call
<1> QED
  BY <1>1, <1>2, <1>3 DEF Goto, Calls, Call

-----------------------------------------------------------------------------
(* Money that moves between two accounts lowers only the one it leaves.    *)
LEMMA MoveTakes ==
  ASSUME NEW from, NEW to, NEW n \in Nat, NEW a \in Accounts, a # from
  PROVE  Move(from, to, n)[a] >= 0
BY DEF Move

(* A journal of a settlement, a refund or a cashback takes no cardholder's *)
(* cash.                                                                   *)
LEMMA PostInv ==
  ASSUME Inv, NEW s \in Slots, NEW c \in Calls,
         NEW op \in Ops \cup {"cashback"}, NEW k \in Keys, NEW d \in Effects,
         PostJournal(<<op, k>>, d),
         \A u \in Users : d[u] >= 0,
         op \in {"refund", "cashback"} => Posted(<<"capture", k>>),
         req' = [req EXCEPT ![s] = c],
         RequestFits(c)',
         UNCHANGED <<auth, rewards>>
  PROVE  Inv'
<1>1. /\ LedgerTypeOK'
      /\ DOMAIN journals' = DOMAIN journals \cup {<<op, k>>}
      /\ \A a \in Accounts : d[a] >= 0 => bal'[a] >= bal[a]
  BY PostAny DEF Inv, CardsTypeOK
<1>2. \A j \in Keys : Exists(j) <=> Exists(j)'
  BY DEF Exists
<1>3. req' \in [Slots -> Calls] /\ RequestsInOrder'
  BY <1>1, <1>2, RequestsPersist
<1>4. CardsTypeOK'
  BY <1>1, <1>3 DEF Inv, CardsTypeOK
<1>5. NoOverdraft'
  <2> SUFFICES ASSUME NEW u \in Users PROVE bal'[u] >= 0
    BY DEF NoOverdraft
  <2>1. u \in Accounts
    BY CardsAssumption
  <2>2. bal[u] \in Int /\ bal'[u] \in Int /\ bal[u] >= 0 /\ bal'[u] >= bal[u]
    BY <1>1, <2>1 DEF Inv, CardsTypeOK, NoOverdraft, LedgerTypeOK, Effects
  <2> QED
    BY <2>2
<1>6. StatusFollowsMoney'
  <2> SUFFICES ASSUME NEW j \in Keys
               PROVE  /\ Exists(j)' <=> Posted(<<"auth", j>>)'
                      /\ \A o \in Ops : auth'[j] = Writes(o) => Posted(<<o, j>>)'
                      /\ \A o \in {"refund", "cashback"} :
                           Posted(<<o, j>>)' => Posted(<<"capture", j>>)'
                      /\ rewards'[j] > 0 => Posted(<<"cashback", j>>)'
    BY DEF StatusFollowsMoney
  <2>1. \A x : Posted(x)' <=> (Posted(x) \/ x = <<op, k>>)
    BY <1>1 DEF Posted
  <2>2. op # "auth"
    BY DEF Ops
  <2>3. Exists(j)' <=> Posted(<<"auth", j>>)'
    BY <1>2, <2>1, <2>2 DEF Inv, StatusFollowsMoney
  <2>4. \A o \in Ops : auth'[j] = Writes(o) => Posted(<<o, j>>)'
    BY <2>1 DEF Inv, StatusFollowsMoney
  <2>5. ASSUME NEW o \in {"refund", "cashback"}, Posted(<<o, j>>)'
        PROVE  Posted(<<"capture", j>>)'
    BY <2>1, <2>5 DEF Inv, StatusFollowsMoney
  <2>6. rewards'[j] > 0 => Posted(<<"cashback", j>>)'
    BY <2>1 DEF Inv, StatusFollowsMoney
  <2> QED
    BY <2>3, <2>4, <2>5, <2>6
<1> QED
  BY <1>3, <1>4, <1>5, <1>6 DEF Inv

-----------------------------------------------------------------------------
LEMMA AuthorizeCallInv ==
  ASSUME Inv, NEW s \in Slots, NEW k \in Keys, AuthorizeCall(s, k)
  PROVE  Inv'
<1>1. PICK c \in Calls : c = Call("commit", "authorize", k)
  BY DEF Call, Calls
<1>2. req' = [req EXCEPT ![s] = c] /\ RequestFits(c)'
  BY <1>1 DEF AuthorizeCall, RequestFits, Call
<1> QED
  BY <1>2, QuietInv DEF AuthorizeCall

LEMMA AuthorizeCommitInv ==
  ASSUME Inv, NEW s \in Slots, AuthorizeCommit(s)
  PROVE  Inv'
<1> DEFINE k == req[s].key
           h == Holder[k]
           d == Move(h, Holds, Amount[k])
<1>0. k \in Keys /\ h \in Users /\ Amount[k] \in Nat /\ d \in Effects
  <2>1. req[s].pc = "commit"
    BY DEF AuthorizeCommit, At
  <2>2. k \in Keys
    BY <2>1 DEF Inv, RequestsInOrder, RequestFits
  <2>3. h \in Users /\ Amount[k] \in Nat /\ Amount[k] \in Int
    BY <2>2, CardsAssumption
  <2> QED
    BY <2>2, <2>3, MoveType
<1>1. CASE ~(~Exists(k) /\ bal[h] >= Amount[k])
  BY <1>1, LeaveInv DEF AuthorizeCommit
<1>2. CASE ~Exists(k) /\ bal[h] >= Amount[k]
  <2>1. /\ PostJournal(<<"auth", k>>, d)
        /\ auth' = [auth EXCEPT ![k] = "authorized"]
        /\ Leave(s)
        /\ rewards' = rewards
    BY <1>2 DEF AuthorizeCommit, Authorize
  <2>2. \A o \in Ops \cup {"cashback"} : Posted(<<o, k>>) \/ ~Posted(<<o, k>>)
    OBVIOUS
  <2>3. ~Posted(<<"auth", k>>)
    BY <1>0, <1>2 DEF Inv, StatusFollowsMoney
  <2>4. /\ LedgerTypeOK'
        /\ DOMAIN journals' = DOMAIN journals \cup {<<"auth", k>>}
        /\ \A a \in Accounts : bal'[a] = bal[a] + d[a]
    BY <1>0, <2>1, <2>3, PostFresh DEF Inv, CardsTypeOK
  <2>5. auth' \in [Keys -> Statuses \cup {"none"}]
    BY <2>1 DEF Inv, CardsTypeOK, Statuses
  <2>6. \A j \in Keys : Exists(j)' <=> (Exists(j) \/ j = k)
    BY <1>0, <2>1 DEF Inv, CardsTypeOK, Exists
  <2>7. req' \in [Slots -> Calls] /\ RequestsInOrder'
    <3>1. PICK c \in Calls : c = Idle
      BY DEF Idle, Call, Calls
    <3>2. req' = [req EXCEPT ![s] = c] /\ RequestFits(c)'
      BY <2>1, <3>1 DEF Leave, RequestFits, Idle, Call
    <3> QED
      BY <2>4, <2>6, <3>2, RequestsPersist
  <2>8. CardsTypeOK'
    BY <2>1, <2>4, <2>5, <2>7 DEF Inv, CardsTypeOK
  <2>9. NoOverdraft'
    <3> SUFFICES ASSUME NEW u \in Users PROVE bal'[u] >= 0
      BY DEF NoOverdraft
    <3>1. u \in Accounts /\ u # Holds
      BY CardsAssumption
    <3>2. d[u] = IF u = h THEN - Amount[k] ELSE 0
      BY <1>0, <3>1 DEF Move
    <3>3. bal[u] \in Int /\ bal[u] >= 0 /\ bal'[u] = bal[u] + d[u]
      BY <2>4, <3>1 DEF Inv, CardsTypeOK, NoOverdraft, LedgerTypeOK, Effects
    <3> QED
      BY <1>0, <1>2, <3>2, <3>3
  <2>10. StatusFollowsMoney'
    <3> SUFFICES ASSUME NEW j \in Keys
                 PROVE  /\ Exists(j)' <=> Posted(<<"auth", j>>)'
                        /\ \A o \in Ops : auth'[j] = Writes(o) => Posted(<<o, j>>)'
                        /\ \A o \in {"refund", "cashback"} :
                             Posted(<<o, j>>)' => Posted(<<"capture", j>>)'
                        /\ rewards'[j] > 0 => Posted(<<"cashback", j>>)'
      BY DEF StatusFollowsMoney
    <3>1. \A x : Posted(x)' <=> (Posted(x) \/ x = <<"auth", k>>)
      BY <2>4 DEF Posted
    <3>2. Exists(j)' <=> Posted(<<"auth", j>>)'
      BY <2>6, <3>1 DEF Inv, StatusFollowsMoney
    <3>3. ASSUME NEW o \in Ops, auth'[j] = Writes(o) PROVE Posted(<<o, j>>)'
      <4>1. Writes(o) # "authorized"
        BY DEF Ops, Writes
      <4>2. auth[j] = Writes(o)
        BY <1>0, <2>1, <3>3, <4>1 DEF Inv, CardsTypeOK
      <4> QED
        BY <3>1, <4>2 DEF Inv, StatusFollowsMoney
    <3>4. ASSUME NEW o \in {"refund", "cashback"}, Posted(<<o, j>>)'
          PROVE  Posted(<<"capture", j>>)'
      BY <3>1, <3>4 DEF Inv, StatusFollowsMoney
    <3>5. rewards'[j] > 0 => Posted(<<"cashback", j>>)'
      BY <2>1, <3>1 DEF Inv, StatusFollowsMoney
    <3> QED
      BY <3>2, <3>3, <3>4, <3>5
  <2> QED
    BY <2>7, <2>8, <2>9, <2>10 DEF Inv
<1> QED
  BY <1>1, <1>2

LEMMA SettleCallInv ==
  ASSUME Inv, NEW s \in Slots, NEW op \in Ops, NEW k \in Keys, SettleCall(s, op, k)
  PROVE  Inv'
<1>1. PICK c \in Calls : c = Call("post", op, k)
  BY DEF Call, Calls
<1>2. req' = [req EXCEPT ![s] = c] /\ UNCHANGED <<journals, bal, auth, rewards>>
  BY <1>1 DEF SettleCall
<1>3. Exists(k)
  BY DEF SettleCall, Requires, Exists
<1>4. op = "refund" => Posted(<<"capture", k>>)
  <2> SUFFICES ASSUME op = "refund" PROVE Posted(<<"capture", k>>)
    OBVIOUS
  <2>1. auth[k] = Writes("capture")
    BY DEF SettleCall, Requires, Writes
  <2> QED
    BY <2>1 DEF Inv, StatusFollowsMoney, Ops
<1>5. RequestFits(c)'
  BY <1>1, <1>2, <1>3, <1>4 DEF RequestFits, Call, Exists, Posted
<1> QED
  BY <1>2, <1>5, QuietInv

LEMMA SettlePostInv ==
  ASSUME Inv, NEW s \in Slots, SettlePost(s)
  PROVE  Inv'
<1> DEFINE k == req[s].key
           op == req[s].op
           d == Moves(op, k)
<1>1. /\ k \in Keys /\ op \in Ops /\ Exists(k)
      /\ op = "refund" => Posted(<<"capture", k>>)
  BY DEF Inv, RequestsInOrder, RequestFits, SettlePost, At
<1>2. Amount[k] \in Nat /\ Holder[k] \in Users /\ Holder[k] \in Accounts
  BY <1>1, CardsAssumption
<1>3. d \in Effects /\ \A u \in Users : d[u] >= 0
  <2>1. \A u \in Users : u \in Accounts /\ u # Holds /\ u # Clearing
    BY CardsAssumption
  <2>2. CASE op = "capture"
    BY <1>2, <2>1, <2>2, MoveType, MoveTakes DEF Moves
  <2>3. CASE op = "void"
    BY <1>2, <2>1, <2>3, MoveType, MoveTakes DEF Moves
  <2>4. CASE op = "refund"
    BY <1>2, <2>1, <2>4, MoveType, MoveTakes DEF Moves
  <2> QED
    BY <1>1, <2>2, <2>3, <2>4 DEF Ops
<1>4. PICK c \in Calls : c = Call("mark", op, k)
  BY GotoCall DEF SettlePost
<1>5. req' = [req EXCEPT ![s] = c]
  BY <1>4, GotoCall DEF SettlePost
<1>6. /\ PostJournal(<<op, k>>, d)
      /\ UNCHANGED <<auth, rewards>>
  BY DEF SettlePost
<1>7. DOMAIN journals' = DOMAIN journals \cup {<<op, k>>}
  BY <1>3, <1>6, PostAny DEF Inv, CardsTypeOK
<1>8. RequestFits(c)'
  BY <1>1, <1>4, <1>6, <1>7 DEF RequestFits, Call, Exists, Posted
<1>9. op = "refund" \/ op # "cashback"
  BY <1>1 DEF Ops
<1> QED
  BY <1>1, <1>3, <1>5, <1>6, <1>8, <1>9, PostInv DEF Ops

LEMMA SettleMarkInv ==
  ASSUME Inv, NEW s \in Slots, SettleMark(s)
  PROVE  Inv'
<1> DEFINE k == req[s].key
           op == req[s].op
<1>1. /\ k \in Keys /\ op \in Ops /\ Exists(k) /\ Posted(<<op, k>>)
      /\ UNCHANGED <<journals, bal, rewards>>
      /\ auth' = [auth EXCEPT ![k] = Writes(op)]
  BY DEF Inv, RequestsInOrder, RequestFits, SettleMark, At
<1>2. Writes(op) \in Statuses /\ Writes(op) # "none"
  BY <1>1 DEF Ops, Writes, Statuses
<1>3. auth' \in [Keys -> Statuses \cup {"none"}]
  BY <1>1, <1>2 DEF Inv, CardsTypeOK
<1>4. \A j \in Keys : Exists(j) <=> Exists(j)'
  BY <1>1, <1>2 DEF Inv, CardsTypeOK, Exists
<1>5. PICK c \in Calls : req' = [req EXCEPT ![s] = c] /\ RequestFits(c)'
  <2>1. CASE op = "capture" /\ Cashback[k] > 0
    <3>1. Goto(s, "cashback")
      BY <2>1 DEF SettleMark
    <3>2. PICK c \in Calls : c = Call("cashback", op, k)
      BY <3>1, GotoCall
    <3>3. req' = [req EXCEPT ![s] = c]
      BY <3>1, <3>2, GotoCall
    <3>4. RequestFits(c)'
      BY <1>1, <2>1, <3>2 DEF RequestFits, Call, Posted
    <3> QED
      BY <3>3, <3>4
  <2>2. CASE ~(op = "capture" /\ Cashback[k] > 0)
    <3>1. Leave(s)
      BY <2>2 DEF SettleMark
    <3>2. Idle \in Calls /\ RequestFits(Idle)'
      BY DEF RequestFits, Idle, Call, Calls
    <3> QED
      BY <3>1, <3>2 DEF Leave
  <2> QED
    BY <2>1, <2>2
<1>6. req' \in [Slots -> Calls] /\ RequestsInOrder'
  BY <1>1, <1>4, <1>5, RequestsPersist
<1>7. CardsTypeOK'
  BY <1>1, <1>3, <1>6 DEF Inv, CardsTypeOK, LedgerTypeOK
<1>8. NoOverdraft'
  BY <1>1 DEF Inv, NoOverdraft
<1>9. StatusFollowsMoney'
  <2>1. \A p, q \in Ops : Writes(p) = Writes(q) => p = q
    BY DEF Ops, Writes
  <2>2. ASSUME NEW j \in Keys, NEW o \in Ops, auth'[j] = Writes(o)
        PROVE  Posted(<<o, j>>)
    <3>1. CASE j = k
      BY <1>1, <2>1, <2>2, <3>1 DEF Inv, CardsTypeOK
    <3>2. CASE j # k
      BY <1>1, <2>2, <3>2 DEF Inv, CardsTypeOK, StatusFollowsMoney
    <3> QED
      BY <3>1, <3>2
  <2>3. \A x : Posted(x)' <=> Posted(x)
    BY <1>1 DEF Posted
  <2> QED
    BY <1>1, <1>4, <2>2, <2>3 DEF Inv, StatusFollowsMoney
<1> QED
  BY <1>6, <1>7, <1>8, <1>9 DEF Inv

LEMMA CashbackPostInv ==
  ASSUME Inv, NEW s \in Slots, CashbackPost(s)
  PROVE  Inv'
<1> DEFINE k == req[s].key
           u0 == Usdc[Holder[k]]
           d == Move(Pool, u0, Cashback[k])
<1>1. req[s].pc = "cashback"
  BY DEF CashbackPost, At
<1>2. k \in Keys /\ Posted(<<"capture", k>>)
  BY <1>1 DEF Inv, RequestsInOrder, RequestFits
<1>3. Cashback[k] \in Nat /\ \A u \in Users : u \in Accounts /\ u # Pool
  BY <1>2, CardsAssumption
<1>4. d \in Effects /\ \A u \in Users : d[u] >= 0
  BY <1>3, MoveType, MoveTakes
<1>5. PICK c \in Calls : c = Call("reward", req[s].op, k)
  BY GotoCall DEF CashbackPost
<1>6. /\ req' = [req EXCEPT ![s] = c]
      /\ PostJournal(<<"cashback", k>>, d)
      /\ UNCHANGED <<auth, rewards>>
  BY <1>5, GotoCall DEF CashbackPost
<1>7. DOMAIN journals' = DOMAIN journals \cup {<<"cashback", k>>}
  BY <1>4, <1>6, PostAny DEF Inv, CardsTypeOK
<1>8. RequestFits(c)'
  BY <1>2, <1>5, <1>7 DEF RequestFits, Call, Posted
<1> QED
  BY <1>2, <1>4, <1>6, <1>8, PostInv

LEMMA RewardInsertInv ==
  ASSUME Inv, NEW s \in Slots, RewardInsert(s)
  PROVE  Inv'
<1> DEFINE k == req[s].key
<1>1. /\ k \in Keys /\ Posted(<<"cashback", k>>)
      /\ UNCHANGED <<journals, bal, auth>>
      /\ rewards' = [rewards EXCEPT ![k] = @ + 1]
      /\ Leave(s)
  BY DEF Inv, RequestsInOrder, RequestFits, RewardInsert, At
<1>2. rewards' \in [Keys -> Nat]
  BY <1>1 DEF Inv, CardsTypeOK
<1>3. \A j \in Keys : Exists(j) <=> Exists(j)'
  BY <1>1 DEF Exists
<1>4. Idle \in Calls /\ RequestFits(Idle)'
  BY DEF RequestFits, Idle, Call, Calls
<1>5. req' = [req EXCEPT ![s] = Idle]
  BY <1>1 DEF Leave
<1>6. req' \in [Slots -> Calls] /\ RequestsInOrder'
  <2>1. PICK c \in Calls : c = Idle
    BY <1>4
  <2>2. req' = [req EXCEPT ![s] = c] /\ RequestFits(c)'
    BY <1>5, <2>1 DEF RequestFits, Idle, Call
  <2> QED
    BY <1>1, <1>3, <2>2, RequestsPersist
<1>7. CardsTypeOK'
  BY <1>1, <1>2, <1>6 DEF Inv, CardsTypeOK, LedgerTypeOK
<1>8. NoOverdraft'
  BY <1>1 DEF Inv, NoOverdraft
<1>9. StatusFollowsMoney'
  <2>1. ASSUME NEW j \in Keys, rewards'[j] > 0 PROVE Posted(<<"cashback", j>>)
    <3>1. j = k \/ rewards'[j] = rewards[j]
      BY <1>1 DEF Inv, CardsTypeOK
    <3> QED
      BY <1>1, <2>1, <3>1 DEF Inv, StatusFollowsMoney
  <2>2. \A x : Posted(x)' <=> Posted(x)
    BY <1>1 DEF Posted
  <2> QED
    BY <1>1, <1>3, <2>1, <2>2 DEF Inv, StatusFollowsMoney
<1> QED
  BY <1>6, <1>7, <1>8, <1>9 DEF Inv

-----------------------------------------------------------------------------
LEMMA CardsNextInv == Inv /\ [CardsNext]_cardVars => Inv'
<1> SUFFICES ASSUME Inv, [CardsNext]_cardVars PROVE Inv'
  OBVIOUS
<1>1. ASSUME NEW s \in Slots, NEW k \in Keys, AuthorizeCall(s, k) PROVE Inv'
  BY <1>1, AuthorizeCallInv
<1>2. ASSUME NEW s \in Slots, NEW k \in Keys, NEW op \in Ops, SettleCall(s, op, k) PROVE Inv'
  BY <1>2, SettleCallInv
<1>3. ASSUME NEW s \in Slots, Serve(s) PROVE Inv'
  BY <1>3, AuthorizeCommitInv, SettlePostInv, SettleMarkInv, CashbackPostInv, RewardInsertInv
     DEF Serve
<1>4. ASSUME NEW s \in Slots, Fail(s) PROVE Inv'
  BY <1>4, LeaveInv DEF Fail
<1>5. CASE UNCHANGED cardVars
  <2>1. UNCHANGED <<journals, bal, auth, rewards, req>>
    BY <1>5 DEF cardVars
  <2>2. CardsTypeOK' /\ NoOverdraft'
    BY <2>1 DEF Inv, CardsTypeOK, LedgerTypeOK, NoOverdraft
  <2>3. StatusFollowsMoney' /\ RequestsInOrder'
    BY <2>1 DEF Inv, StatusFollowsMoney, RequestsInOrder, RequestFits, Exists, Posted
  <2> QED
    BY <2>2, <2>3 DEF Inv
<1> QED
  BY <1>1, <1>2, <1>3, <1>4, <1>5 DEF CardsNext

(* Inv is an invariant of the cards.                                       *)
THEOREM CardsInvariant == CardsSpec => []Inv
BY CardsInitInv, CardsNextInv, PTL DEF CardsSpec

(* The tables and calls keep their shape (cardService.ts).                 *)
THEOREM CardsTypes == CardsSpec => []CardsTypeOK
<1>1. Inv => CardsTypeOK
  BY DEF Inv
<1> QED
  BY <1>1, CardsInvariant, PTL

(* No interleaving of authorizations, captures, voids and refunds          *)
(* overdraws a cardholder: the balance that the transaction reads decides  *)
(* (cardService.ts:153-154).                                               *)
THEOREM CardsNoOverdraft == CardsSpec => []NoOverdraft
<1>1. Inv => NoOverdraft
  BY DEF Inv
<1> QED
  BY <1>1, CardsInvariant, PTL

(* No status is written over a journal that was not posted, whatever races *)
(* and dies (cardService.ts:198-207, 232-243).                             *)
THEOREM CardsStatusFollowsMoney == CardsSpec => []StatusFollowsMoney
<1>1. Inv => StatusFollowsMoney
  BY DEF Inv
<1> QED
  BY <1>1, CardsInvariant, PTL
-----------------------------------------------------------------------------
(* The cardholder's cash, as sums over the journals and over the rows.     *)

(* The authorizations of u that have a journal of operation op.            *)
Journaled(op, u) == {k \in Keys : Holder[k] = u /\ Posted(<<op, k>>)}

(* Authorizations take their amount, voids and refunds give it back: this  *)
(* and nothing else moves a cardholder's cash.                             *)
CashByJournal ==
  \A u \in Users :
    bal[u] = Opening[u] - SumFunctionOnSet(Amount, Journaled("auth", u))
                        + SumFunctionOnSet(Amount, Journaled("void", u))
                        + SumFunctionOnSet(Amount, Journaled("refund", u))

AuthorizedFirst == \A k \in Keys, op \in Ops : Posted(<<op, k>>) => Posted(<<"auth", k>>)

(* Only finitely many authorizations have been made.                       *)
FinitelyMany == IsFiniteSet({k \in Keys : Posted(<<"auth", k>>)})

CashInv == FinitelyMany /\ AuthorizedFirst /\ CashByJournal

Kinds == {"auth", "cashback"} \cup Ops

(* What a journal of one kind adds to the cash of the card's holder.       *)
Gain(op, k) ==
  IF op = "auth" THEN 0 - Amount[k] ELSE IF op \in {"void", "refund"} THEN Amount[k] ELSE 0

LEMMA JournaledFinite ==
  ASSUME FinitelyMany, AuthorizedFirst, NEW op \in {"auth", "void", "refund"}, NEW u \in Users
  PROVE  IsFiniteSet(Journaled(op, u))
<1>1. Journaled(op, u) \subseteq {k \in Keys : Posted(<<"auth", k>>)}
  BY DEF Journaled, AuthorizedFirst, Ops
<1> QED
  BY <1>1, FS_Subset DEF FinitelyMany

(* One new journal keeps the sums in step with the balances.               *)
LEMMA JournalKeepsCash ==
  ASSUME CardsTypeOK, CashInv, NEW op \in Kinds, NEW k \in Keys, NEW d \in Effects,
         ~Posted(<<op, k>>), PostJournal(<<op, k>>, d),
         op \in Ops => Posted(<<"auth", k>>),
         \A u \in Users : d[u] = IF u = Holder[k] THEN Gain(op, k) ELSE 0
  PROVE  CashInv'
<1>1. /\ DOMAIN journals' = DOMAIN journals \cup {<<op, k>>}
      /\ \A a \in Accounts : bal'[a] = bal[a] + d[a]
  BY PostFresh DEF CardsTypeOK
<1>2. \A x : Posted(x)' <=> (Posted(x) \/ x = <<op, k>>)
  BY <1>1 DEF Posted
<1>3. AuthorizedFirst'
  BY <1>2 DEF AuthorizedFirst, CashInv
<1>4. FinitelyMany'
  <2> DEFINE A == {j \in Keys : Posted(<<"auth", j>>)}
  <2>1. A' \subseteq A \cup {k}
    BY <1>2
  <2>2. IsFiniteSet(A \cup {k})
    BY FS_AddElement DEF CashInv, FinitelyMany
  <2>3. IsFiniteSet(A')
    BY <2>1, <2>2, FS_Subset
  <2> QED
    BY <2>3 DEF FinitelyMany
<1>5. ASSUME NEW u \in Users, NEW x \in {"auth", "void", "refund"}
      PROVE  \E i \in Int :
               /\ i = SumFunctionOnSet(Amount, Journaled(x, u))
               /\ SumFunctionOnSet(Amount, Journaled(x, u)') =
                    i + (IF x = op /\ u = Holder[k] THEN Amount[k] ELSE 0)
  <2>1. IsFiniteSet(Journaled(x, u))
    BY JournaledFinite DEF CashInv
  <2>2. IsFiniteSet(Journaled(x, u)')
    <3>1. Journaled(x, u)' \subseteq Journaled(x, u) \cup {k}
      BY <1>2 DEF Journaled
    <3>2. IsFiniteSet(Journaled(x, u) \cup {k})
      BY <2>1, FS_AddElement
    <3> QED
      BY <3>1, <3>2, FS_Subset
  <2>3. \A j \in Journaled(x, u) \cup Journaled(x, u)' \cup {k} : Amount[j] \in Int
    BY CardsAssumption DEF Journaled
  <2>4. SumFunctionOnSet(Amount, Journaled(x, u)) \in Int
    <3>1. \A j \in Journaled(x, u) : Amount[j] \in Int
      BY <2>3
    <3> QED
      BY <2>1, <3>1, SumType
  <2>5. CASE x = op /\ u = Holder[k]
    <3>1. k \notin Journaled(x, u) /\ Journaled(x, u)' = Journaled(x, u) \cup {k}
      BY <1>2, <2>5 DEF Journaled
    <3>2. SumFunctionOnSet(Amount, Journaled(x, u)') =
            SumFunctionOnSet(Amount, Journaled(x, u)) + Amount[k]
      BY <2>1, <2>3, <3>1, SumAdd
    <3> QED
      BY <2>4, <2>5, <3>2
  <2>6. CASE ~(x = op /\ u = Holder[k])
    <3>1. Journaled(x, u)' = Journaled(x, u)
      BY <1>2, <2>6 DEF Journaled
    <3> QED
      BY <2>4, <2>6, <3>1
  <2> QED
    BY <2>5, <2>6
<1>6. CashByJournal'
  <2> SUFFICES ASSUME NEW u \in Users
               PROVE  bal'[u] = Opening[u] - SumFunctionOnSet(Amount, Journaled("auth", u)')
                                           + SumFunctionOnSet(Amount, Journaled("void", u)')
                                           + SumFunctionOnSet(Amount, Journaled("refund", u)')
    BY DEF CashByJournal
  <2> DEFINE Plus(x) == IF x = op /\ u = Holder[k] THEN Amount[k] ELSE 0
  <2>1. u \in Accounts /\ Opening[u] \in Int /\ Amount[k] \in Int
    BY CardsAssumption, OpeningAssumption
  <2>2. PICK a \in Int : /\ a = SumFunctionOnSet(Amount, Journaled("auth", u))
                         /\ SumFunctionOnSet(Amount, Journaled("auth", u)') = a + Plus("auth")
    BY <1>5
  <2>3. PICK v \in Int : /\ v = SumFunctionOnSet(Amount, Journaled("void", u))
                         /\ SumFunctionOnSet(Amount, Journaled("void", u)') = v + Plus("void")
    BY <1>5
  <2>4. PICK r \in Int : /\ r = SumFunctionOnSet(Amount, Journaled("refund", u))
                         /\ SumFunctionOnSet(Amount, Journaled("refund", u)') = r + Plus("refund")
    BY <1>5
  <2>5. bal[u] = Opening[u] - a + v + r
    BY <2>2, <2>3, <2>4 DEF CashInv, CashByJournal
  <2>6. bal'[u] = bal[u] + (IF u = Holder[k] THEN Gain(op, k) ELSE 0)
    BY <1>1, <2>1
  <2>7. (IF u = Holder[k] THEN Gain(op, k) ELSE 0) = Plus("void") + Plus("refund") - Plus("auth")
    BY <2>1 DEF Gain, Kinds, Ops
  <2>8. Plus("auth") \in Int /\ Plus("void") \in Int /\ Plus("refund") \in Int
    BY <2>1
  <2> HIDE DEF Plus
  <2> QED
    BY <2>1, <2>2, <2>3, <2>4, <2>5, <2>6, <2>7, <2>8
<1> QED
  BY <1>3, <1>4, <1>6 DEF CashInv

(* A step that posts nothing keeps them in step too.                       *)
LEMMA QuietKeepsCash ==
  ASSUME CashInv, UNCHANGED <<journals, bal>>
  PROVE  CashInv'
BY DEF CashInv, FinitelyMany, AuthorizedFirst, CashByJournal, Journaled, Posted

LEMMA AuthorizeKeepsCash ==
  ASSUME Inv, CashInv, NEW s \in Slots, AuthorizeCommit(s)
  PROVE  CashInv'
<1> DEFINE k == req[s].key
           d == Move(Holder[k], Holds, Amount[k])
<1>1. CASE UNCHANGED <<journals, bal>>
  BY <1>1, QuietKeepsCash
<1>2. CASE ~Exists(k) /\ PostJournal(<<"auth", k>>, d)
  <2>1. k \in Keys
    BY DEF AuthorizeCommit, At, Inv, RequestsInOrder, RequestFits
  <2>2. Holder[k] \in Users /\ Amount[k] \in Int
    BY <2>1, CardsAssumption
  <2>3. ~Posted(<<"auth", k>>)
    BY <1>2, <2>1 DEF Inv, StatusFollowsMoney
  <2>4. d \in Effects
    BY <2>2, MoveType
  <2>5. \A u \in Users : d[u] = IF u = Holder[k] THEN Gain("auth", k) ELSE 0
    BY <2>2, CardsAssumption DEF Move, Gain
  <2> QED
    BY <1>2, <2>1, <2>4, <2>5, <2>3, JournalKeepsCash DEF Inv, Kinds, Ops
<1> QED
  BY <1>1, <1>2 DEF AuthorizeCommit, Authorize

LEMMA SettleKeepsCash ==
  ASSUME Inv, CashInv, NEW s \in Slots, SettlePost(s)
  PROVE  CashInv'
<1> DEFINE k == req[s].key
           op == req[s].op
           d == Moves(op, k)
<1>1. k \in Keys /\ op \in Ops /\ Exists(k)
  BY DEF Inv, RequestsInOrder, RequestFits, SettlePost, At
<1>2. Holder[k] \in Users /\ Amount[k] \in Int
  BY <1>1, CardsAssumption
<1>3. Posted(<<"auth", k>>)
  BY <1>1 DEF Inv, StatusFollowsMoney
<1>4. d \in Effects
  BY <1>1, <1>2, MoveType DEF Moves, Ops
<1>5. \A u \in Users : d[u] = IF u = Holder[k] THEN Gain(op, k) ELSE 0
  <2>1. \A u \in Users : u \in Accounts /\ u # Holds /\ u # Clearing
    BY CardsAssumption
  <2>2. CASE op = "capture"
    BY <1>2, <2>1, <2>2 DEF Moves, Move, Gain
  <2>3. CASE op = "void"
    BY <1>2, <2>1, <2>3 DEF Moves, Move, Gain
  <2>4. CASE op = "refund"
    BY <1>2, <2>1, <2>4 DEF Moves, Move, Gain
  <2> QED
    BY <1>1, <2>2, <2>3, <2>4 DEF Ops
<1>6. PostJournal(<<op, k>>, d)
  BY DEF SettlePost
<1>7. CASE Posted(<<op, k>>)
  BY <1>6, <1>7, QuietKeepsCash DEF PostJournal, ledgerVars
<1>8. CASE ~Posted(<<op, k>>)
  BY <1>1, <1>3, <1>4, <1>5, <1>6, <1>8, JournalKeepsCash DEF Inv, Kinds
<1> QED
  BY <1>7, <1>8

LEMMA CashbackKeepsCash ==
  ASSUME Inv, CashInv, NEW s \in Slots, CashbackPost(s)
  PROVE  CashInv'
<1> DEFINE k == req[s].key
           d == Move(Pool, Usdc[Holder[k]], Cashback[k])
<1>1. k \in Keys
  BY DEF Inv, RequestsInOrder, RequestFits, CashbackPost, At
<1>2. Holder[k] \in Users /\ Cashback[k] \in Int
  BY <1>1, CardsAssumption
<1>3. d \in Effects
  BY <1>2, MoveType
<1>4. \A u \in Users : d[u] = IF u = Holder[k] THEN Gain("cashback", k) ELSE 0
  BY <1>2, CardsAssumption DEF Move, Gain
<1>5. PostJournal(<<"cashback", k>>, d)
  BY DEF CashbackPost
<1>6. CASE Posted(<<"cashback", k>>)
  BY <1>5, <1>6, QuietKeepsCash DEF PostJournal, ledgerVars
<1>7. CASE ~Posted(<<"cashback", k>>)
  BY <1>1, <1>3, <1>4, <1>5, <1>7, JournalKeepsCash DEF Inv, Kinds, Ops
<1> QED
  BY <1>6, <1>7

LEMMA CashInitInv == CardsInit => CashInv
<1> SUFFICES ASSUME CardsInit PROVE CashInv
  OBVIOUS
<1>1. \A x : ~Posted(x)
  BY DEF CardsInit, LedgerInit, Posted
<1>2. FinitelyMany
  <2>1. {k \in Keys : Posted(<<"auth", k>>)} = {}
    BY <1>1
  <2> QED
    BY <2>1, FS_EmptySet DEF FinitelyMany
<1>3. AuthorizedFirst
  BY <1>1 DEF AuthorizedFirst
<1>4. CashByJournal
  <2> SUFFICES ASSUME NEW u \in Users
               PROVE  bal[u] = Opening[u] - SumFunctionOnSet(Amount, Journaled("auth", u))
                                          + SumFunctionOnSet(Amount, Journaled("void", u))
                                          + SumFunctionOnSet(Amount, Journaled("refund", u))
    BY DEF CashByJournal
  <2>1. \A op : Journaled(op, u) = {}
    BY <1>1 DEF Journaled
  <2>2. /\ SumFunctionOnSet(Amount, Journaled("auth", u)) = 0
        /\ SumFunctionOnSet(Amount, Journaled("void", u)) = 0
        /\ SumFunctionOnSet(Amount, Journaled("refund", u)) = 0
    BY <2>1, SumEmpty
  <2>3. bal[u] = Opening[u] /\ Opening[u] \in Int
    BY CardsAssumption, OpeningAssumption DEF CardsInit, LedgerInit
  <2> QED
    BY <2>2, <2>3
<1> QED
  BY <1>2, <1>3, <1>4 DEF CashInv

LEMMA CashNextInv == Inv /\ CashInv /\ [CardsNext]_cardVars => CashInv'
<1> SUFFICES ASSUME Inv, CashInv, [CardsNext]_cardVars PROVE CashInv'
  OBVIOUS
<1>1. ASSUME NEW s \in Slots, NEW k \in Keys, AuthorizeCall(s, k) PROVE CashInv'
  BY <1>1, QuietKeepsCash DEF AuthorizeCall
<1>2. ASSUME NEW s \in Slots, NEW k \in Keys, NEW op \in Ops, SettleCall(s, op, k) PROVE CashInv'
  BY <1>2, QuietKeepsCash DEF SettleCall
<1>3. ASSUME NEW s \in Slots, SettleMark(s) \/ RewardInsert(s) \/ Fail(s) PROVE CashInv'
  BY <1>3, QuietKeepsCash DEF SettleMark, RewardInsert, Fail
<1>4. ASSUME NEW s \in Slots, Serve(s) PROVE CashInv'
  BY <1>3, <1>4, AuthorizeKeepsCash, SettleKeepsCash, CashbackKeepsCash DEF Serve
<1>5. CASE UNCHANGED cardVars
  BY <1>5, QuietKeepsCash DEF cardVars
<1> QED
  BY <1>1, <1>2, <1>3, <1>4, <1>5 DEF CardsNext

(* CashInv is an invariant of the cards.                                   *)
THEOREM CardsCashInvariant == CardsSpec => []CashInv
BY CardsInvariant, CashInitInv, CashNextInv, PTL DEF CardsSpec

(* What was authorized and is not shown as authorized or captured came     *)
(* back by a void or a refund.                                             *)
LEMMA OutOfPocket ==
  ASSUME Inv, CashInv
  PROVE  CardholderWhole
<1> SUFFICES ASSUME NEW u \in Users
             PROVE  bal[u] >= Opening[u] - SumFunctionOnSet(Amount, Spent(u))
  BY DEF CardholderWhole
<1> DEFINE A == Journaled("auth", u)
           V == Journaled("void", u)
           R == Journaled("refund", u)
           S == Spent(u)
<1>1. IsFiniteSet(A) /\ IsFiniteSet(V) /\ IsFiniteSet(R)
  BY JournaledFinite DEF CashInv
<1>2. S \subseteq A
  BY DEF Spent, Journaled, Inv, StatusFollowsMoney, Exists
<1>3. A \subseteq (S \cup V) \cup R
  <2> SUFFICES ASSUME NEW k \in A PROVE k \in (S \cup V) \cup R
    OBVIOUS
  <2>1. k \in Keys /\ Holder[k] = u /\ auth[k] \in Statuses
    BY DEF Journaled, Inv, StatusFollowsMoney, Exists, CardsTypeOK
  <2>2. CASE auth[k] \in {"authorized", "captured"}
    BY <2>1, <2>2 DEF Spent
  <2>3. CASE auth[k] = "voided"
    BY <2>1, <2>3 DEF Journaled, Inv, StatusFollowsMoney, Writes, Ops
  <2>4. CASE auth[k] = "refunded"
    BY <2>1, <2>4 DEF Journaled, Inv, StatusFollowsMoney, Writes, Ops
  <2> QED
    BY <2>1, <2>2, <2>3, <2>4 DEF Statuses
<1>4. IsFiniteSet(S) /\ IsFiniteSet(S \cup V) /\ IsFiniteSet((S \cup V) \cup R)
  BY <1>1, <1>2, FS_Subset, FS_Union
<1>5. \A k \in (S \cup V) \cup R : Amount[k] \in Nat
  BY CardsAssumption DEF Spent, Journaled
<1> HIDE DEF A, V, R, S
<1>6. PICK a \in Nat : a = SumFunctionOnSet(Amount, A)
  BY <1>1, <1>3, <1>5, SumNat
<1>7. PICK v \in Nat : v = SumFunctionOnSet(Amount, V)
  BY <1>1, <1>5, SumNat
<1>8. PICK r \in Nat : r = SumFunctionOnSet(Amount, R)
  BY <1>1, <1>5, SumNat
<1>9. PICK p \in Nat : p = SumFunctionOnSet(Amount, S)
  BY <1>4, <1>5, SumNat
<1>10. PICK w \in Nat : w = SumFunctionOnSet(Amount, S \cup V)
  BY <1>4, <1>5, SumNat
<1>11. PICK t \in Nat : t = SumFunctionOnSet(Amount, (S \cup V) \cup R)
  BY <1>4, <1>5, SumNat
<1>12. a <= t
  BY <1>3, <1>4, <1>5, <1>6, <1>11, SumGrows
<1>13. t <= w + r
  BY <1>1, <1>4, <1>5, <1>8, <1>10, <1>11, SumUnion
<1>14. w <= p + v
  BY <1>1, <1>4, <1>5, <1>7, <1>9, <1>10, SumUnion
<1>15. bal[u] = Opening[u] - a + v + r
  BY <1>6, <1>7, <1>8 DEF CashInv, CashByJournal, A, V, R
<1>16. Opening[u] \in Int /\ SumFunctionOnSet(Amount, Spent(u)) = p
  BY <1>9, CardsAssumption, OpeningAssumption DEF S
<1> QED
  BY <1>12, <1>13, <1>14, <1>15, <1>16

(* Whatever races and dies, a cardholder is out of pocket by no more than  *)
(* the rows show as authorized or captured (cardService.ts:198-243).       *)
THEOREM CardsCardholderWhole == CardsSpec => []CardholderWhole
<1>1. Inv /\ CashInv => CardholderWhole
  BY OutOfPocket
<1> QED
  BY <1>1, CardsInvariant, CardsCashInvariant, PTL
=============================================================================
