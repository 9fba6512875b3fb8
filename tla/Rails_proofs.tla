---------------------------- MODULE Rails_proofs ----------------------------
(***************************************************************************)
(* Proofs about what leaves the ledger, for any number of requests, of     *)
(* keys and of wallets: the bank rails with their webhooks and returns,    *)
(* and USDC on the chain with the reconciliation that gates it.  Then      *)
(* about what runs beside the services: the pool of connections, the holds *)
(* on accounts and the operations that people review.  The first section,  *)
(* on the requests of any service, is shared.                              *)
(***************************************************************************)
EXTENDS
  Rails, Wallets, DbPool, AccountHolds, Operations,
  Ledger_proofs, FiniteSetTheorems, TLAPS

-----------------------------------------------------------------------------
(* The requests of a service: what moving one of them does to the table of *)
(* all of them, and how it counts.                                         *)

(* Requests with operations, places, rows and views from given sets.       *)
Requests(O, A, R, W) == [op : O, at : A, row : R, saw : W]

(* In a step the request of s becomes c, and the others stay.              *)
Becomes(s, c) == call' = [call EXCEPT ![s] = c]

LEMMA RequestIn ==
  ASSUME NEW O, NEW A, NEW R, NEW W, NEW op \in O, NEW at \in A, NEW row \in R, NEW saw \in W
  PROVE  Request(op, at, row, saw) \in Requests(O, A, R, W)
BY DEF Request, Requests

LEMMA RequestHas ==
  ASSUME NEW op, NEW at, NEW row, NEW saw
  PROVE  /\ Request(op, at, row, saw).op = op /\ Request(op, at, row, saw).at = at
         /\ Request(op, at, row, saw).row = row /\ Request(op, at, row, saw).saw = saw
BY DEF Request

LEMMA GotoBecomes ==
  ASSUME NEW O, NEW A, NEW R, NEW W, call \in [Slots -> Requests(O, A, R, W)],
         NEW s \in Slots, NEW at, Goto(s, at)
  PROVE  Becomes(s, Request(call[s].op, at, call[s].row, call[s].saw))
<1>1. PICK op, place, row, saw : call[s] = [op |-> op, at |-> place, row |-> row, saw |-> saw]
  BY DEF Requests
<1>2. [call[s] EXCEPT !.at = at] = Request(call[s].op, at, call[s].row, call[s].saw)
  BY <1>1 DEF Request
<1> QED
  BY <1>2 DEF Goto, Becomes

(* A request goes on with another view of the rows.                        *)
LEMMA SeesBecomes ==
  ASSUME NEW O, NEW A, NEW R, NEW W, call \in [Slots -> Requests(O, A, R, W)], NEW s \in Slots,
         NEW at, NEW saw, call' = [call EXCEPT ![s].at = at, ![s].saw = saw]
  PROVE  Becomes(s, Request(call[s].op, at, call[s].row, saw))
<1>1. PICK op, place, row, view : call[s] = [op |-> op, at |-> place, row |-> row, saw |-> view]
  BY DEF Requests
<1>2. PICK d : d = [call[s] EXCEPT !.at = at]
  OBVIOUS
<1>3. d = [op |-> op, at |-> at, row |-> row, saw |-> view]
  BY <1>1, <1>2
<1>4. [d EXCEPT !.saw = saw] = Request(call[s].op, at, call[s].row, saw)
  BY <1>1, <1>3 DEF Request
<1> QED
  BY <1>2, <1>4 DEF Becomes

LEMMA BecomesOne ==
  ASSUME NEW C, call \in [Slots -> C], NEW s \in Slots, NEW c \in C, Becomes(s, c)
  PROVE  /\ call' \in [Slots -> C]
         /\ call'[s] = c
         /\ \A t \in Slots \ {s} : call'[t] = call[t]
BY DEF Becomes

(* A set of slots is finite, and no more than all of them.                 *)
LEMMA SlotsFinite ==
  ASSUME NEW S \in SUBSET Slots
  PROVE  /\ IsFiniteSet(S) /\ Cardinality(S) \in Nat
         /\ Cardinality(Slots) \in Nat /\ Cardinality(S) <= Cardinality(Slots)
BY ServiceAssumption, FS_Subset, FS_CardinalityType

(* Two sets of slots that differ in s at most.                             *)
LEMMA SlotCount ==
  ASSUME NEW S \in SUBSET Slots, NEW T \in SUBSET Slots, NEW s, S \ {s} = T \ {s}
  PROVE  /\ Cardinality(S) \in Nat /\ Cardinality(T) \in Nat
         /\ Cardinality(T) = Cardinality(S) + (IF s \in T THEN 1 ELSE 0)
                                            - (IF s \in S THEN 1 ELSE 0)
<1>1. IsFiniteSet(S) /\ IsFiniteSet(T) /\ Cardinality(S) \in Nat /\ Cardinality(T) \in Nat
  BY SlotsFinite
<1>2. CASE s \in S /\ s \in T
  <2>1. S = T
    BY <1>2
  <2> QED
    BY <1>1, <1>2, <2>1
<1>3. CASE s \in S /\ s \notin T
  <2>1. T = S \ {s}
    BY <1>3
  <2> QED
    BY <1>1, <1>3, <2>1, FS_RemoveElement
<1>4. CASE s \notin S /\ s \in T
  <2>1. T = S \cup {s}
    BY <1>4
  <2> QED
    BY <1>1, <1>4, <2>1, FS_AddElement
<1>5. CASE s \notin S /\ s \notin T
  <2>1. S = T
    BY <1>5
  <2> QED
    BY <1>1, <1>5, <2>1
<1> QED
  BY <1>2, <1>3, <1>4, <1>5

(* A check outside of the transaction, which lets through b >= a while p   *)
(* others that passed it have not posted yet: what they may overdraw.      *)
LEMMA OverlapBegins ==
  ASSUME NEW n \in Nat, NEW p \in Nat, p + 1 <= n, NEW a \in Nat, NEW b \in Int, b >= a
  PROVE  b - (p + 1) * a >= -(n - 1) * a
<1>1. (p + 1) * a = p * a + a /\ (n - 1) * a = n * a - a /\ n * a \in Int /\ p * a \in Int
  OBVIOUS
<1>2. n * a >= (p + 1) * a
  OBVIOUS
<1> QED
  BY <1>1, <1>2

LEMMA OverlapPosts ==
  ASSUME NEW p \in Nat, NEW q \in Nat, q <= p - 1, NEW a \in Nat, NEW b \in Int, NEW low \in Int,
         b - p * a >= low, NEW c \in Int, c >= b - a
  PROVE  c - q * a >= low
<1>1. (p - 1) * a = p * a - a /\ p * a \in Int /\ q * a \in Int
  OBVIOUS
<1>2. q * a <= (p - 1) * a
  OBVIOUS
<1> QED
  BY <1>1, <1>2

LEMMA OverlapEnds ==
  ASSUME NEW p \in Nat, NEW q \in Nat, q <= p, NEW a \in Nat, NEW b \in Int, NEW low \in Int,
         b - p * a >= low, NEW c \in Int, c >= b
  PROVE  c - q * a >= low
<1>1. p * a \in Int /\ q * a \in Int /\ q * a <= p * a
  OBVIOUS
<1> QED
  BY <1>1

(* Posting a journal leaves the others.                                    *)
LEMMA PostKeeps ==
  ASSUME LedgerTypeOK, NEW key, NEW d \in Effects, PostJournal(key, d)
  PROVE  /\ LedgerTypeOK' /\ Posted(key)'
         /\ ~Posted(key) => journals'[key] = d
         /\ \A j : Posted(j) => Posted(j)' /\ journals'[j] = journals[j]
         /\ \A j : Posted(j)' => Posted(j) \/ j = key
<1>1. CASE Posted(key)
  <2>1. journals' = journals /\ bal' = bal
    BY <1>1 DEF PostJournal, ledgerVars
  <2> QED
    BY <1>1, <2>1 DEF Posted, LedgerTypeOK
<1>2. CASE ~Posted(key)
  BY <1>2, PostFresh DEF Posted
<1> QED
  BY <1>1, <1>2

(* It changes a balance by its effect, or not at all.                      *)
LEMMA PostMoves ==
  ASSUME LedgerTypeOK, NEW key, NEW d \in Effects, PostJournal(key, d), NEW a \in Accounts
  PROVE  /\ bal[a] \in Int /\ bal'[a] \in Int /\ d[a] \in Int
         /\ bal'[a] = IF Posted(key) THEN bal[a] ELSE bal[a] + d[a]
<1>1. bal[a] \in Int /\ d[a] \in Int
  BY DEF LedgerTypeOK, Effects
<1>2. CASE Posted(key)
  BY <1>1, <1>2 DEF PostJournal, ledgerVars
<1>3. CASE ~Posted(key)
  <2>1. bal'[a] = bal[a] + d[a]
    BY <1>3, PostFresh
  <2> QED
    BY <1>1, <1>3, <2>1
<1> QED
  BY <1>1, <1>2, <1>3

(* Requests that take amounts of their own: S have checked, x[s] is what s *)
(* is going to take, l is the largest amount.  What is left covers all but *)
(* those that can overlap with one of them.                                *)
RoomCovers(b, S, x, l) ==
  LET room == b - Cardinality(S) * l  low == -(Cardinality(Slots) - 1) * l IN
  room >= low \/ \E s \in S : room + (l - x[s]) >= low

LEMMA CoverStart ==
  ASSUME NEW b \in Nat, NEW x, NEW l \in Nat
  PROVE  RoomCovers(b, {}, x, l)
<1>1. PICK n \in Nat : Cardinality(Slots) = n + 1
  <2>1. Cardinality(Slots) \in Nat /\ Cardinality(Slots) # 0
    BY ServiceAssumption, FS_EmptySet, FS_CardinalityType
  <2> QED
    BY <2>1
<1>2. Cardinality({}) = 0
  BY FS_EmptySet
<1>3. b - 0 * l >= -(n + 1 - 1) * l
  OBVIOUS
<1> QED
  BY <1>1, <1>2, <1>3 DEF RoomCovers

LEMMA CoverBegins ==
  ASSUME NEW b \in Int, NEW S \in SUBSET Slots, NEW s \in Slots \ S, NEW y, NEW l \in Nat,
         y[s] \in Nat, b >= y[s]
  PROVE  RoomCovers(b, S \cup {s}, y, l)
<1>1. /\ Cardinality(S) \in Nat /\ Cardinality(Slots) \in Nat
      /\ Cardinality(S \cup {s}) = Cardinality(S) + 1
      /\ Cardinality(S \cup {s}) <= Cardinality(Slots)
  BY SlotsFinite, FS_AddElement
<1>2. PICK p \in Nat, n \in Nat : p = Cardinality(S) /\ n = Cardinality(Slots)
  BY <1>1
<1>3. p * l <= (n - 1) * l
  BY <1>1, <1>2
<1>4. (p + 1) * l = p * l + l /\ p * l \in Int /\ (n - 1) * l \in Int /\ -(n - 1) * l = -((n - 1) * l)
  OBVIOUS
<1>5. b - (p + 1) * l + (l - y[s]) >= -(n - 1) * l
  BY <1>3, <1>4
<1> QED
  BY <1>1, <1>2, <1>5 DEF RoomCovers

LEMMA CoverEnds ==
  ASSUME NEW b \in Int, NEW S \in SUBSET Slots, NEW s \in S, NEW x, NEW l \in Nat,
         RoomCovers(b, S, x, l), \A t \in S : x[t] \in 0..l,
         NEW c \in Int, c >= b - x[s], NEW y, \A t \in S \ {s} : y[t] = x[t]
  PROVE  RoomCovers(c, S \ {s}, y, l)
<1>1. /\ Cardinality(S) \in Nat /\ Cardinality(Slots) \in Nat
      /\ Cardinality(S \ {s}) = Cardinality(S) - 1
  BY SlotsFinite, FS_RemoveElement
<1>2. PICK p \in Nat, low \in Int : p = Cardinality(S) /\ low = -(Cardinality(Slots) - 1) * l
  BY <1>1
<1>3. (p - 1) * l = p * l - l /\ p * l \in Int
  OBVIOUS
<1>4. c - (p - 1) * l >= b - p * l + (l - x[s]) /\ l - x[s] \in Nat
  BY <1>3
<1>5. b - p * l >= low \/ \E t \in S : b - p * l + (l - x[t]) >= low
  BY <1>2 DEF RoomCovers
<1>6. c - (p - 1) * l >= low \/ \E t \in S \ {s} : c - (p - 1) * l + (l - y[t]) >= low
  <2>1. CASE b - p * l >= low \/ b - p * l + (l - x[s]) >= low
    BY <1>3, <1>4, <2>1
  <2>2. ASSUME NEW t \in S \ {s}, b - p * l + (l - x[t]) >= low
        PROVE  c - (p - 1) * l + (l - y[t]) >= low
    BY <1>3, <1>4, <2>2
  <2> QED
    BY <1>5, <2>1, <2>2
<1> QED
  BY <1>1, <1>2, <1>6 DEF RoomCovers

LEMMA CoverStays ==
  ASSUME NEW b \in Int, NEW S \in SUBSET Slots, NEW x, NEW l \in Nat,
         RoomCovers(b, S, x, l), \A t \in S : x[t] \in 0..l,
         NEW c \in Int, c >= b, NEW y, \A t \in S : y[t] = x[t]
  PROVE  RoomCovers(c, S, y, l)
<1>1. Cardinality(S) \in Nat /\ Cardinality(Slots) \in Nat
  BY SlotsFinite
<1>2. PICK d \in Int, low \in Int :
        d = Cardinality(S) * l /\ low = -(Cardinality(Slots) - 1) * l
  BY <1>1
<1>3. b - d >= low \/ \E t \in S : b - d + (l - x[t]) >= low
  BY <1>2 DEF RoomCovers
<1>4. c - d >= low \/ \E t \in S : c - d + (l - y[t]) >= low
  BY <1>3
<1> QED
  BY <1>2, <1>4 DEF RoomCovers

LEMMA CoverBound ==
  ASSUME NEW b \in Int, NEW S \in SUBSET Slots, NEW x, NEW l \in Nat,
         RoomCovers(b, S, x, l), \A t \in S : x[t] \in 0..l
  PROVE  b >= -(Cardinality(Slots) - 1) * l
<1>1. Cardinality(S) \in Nat /\ Cardinality(Slots) \in Nat /\ (S # {} => Cardinality(S) # 0)
  BY SlotsFinite, FS_EmptySet
<1>2. PICK p \in Nat, low \in Int : p = Cardinality(S) /\ low = -(Cardinality(Slots) - 1) * l
  BY <1>1
<1>3. p * l \in Nat /\ (p # 0 => p * l >= l)
  OBVIOUS
<1>4. b - p * l >= low \/ \E t \in S : b - p * l + (l - x[t]) >= low
  BY <1>2 DEF RoomCovers
<1>5. b >= low
  BY <1>1, <1>2, <1>3, <1>4
<1> QED
  BY <1>2, <1>5

-----------------------------------------------------------------------------
(* Rails: what the providers were told and the ledger and rows tell.       *)

RailRows == [status : RailStatuses, id : OrderIds \cup RailKeys \cup {None}]

RailRequests ==
  Requests({"idle", "rail", "webhook", "return"},
           {"idle", "provider", "credit", "insert", "record", "commit", "mark", "post"},
           RailKeys \cup {None}, RailRows \cup {None})

RailsTypeOK ==
  /\ LedgerTypeOK
  /\ call \in [Slots -> RailRequests]
  /\ rail \in [RailKeys -> RailRows]
  /\ history \in [RailKeys -> Nat]
  /\ orders \in [RailKeys -> Nat]

(* What the provider said of a key.                                        *)
Told(k, row) == row \in RailRows /\ row.status \in {DoneStatus(k), LaterStatus(k)}

(* What a request knows at each place: the provider's answer, and which    *)
(* journals and rows it comes behind.                                      *)
RailRequest(c) ==
  /\ c.op = "rail" => c.at \in {"provider", "credit", "insert", "record", "commit"}
  /\ c.op \in {"rail", "webhook", "return"} => c.row \in RailKeys
  /\ c.op = "webhook" => ~OverBank(c.row) /\ rail[c.row].status # "none" /\ c.at \in {"credit", "mark"}
  /\ c.op = "return" => /\ OverBank(c.row) /\ c.at \in {"post", "mark"}
                        /\ rail[c.row].status \in {"settled", "returned"}
RailAnswer(c) ==
  /\ c.op = "rail" /\ c.at \in {"credit", "insert"} => Incoming(c.row) /\ Told(c.row, c.saw)
  /\ c.op = "rail" /\ c.at = "insert" /\ c.saw.status # "pending" => Posted(MoneyKey(c.row, c.saw.id))
  /\ c.op = "rail" /\ c.at = "commit" => ~Incoming(c.row) /\ Told(c.row, c.saw)
RailBehind(c) ==
  /\ c.op = "rail" /\ c.at = "record" =>
       OverBank(c.row) /\ rail[c.row].status # "none" /\ history[c.row] = 0
  /\ c.op = "webhook" /\ c.at = "credit" => Incoming(c.row) /\ c.saw.id = rail[c.row].id
  /\ c.op = "webhook" /\ c.at = "mark" => Posted(MoneyKey(c.row, rail[c.row].id))
  /\ c.op = "return" /\ c.at = "mark" => Posted(<<"return", c.row>>)

RailCallOK(c) == RailRequest(c) /\ RailAnswer(c) /\ RailBehind(c)

RailCalls == \A s \in Slots : RailCallOK(call[s])

Records(c, k) == c.op = "rail" /\ c.at = "record" /\ c.row = k

RecordsApart == \A k \in RailKeys : \A s, t \in Slots : Records(call[s], k) /\ Records(call[t], k) => s = t

(* A row, its history and its journals.                                    *)
RowSound(k) ==
  /\ rail[k].status \in {"completed", "settled", "requested", "returned"} =>
       Posted(MoneyKey(k, rail[k].id))
  /\ rail[k].status # "none" /\ ~Incoming(k) => Posted(MoneyKey(k, rail[k].id))
  /\ rail[k].status = "returned" => Posted(<<"return", k>>)
  /\ rail[k].status \in {"pending", "completed"} => ~OverBank(k)
  /\ rail[k].status \in {"settled", "requested", "returned"} => OverBank(k)
  /\ history[k] <= (IF rail[k].status = "none" THEN 0 ELSE 1)
  /\ Posted(<<"return", k>>) => MoneyPosted(k) # {}

(* The keys that the provider's orders account for: no more than there are *)
(* orders, and every journal, answer and row has one of them.              *)
Carries(c, k) == c.op = "rail" /\ c.row = k /\ c.at \in {"credit", "insert", "commit"}

AccountsFor(K, k) ==
  /\ IsFiniteSet(K) /\ Cardinality(K) <= orders[k]
  /\ MoneyPosted(k) \subseteq K
  /\ \A s \in Slots : Carries(call[s], k) => MoneyKey(k, call[s].saw.id) \in K
  /\ rail[k].status # "none" => MoneyKey(k, rail[k].id) \in K

RailAccounted(k) == \E K : AccountsFor(K, k)

RailsInv ==
  /\ RailsTypeOK
  /\ RailCalls
  /\ RecordsApart
  /\ \A k \in RailKeys : RowSound(k)
  /\ \A k \in RailKeys : RailAccounted(k)
  /\ OverdrawnByReturnsOnly

LEMMA RailsInvTells == RailsInv => LedgerFollowsProvider /\ RailRowsBacked /\ OverdrawnByReturnsOnly
<1> SUFFICES ASSUME RailsInv PROVE LedgerFollowsProvider /\ RailRowsBacked
  BY DEF RailsInv
<1>1. RailRowsBacked
  BY DEF RailsInv, RowSound, RailRowsBacked
<1>2. ASSUME NEW k \in RailKeys PROVE Cardinality(MoneyPosted(k)) <= orders[k]
  <2>1. PICK K : AccountsFor(K, k)
    BY DEF RailsInv, RailAccounted
  <2>2. IsFiniteSet(K) /\ Cardinality(K) <= orders[k] /\ MoneyPosted(k) \subseteq K /\ orders[k] \in Nat
    BY <2>1 DEF AccountsFor, RailsInv, RailsTypeOK
  <2>3. Cardinality(MoneyPosted(k)) \in Nat /\ Cardinality(K) \in Nat
        /\ Cardinality(MoneyPosted(k)) <= Cardinality(K)
    BY <2>2, FS_Subset, FS_CardinalityType
  <2> QED
    BY <2>2, <2>3
<1>3. LedgerFollowsProvider
  BY <1>2 DEF LedgerFollowsProvider, RailsInv, RowSound
<1> QED
  BY <1>1, <1>3

LEMMA RailIdle == Idle \in RailRequests /\ RailCallOK(Idle) /\ \A k : ~Carries(Idle, k) /\ ~Records(Idle, k)
BY DEF RailRequests, Requests, Idle, Request, RailCallOK, RailRequest, RailAnswer, RailBehind, Carries,
       Records

LEMMA RailsInitInv == RailsInit => RailsInv
<1> SUFFICES ASSUME RailsInit PROVE RailsInv
  OBVIOUS
<1> USE DEF RailsInit, ServiceInit, LedgerInit
<1>1. LedgerTypeOK
  BY OpeningAssumption DEF LedgerTypeOK, Effects
<1>2. RailsTypeOK
  BY <1>1, RailIdle DEF RailsTypeOK, RailRows, RailRow, RailStatuses
<1>3. RailCalls /\ RecordsApart
  BY RailIdle DEF RailCalls, RecordsApart
<1>4. \A k \in RailKeys : RowSound(k)
  BY DEF RowSound, RailRow, Posted
<1>5. ASSUME NEW k \in RailKeys PROVE AccountsFor({}, k)
  <2>1. IsFiniteSet({}) /\ Cardinality({}) = 0 /\ MoneyPosted(k) = {}
    BY FS_EmptySet DEF MoneyPosted
  <2> QED
    BY <2>1, RailIdle DEF AccountsFor, RailRow
<1>6. OverdrawnByReturnsOnly
  <2>1. Returned = {}
    BY DEF Returned, Posted
  <2> QED
    BY <2>1, SumEmpty, RailsAssumption, OpeningAssumption DEF OverdrawnByReturnsOnly
<1> QED
  BY <1>2, <1>3, <1>4, <1>5, <1>6 DEF RailsInv, RailAccounted

-----------------------------------------------------------------------------
(* What every step keeps of journals and rows: none goes, a row keeps its  *)
(* id, and a settled one is settled or returned.                           *)
RailsKept ==
  /\ DOMAIN journals \subseteq DOMAIN journals'
  /\ \A k \in RailKeys :
       /\ rail[k].status # "none" => rail'[k].status # "none" /\ rail'[k].id = rail[k].id
       /\ rail[k].status \in {"settled", "returned"} => rail'[k].status \in {"settled", "returned"}

LEMMA RailCallKept ==
  ASSUME RailsKept, NEW c, RailCallOK(c),
         c.op = "rail" /\ c.at = "record" => history'[c.row] = history[c.row]
  PROVE  RailCallOK(c)'
<1>1. \A x : Posted(x) => Posted(x)'
  BY DEF RailsKept, Posted
<1>2. RailRequest(c)'
  BY DEF RailCallOK, RailRequest, RailsKept, OverBank
<1>3. RailAnswer(c)'
  BY <1>1 DEF RailCallOK, RailAnswer, Incoming, Told, DoneStatus, LaterStatus, OverBank, MoneyKey, RailRows
<1>4. RailBehind(c)'
  <2>1. c.op = "rail" /\ c.at = "record" => OverBank(c.row) /\ rail'[c.row].status # "none" /\ history'[c.row] = 0
    BY DEF RailCallOK, RailBehind, RailRequest, RailsKept
  <2>2. ASSUME c.op = "webhook"
        PROVE  rail'[c.row].id = rail[c.row].id
    BY <2>2 DEF RailCallOK, RailRequest, RailsKept
  <2> QED
    BY <1>1, <2>1, <2>2 DEF RailCallOK, RailBehind, OverBank, Incoming, MoneyKey
<1> QED
  BY <1>2, <1>3, <1>4 DEF RailCallOK

(* One request becomes another and the journals and rows are kept.         *)
LEMMA RailCallsMove ==
  ASSUME RailsInv, RailsKept, NEW s \in Slots, NEW c \in RailRequests, Becomes(s, c), RailCallOK(c)',
         \A k \in RailKeys : history'[k] # history[k] =>
           \A t \in Slots \ {s} : ~Records(call[t], k),
         \A k \in RailKeys : Records(c, k) => \A t \in Slots \ {s} : ~Records(call[t], k)
  PROVE  call' \in [Slots -> RailRequests] /\ RailCalls' /\ RecordsApart'
<1>1. /\ call' \in [Slots -> RailRequests] /\ call'[s] = c
      /\ \A t \in Slots \ {s} : call'[t] = call[t]
  BY BecomesOne DEF RailsInv, RailsTypeOK
<1>2. ASSUME NEW t \in Slots \ {s} PROVE RailCallOK(call[t])'
  <2>1. RailCallOK(call[t])
    BY DEF RailsInv, RailCalls
  <2>2. call[t].op = "rail" /\ call[t].at = "record" => history'[call[t].row] = history[call[t].row]
    BY <2>1 DEF Records, RailCallOK, RailRequest
  <2>3. PICK d : d = call[t]
    OBVIOUS
  <2>4. RailCallOK(d)'
    BY <2>1, <2>2, <2>3, RailCallKept
  <2>5. call'[t] = d
    BY <1>1, <2>3
  <2> QED
    BY <2>4, <2>5 DEF RailCallOK, RailRequest, RailAnswer, RailBehind, Posted
<1>3. RailCalls'
  <2>1. RailCallOK(call[s])'
    BY <1>1 DEF RailCallOK, RailRequest, RailAnswer, RailBehind, Posted
  <2> QED
    BY <1>2, <2>1 DEF RailCalls
<1>4. RecordsApart'
  BY <1>1 DEF RailsInv, RecordsApart, Records
<1> QED
  BY <1>1, <1>3, <1>4

(* The keys that are accounted for cover a step that adds none.            *)
LEMMA AccountedMoves ==
  ASSUME RailsInv, NEW s \in Slots, NEW c \in RailRequests, Becomes(s, c), orders' = orders,
         NEW k \in RailKeys,
         \A K : AccountsFor(K, k) =>
           /\ \A x \in DOMAIN journals' \ DOMAIN journals : x[1] = RailOf[k] /\ x[2] = k => x \in K
           /\ Carries(c, k) => MoneyKey(k, c.saw.id) \in K
           /\ rail'[k].status # "none" => MoneyKey(k, rail'[k].id) \in K
  PROVE  RailAccounted(k)'
<1>1. PICK K : AccountsFor(K, k)
  BY DEF RailsInv, RailAccounted
<1>2. /\ call' \in [Slots -> RailRequests] /\ call'[s] = c
      /\ \A t \in Slots \ {s} : call'[t] = call[t]
  BY BecomesOne DEF RailsInv, RailsTypeOK
<1>3. MoneyPosted(k)' \subseteq K
  BY <1>1 DEF AccountsFor, MoneyPosted
<1>4. \A t \in Slots : Carries(call[t], k)' => MoneyKey(k, call'[t].saw.id) \in K
  BY <1>1, <1>2 DEF AccountsFor, Carries
<1>5. AccountsFor(K, k)'
  BY <1>1, <1>3, <1>4 DEF AccountsFor, MoneyKey
<1> QED
  BY <1>5 DEF RailAccounted

(* A new order accounts for one more key.                                  *)
LEMMA AccountedMore ==
  ASSUME RailsInv, NEW s \in Slots, NEW c \in RailRequests, Becomes(s, c),
         NEW k \in RailKeys, orders' = [orders EXCEPT ![k] = @ + 1],
         journals' = journals, rail' = rail, c.row = k
  PROVE  \A j \in RailKeys : RailAccounted(j)'
<1>1. /\ call' \in [Slots -> RailRequests] /\ call'[s] = c
      /\ \A t \in Slots \ {s} : call'[t] = call[t]
  BY BecomesOne DEF RailsInv, RailsTypeOK
<1>2. ASSUME NEW j \in RailKeys, j # k PROVE RailAccounted(j)'
  <2>1. PICK K : AccountsFor(K, j)
    BY DEF RailsInv, RailAccounted
  <2>2. \A t \in Slots : Carries(call[t], j)' => MoneyKey(j, call'[t].saw.id) \in K
    BY <1>1, <1>2, <2>1 DEF AccountsFor, Carries
  <2>3. orders'[j] = orders[j]
    BY <1>2 DEF RailsInv, RailsTypeOK
  <2>4. AccountsFor(K, j)'
    BY <2>1, <2>2, <2>3 DEF AccountsFor, MoneyKey, MoneyPosted
  <2> QED
    BY <2>4 DEF RailAccounted
<1>3. RailAccounted(k)'
  <2>1. PICK K : AccountsFor(K, k)
    BY DEF RailsInv, RailAccounted
  <2>2. PICK x : x = MoneyKey(k, c.saw.id)
    OBVIOUS
  <2>3. IsFiniteSet(K) /\ Cardinality(K) <= orders[k] /\ orders[k] \in Nat /\ orders'[k] = orders[k] + 1
    BY <2>1 DEF AccountsFor, RailsInv, RailsTypeOK
  <2>4. IsFiniteSet(K \cup {x}) /\ Cardinality(K \cup {x}) <= Cardinality(K) + 1
    <3>1. Cardinality(K) \in Nat
      BY <2>3, FS_CardinalityType
    <3>2. /\ IsFiniteSet(K \cup {x})
          /\ \/ Cardinality(K \cup {x}) = Cardinality(K)
             \/ Cardinality(K \cup {x}) = Cardinality(K) + 1
      BY <2>3, FS_AddElement
    <3> QED
      BY <3>1, <3>2
  <2>5. Cardinality(K \cup {x}) \in Nat /\ Cardinality(K) \in Nat
    BY <2>3, <2>4, FS_CardinalityType
  <2>6. Cardinality(K \cup {x}) <= orders'[k]
    BY <2>3, <2>4, <2>5
  <2>7. \A t \in Slots : Carries(call[t], k)' => MoneyKey(k, call'[t].saw.id) \in K \cup {x}
    BY <1>1, <2>1, <2>2 DEF AccountsFor, Carries
  <2>8. MoneyPosted(k)' \subseteq K \cup {x} /\ (rail'[k].status # "none" => MoneyKey(k, rail'[k].id) \in K \cup {x})
    BY <2>1 DEF AccountsFor, MoneyPosted
  <2>9. AccountsFor(K \cup {x}, k)'
    BY <2>4, <2>6, <2>7, <2>8 DEF AccountsFor, MoneyKey
  <2> QED
    BY <2>9 DEF RailAccounted
<1> QED
  BY <1>2, <1>3

(* The cash: a step that lets it grow, or that leaves it covered.          *)
LEMMA RailSums ==
  /\ IsFiniteSet(Returned) /\ IsFiniteSet(Returned')
  /\ \A k \in RailKeys : RailAmount[k] \in Nat /\ RailFee[k] \in Nat /\ RailAmount[k] - RailFee[k] \in Nat
  /\ SumFunctionOnSet(RailAmount, Returned) \in Nat
  /\ SumFunctionOnSet(RailAmount, Returned') \in Nat
<1>1. IsFiniteSet(Returned) /\ IsFiniteSet(Returned')
  <2>1. Returned \subseteq RailKeys /\ Returned' \subseteq RailKeys
    BY DEF Returned
  <2> QED
    BY <2>1, FS_Subset, RailsAssumption
<1>2. \A k \in RailKeys : RailAmount[k] \in Nat /\ RailFee[k] \in Nat /\ RailAmount[k] - RailFee[k] \in Nat
  BY RailsAssumption
<1> QED
  BY <1>1, <1>2, SumNat DEF Returned

LEMMA CashCovered ==
  ASSUME RailsInv, bal'[RailCash] \in Int, bal'[RailCash] >= bal[RailCash] \/ bal'[RailCash] >= 0,
         \A k \in RailKeys : Posted(<<"return", k>>)' => Posted(<<"return", k>>),
         DOMAIN journals \subseteq DOMAIN journals'
  PROVE  OverdrawnByReturnsOnly'
<1>1. Returned' = Returned
  BY DEF Returned, Posted
<1>2. bal[RailCash] \in Int /\ bal[RailCash] + SumFunctionOnSet(RailAmount, Returned) >= 0
  BY RailsAssumption DEF RailsInv, RailsTypeOK, LedgerTypeOK, Effects, OverdrawnByReturnsOnly
<1>3. PICK n \in Nat : n = SumFunctionOnSet(RailAmount, Returned)
  BY RailSums
<1>4. bal'[RailCash] + n >= 0
  BY <1>2, <1>3
<1> QED
  BY <1>1, <1>3, <1>4 DEF OverdrawnByReturnsOnly

-----------------------------------------------------------------------------
(* The steps.                                                              *)

LEMMA RailHere ==
  ASSUME RailsInv, NEW s \in Slots
  PROVE  /\ RailCallOK(call[s]) /\ call[s] \in RailRequests
         /\ call[s].op \in {"rail", "webhook", "return"} => call[s].row \in RailKeys
         /\ call[s] = Request(call[s].op, call[s].at, call[s].row, call[s].saw)
<1>1. RailCallOK(call[s]) /\ call[s] \in RailRequests
  BY DEF RailsInv, RailsTypeOK, RailCalls
<1> QED
  BY <1>1 DEF RailCallOK, RailRequest, RailRequests, Requests, Request

LEMMA RailGoto ==
  ASSUME RailsInv, NEW s \in Slots, NEW at \in {"provider", "credit", "insert", "record", "commit", "mark", "post"},
         Goto(s, at)
  PROVE  \E c \in RailRequests : /\ Becomes(s, c) /\ c.op = call[s].op /\ c.at = at
                                 /\ c.row = call[s].row /\ c.saw = call[s].saw
<1> DEFINE c == Request(call[s].op, at, call[s].row, call[s].saw)
<1>1. Becomes(s, c)
  BY GotoBecomes DEF RailsInv, RailsTypeOK, RailRequests
<1>2. call[s] \in RailRequests
  BY RailHere
<1>3. c \in RailRequests
  BY <1>2 DEF RailRequests, Requests, Request
<1>4. c.op = call[s].op /\ c.at = at /\ c.row = call[s].row /\ c.saw = call[s].saw
  BY RequestHas
<1> QED
  BY <1>1, <1>3, <1>4

LEMMA RailLeave == ASSUME NEW s, Leave(s) PROVE Becomes(s, Idle)
BY DEF Leave, Becomes

LEMMA MoneyKeyIs ==
  ASSUME NEW k \in RailKeys, NEW id
  PROVE  /\ MoneyKey(k, id)[1] = RailOf[k] /\ MoneyKey(k, id)[2] = k
         /\ \A j : MoneyKey(k, id) # <<"return", j>>
         /\ RailOf[k] # "return"
BY RailsAssumption DEF MoneyKey

(* A journal under a fresh key, seen from the cash.                        *)
LEMMA BankMoves ==
  ASSUME RailsInv, NEW key, NEW d \in Effects, ~Posted(key), PostJournal(key, d)
  PROVE  bal'[RailCash] = bal[RailCash] + d[RailCash]
<1>1. RailCash \in Accounts
  BY RailsAssumption
<1>2. \A a \in Accounts : bal'[a] = bal[a] + d[a]
  BY PostFresh DEF RailsInv, RailsTypeOK
<1> QED
  BY <1>1, <1>2

LEMMA RowKept ==
  ASSUME RailsKept, NEW k \in RailKeys, RowSound(k), rail'[k] = rail[k], history'[k] = history[k],
         Posted(<<"return", k>>)' => Posted(<<"return", k>>) \/ MoneyPosted(k) # {}
  PROVE  RowSound(k)'
<1>1. \A x : Posted(x) => Posted(x)'
  BY DEF RailsKept, Posted
<1>2. MoneyPosted(k) # {} => MoneyPosted(k)' # {}
  BY DEF RailsKept, MoneyPosted
<1> QED
  BY <1>1, <1>2 DEF RowSound, MoneyKey, Incoming, OverBank

(* A step that moves no money and writes no row.                           *)
LEMMA RailQuietInv ==
  ASSUME RailsInv, UNCHANGED <<journals, bal, rail, history, orders>>, NEW s \in Slots,
         NEW c \in RailRequests, Becomes(s, c), RailCallOK(c),
         \A k : ~Carries(c, k) /\ ~Records(c, k)
  PROVE  RailsInv'
<1>1. RailsKept
  BY DEF RailsKept
<1>2. RailCallOK(c)'
  BY <1>1, RailCallKept
<1>3. call' \in [Slots -> RailRequests] /\ RailCalls' /\ RecordsApart'
  BY <1>1, <1>2, RailCallsMove
<1>4. ASSUME NEW k \in RailKeys PROVE RailAccounted(k)'
  BY AccountedMoves DEF AccountsFor
<1>5. OverdrawnByReturnsOnly' /\ RailsTypeOK'
  BY <1>3 DEF RailsInv, RailsTypeOK, LedgerTypeOK, OverdrawnByReturnsOnly, Returned, Posted
<1>6. \A k \in RailKeys : RowSound(k)'
  BY <1>1, RowKept DEF RailsInv, Posted
<1> QED
  BY <1>3, <1>4, <1>5, <1>6 DEF RailsInv

(* Money comes in under a key that the provider's orders account for.      *)
LEMMA RailCreditInv ==
  ASSUME RailsInv, NEW s \in Slots, NEW k \in RailKeys, NEW id,
         PostJournal(MoneyKey(k, id), MoneyIn(k)), UNCHANGED <<rail, history, orders>>,
         NEW c \in RailRequests, Becomes(s, c), RailCallOK(c)',
         \A K : AccountsFor(K, k) => MoneyKey(k, id) \in K,
         \A j : ~Records(c, j) /\ (Carries(c, j) => Carries(call[s], j) /\ c.saw = call[s].saw)
  PROVE  RailsInv'
<1>1. MoneyIn(k) \in Effects /\ MoneyIn(k)[RailCash] >= 0
  <2>1. RailAmount[k] - RailFee[k] \in Nat /\ RailFee[k] \in Nat
    BY RailSums
  <2>2. MoneyIn(k) \in Effects
    BY <2>1, MoveType, BothType DEF MoneyIn
  <2>3. MoneyIn(k)[RailCash] = RailAmount[k] - RailFee[k]
    BY <2>1, RailsAssumption DEF MoneyIn, Both, Move
  <2> QED
    BY <2>1, <2>2, <2>3
<1>2. /\ LedgerTypeOK' /\ DOMAIN journals' = DOMAIN journals \cup {MoneyKey(k, id)}
      /\ bal'[RailCash] >= bal[RailCash]
  BY <1>1, PostAny, RailsAssumption DEF RailsInv, RailsTypeOK
<1>3. RailsKept
  BY <1>2 DEF RailsKept
<1>4. call' \in [Slots -> RailRequests] /\ RailCalls' /\ RecordsApart'
  BY <1>3, RailCallsMove
<1>5. ASSUME NEW j \in RailKeys PROVE RailAccounted(j)'
  <2>1. ASSUME NEW K, AccountsFor(K, j)
        PROVE  /\ \A x \in DOMAIN journals' \ DOMAIN journals : x[1] = RailOf[j] /\ x[2] = j => x \in K
               /\ Carries(c, j) => MoneyKey(j, c.saw.id) \in K
               /\ rail'[j].status # "none" => MoneyKey(j, rail'[j].id) \in K
    <3>1. \A x \in DOMAIN journals' \ DOMAIN journals : x[1] = RailOf[j] /\ x[2] = j => x \in K
      <4>1. MoneyKey(k, id)[2] = k
        BY MoneyKeyIs
      <4>2. k = j => MoneyKey(k, id) \in K
        BY <2>1
      <4> QED
        BY <1>2, <4>1, <4>2
    <3> QED
      BY <2>1, <3>1 DEF AccountsFor
  <2> QED
    BY <2>1, AccountedMoves
<1>6. \A j \in RailKeys : Posted(<<"return", j>>)' => Posted(<<"return", j>>)
  BY <1>2, MoneyKeyIs DEF Posted
<1>7. \A j \in RailKeys : RowSound(j)'
  BY <1>3, <1>6, RowKept DEF RailsInv
<1>8. bal'[RailCash] \in Int
  BY <1>2, RailsAssumption DEF LedgerTypeOK, Effects
<1>9. OverdrawnByReturnsOnly'
  BY <1>2, <1>6, <1>8, CashCovered
<1> QED
  BY <1>2, <1>4, <1>5, <1>7, <1>9 DEF RailsInv, RailsTypeOK

(* What the calls begin with.                                              *)
LEMMA RailBeginInv ==
  ASSUME RailsInv, NEW s \in Slots, NEW k \in RailKeys,
         RailCall(s, k) \/ WebhookCall(s, k) \/ ReturnCall(s, k)
  PROVE  RailsInv'
<1>1. UNCHANGED <<journals, bal, rail, history, orders>>
  BY DEF RailCall, WebhookCall, ReturnCall
<1>2. RowSound(k) /\ rail[k] \in RailRows
  BY DEF RailsInv, RailsTypeOK
<1>3. CASE RailCall(s, k)
  <2>1. PICK c : c = Request("rail", "provider", k, None)
    OBVIOUS
  <2>2. Becomes(s, c)
    BY <1>3, <2>1 DEF RailCall, Begin, Becomes
  <2>3. c \in RailRequests
    BY <2>1 DEF RailRequests, Requests, Request
  <2>4. c.op = "rail" /\ c.at = "provider" /\ c.row = k
    BY <2>1 DEF Request
  <2>5. RailCallOK(c) /\ \A j : ~Carries(c, j) /\ ~Records(c, j)
    BY <2>4 DEF RailCallOK, RailRequest, RailAnswer, RailBehind, Carries, Records
  <2> QED
    BY <1>1, <2>2, <2>3, <2>5, RailQuietInv
<1>4. CASE WebhookCall(s, k)
  <2>1. PICK c : c = Request("webhook", IF Incoming(k) THEN "credit" ELSE "mark", k, rail[k])
    OBVIOUS
  <2>2. Becomes(s, c) /\ rail[k].status = "pending"
    BY <1>4, <2>1 DEF WebhookCall, Begin, Becomes
  <2>3. c \in RailRequests
    BY <1>2, <2>1 DEF RailRequests, Requests, Request
  <2>4. c.op = "webhook" /\ c.at = (IF Incoming(k) THEN "credit" ELSE "mark") /\ c.row = k /\ c.saw = rail[k]
    BY <2>1 DEF Request
  <2>5. ~OverBank(k) /\ (~Incoming(k) => Posted(MoneyKey(k, rail[k].id)))
    BY <1>2, <2>2 DEF RowSound
  <2>6. RailCallOK(c) /\ \A j : ~Carries(c, j) /\ ~Records(c, j)
    BY <2>2, <2>4, <2>5 DEF RailCallOK, RailRequest, RailAnswer, RailBehind, Carries, Records
  <2> QED
    BY <1>1, <2>2, <2>3, <2>6, RailQuietInv
<1>5. CASE ReturnCall(s, k)
  <2>1. PICK c : c = Request("return", "post", k, None)
    OBVIOUS
  <2>2. Becomes(s, c) /\ rail[k].status = "settled" /\ OverBank(k)
    BY <1>5, <2>1 DEF ReturnCall, Begin, Becomes
  <2>3. c \in RailRequests
    BY <2>1 DEF RailRequests, Requests, Request
  <2>4. c.op = "return" /\ c.at = "post" /\ c.row = k
    BY <2>1 DEF Request
  <2>5. RailCallOK(c) /\ \A j : ~Carries(c, j) /\ ~Records(c, j)
    BY <2>2, <2>4 DEF RailCallOK, RailRequest, RailAnswer, RailBehind, Carries, Records
  <2> QED
    BY <1>1, <2>2, <2>3, <2>5, RailQuietInv
<1> QED
  BY <1>3, <1>4, <1>5

(* The provider takes or pays an order.                                    *)
LEMMA RailProviderInv ==
  ASSUME RailsInv, NEW s \in Slots, ProviderIn(s) \/ ProviderOut(s)
  PROVE  RailsInv'
<1>1. PICK k \in RailKeys : k = call[s].row
  BY RailHere DEF ProviderIn, ProviderOut, At
<1>2. PICK at \in {"credit", "insert", "commit"}, saw \in RailRows :
        /\ call' = [call EXCEPT ![s].at = at, ![s].saw = saw]
        /\ at = "commit" <=> ~Incoming(k)
        /\ Told(k, saw)
        /\ at = "insert" => saw.status = "pending"
  <2>1. \A done \in BOOLEAN, id \in OrderIds \cup RailKeys :
          LET saw == RailRow(IF done THEN DoneStatus(k) ELSE LaterStatus(k), id)
          IN  saw \in RailRows /\ Told(k, saw) /\ (~done /\ ~OverBank(k) => saw.status = "pending")
    BY DEF RailRow, RailRows, Told, DoneStatus, LaterStatus, RailStatuses
  <2>2. CASE ProviderIn(s)
    BY <1>1, <2>1, <2>2 DEF ProviderIn
  <2>3. CASE ProviderOut(s)
    BY <1>1, <2>1, <2>3 DEF ProviderOut
  <2> QED
    BY <2>2, <2>3
<1>3. /\ orders' = [orders EXCEPT ![k] = @ + 1] /\ UNCHANGED <<journals, bal, rail, history>>
      /\ call[s].op = "rail" /\ call[s].at = "provider"
  BY <1>1 DEF ProviderIn, ProviderOut, At
<1>4. PICK c : c = Request("rail", at, k, saw)
  OBVIOUS
<1>5. Becomes(s, c)
  BY <1>1, <1>2, <1>3, <1>4, SeesBecomes DEF RailsInv, RailsTypeOK, RailRequests
<1>6. c \in RailRequests /\ c.op = "rail" /\ c.at = at /\ c.row = k /\ c.saw = saw
  BY <1>2, <1>4 DEF RailRequests, Requests, Request
<1>7. RailCallOK(c)
  BY <1>2, <1>6 DEF RailCallOK, RailRequest, RailAnswer, RailBehind
<1>8. RailsKept
  BY <1>3 DEF RailsKept
<1>9. RailCallOK(c)' /\ \A j : ~Records(c, j)
  BY <1>2, <1>3, <1>6, <1>7, <1>8, RailCallKept DEF Records
<1>10. call' \in [Slots -> RailRequests] /\ RailCalls' /\ RecordsApart'
  BY <1>3, <1>5, <1>6, <1>8, <1>9, RailCallsMove
<1>11. \A j \in RailKeys : RailAccounted(j)'
  BY <1>3, <1>5, <1>6, AccountedMore
<1>12. orders' \in [RailKeys -> Nat]
  BY <1>3 DEF RailsInv, RailsTypeOK
<1>13. OverdrawnByReturnsOnly' /\ RailsTypeOK'
  BY <1>3, <1>10, <1>12 DEF RailsInv, RailsTypeOK, LedgerTypeOK, OverdrawnByReturnsOnly, Returned, Posted
<1>14. \A j \in RailKeys : RowSound(j)'
  BY <1>3, <1>8, RowKept DEF RailsInv, Posted
<1> QED
  BY <1>10, <1>11, <1>13, <1>14 DEF RailsInv

LEMMA RailCreditsInv ==
  ASSUME RailsInv, NEW s \in Slots, CreditIn(s) \/ WebhookCredit(s)
  PROVE  RailsInv'
<1>1. PICK k \in RailKeys : k = call[s].row
  BY RailHere DEF CreditIn, WebhookCredit, At
<1>2. PICK id : id = call[s].saw.id
  OBVIOUS
<1>3. /\ PostJournal(MoneyKey(k, id), MoneyIn(k)) /\ UNCHANGED <<rail, history, orders>>
      /\ Goto(s, IF call[s].op = "rail" THEN "insert" ELSE "mark")
      /\ call[s].op \in {"rail", "webhook"} /\ call[s].at = "credit"
  BY <1>1, <1>2 DEF CreditIn, WebhookCredit, DeliveryKey, At
<1>4. PICK c \in RailRequests : /\ Becomes(s, c) /\ c.op = call[s].op
                                /\ c.at = (IF call[s].op = "rail" THEN "insert" ELSE "mark")
                                /\ c.row = call[s].row /\ c.saw = call[s].saw
  BY <1>3, RailGoto
<1>5. RailCallOK(call[s])
  BY RailHere
<1>6. Posted(MoneyKey(k, id))'
  BY <1>3 DEF PostJournal, Posted, ledgerVars
<1>7. call[s].op = "webhook" => id = rail[k].id
  BY <1>1, <1>2, <1>3, <1>5 DEF RailCallOK, RailBehind
<1>8. RailCallOK(c)'
  BY <1>1, <1>2, <1>3, <1>4, <1>5, <1>6, <1>7
     DEF RailCallOK, RailRequest, RailAnswer, RailBehind, Posted, Incoming, OverBank, Told, DoneStatus,
         LaterStatus, MoneyKey, RailRows
<1>9. ASSUME NEW K, AccountsFor(K, k) PROVE MoneyKey(k, id) \in K
  <2>1. CASE call[s].op = "rail"
    BY <1>1, <1>2, <1>3, <1>9, <2>1 DEF AccountsFor, Carries
  <2>2. CASE call[s].op = "webhook"
    <3>1. rail[k].status # "none"
      BY <1>1, <1>5, <2>2 DEF RailCallOK, RailRequest
    <3> QED
      BY <1>7, <1>9, <2>2, <3>1 DEF AccountsFor
  <2> QED
    BY <1>3, <2>1, <2>2
<1>10. \A j : ~Records(c, j) /\ (Carries(c, j) => Carries(call[s], j) /\ c.saw = call[s].saw)
  BY <1>3, <1>4 DEF Records, Carries
<1> QED
  BY <1>3, <1>4, <1>8, <1>9, <1>10, RailCreditInv

(* A row is written, with its entry in the history or without.             *)
LEMMA RailWriteInv ==
  ASSUME RailsInv, RailsKept, NEW s \in Slots, NEW k \in RailKeys,
         UNCHANGED <<journals, bal, orders>>,
         NEW c \in RailRequests, Becomes(s, c), RailCallOK(c)', \A j : ~Carries(c, j),
         \A j \in RailKeys : history'[j] # history[j] \/ Records(c, j) =>
           \A t \in Slots \ {s} : ~Records(call[t], j),
         rail' \in [RailKeys -> RailRows], history' \in [RailKeys -> Nat],
         \A j \in RailKeys \ {k} : rail'[j] = rail[j] /\ history'[j] = history[j],
         RowSound(k)',
         \A K : AccountsFor(K, k) => MoneyKey(k, rail'[k].id) \in K
  PROVE  RailsInv'
<1>1. call' \in [Slots -> RailRequests] /\ RailCalls' /\ RecordsApart'
  BY RailCallsMove
<1>2. ASSUME NEW j \in RailKeys PROVE RailAccounted(j)'
  <2>1. \A K : AccountsFor(K, j) => (rail'[j].status # "none" => MoneyKey(j, rail'[j].id) \in K)
    BY DEF AccountsFor
  <2> QED
    BY <2>1, AccountedMoves
<1>3. ASSUME NEW j \in RailKeys PROVE RowSound(j)'
  <2>1. CASE j # k
    BY <2>1, RowKept DEF RailsInv, Posted
  <2> QED
    BY <2>1
<1>4. OverdrawnByReturnsOnly' /\ RailsTypeOK'
  BY <1>1 DEF RailsInv, RailsTypeOK, LedgerTypeOK, OverdrawnByReturnsOnly, Returned, Posted
<1> QED
  BY <1>1, <1>2, <1>3, <1>4 DEF RailsInv

(* No request of a key without a row is about to record it.                *)
LEMMA NoRecords ==
  ASSUME RailsInv, NEW k \in RailKeys, rail[k].status = "none"
  PROVE  history[k] = 0 /\ \A t \in Slots : ~Records(call[t], k)
<1>1. history[k] = 0
  <2>1. RowSound(k) /\ history[k] \in Nat
    BY DEF RailsInv, RailsTypeOK
  <2>2. history[k] <= 0
    BY <2>1 DEF RowSound
  <2> QED
    BY <2>1, <2>2
<1>2. ASSUME NEW t \in Slots, Records(call[t], k) PROVE FALSE
  BY <1>2, RailHere DEF Records, RailCallOK, RailBehind
<1> QED
  BY <1>1, <1>2

LEMMA RailInsertInv ==
  ASSUME RailsInv, NEW s \in Slots, InsertIn(s)
  PROVE  RailsInv'
<1>1. PICK k \in RailKeys : k = call[s].row
  BY RailHere DEF InsertIn, At
<1>2. /\ UNCHANGED <<journals, bal, history, orders>> /\ call[s].op = "rail" /\ call[s].at = "insert"
      /\ \/ rail[k].status # "none" /\ UNCHANGED rail /\ Leave(s)
         \/ /\ rail[k].status = "none" /\ rail' = [rail EXCEPT ![k] = call[s].saw]
            /\ \/ OverBank(k) /\ Goto(s, "record")
               \/ ~OverBank(k) /\ Leave(s)
  BY <1>1 DEF InsertIn, At
<1>3. CASE UNCHANGED rail /\ Leave(s)
  BY <1>2, <1>3, RailLeave, RailIdle, RailQuietInv
<1>4. CASE /\ rail[k].status = "none" /\ rail' = [rail EXCEPT ![k] = call[s].saw]
           /\ \/ OverBank(k) /\ Goto(s, "record")
              \/ ~OverBank(k) /\ Leave(s)
  <2>1. PICK c \in RailRequests : Becomes(s, c) /\ (c = Idle \/ (OverBank(k) /\ c.op = "rail" /\ c.at = "record" /\ c.row = k))
    <3>1. CASE OverBank(k) /\ Goto(s, "record")
      BY <1>1, <1>2, <3>1, RailGoto
    <3>2. CASE ~OverBank(k) /\ Leave(s)
      BY <3>2, RailLeave, RailIdle
    <3> QED
      BY <1>4, <3>1, <3>2
  <2>2. PICK row : row = call[s].saw
    OBVIOUS
  <2>3. /\ Told(k, row) /\ Incoming(k) /\ row \in RailRows
        /\ row.status # "pending" => Posted(MoneyKey(k, row.id))
    BY <1>1, <1>2, <2>2, RailHere DEF RailCallOK, RailAnswer, Told
  <2>4. rail' = [rail EXCEPT ![k] = row] /\ rail' \in [RailKeys -> RailRows] /\ rail'[k] = row
        /\ \A j \in RailKeys \ {k} : rail'[j] = rail[j]
    BY <1>4, <2>2, <2>3 DEF RailsInv, RailsTypeOK
  <2>5. /\ OverBank(k) => row.status \in {"settled", "requested"}
        /\ ~OverBank(k) => row.status \in {"completed", "pending"}
    BY <2>3 DEF Told, DoneStatus, LaterStatus
  <2>6. history[k] = 0 /\ \A t \in Slots : ~Records(call[t], k)
    BY <1>4, NoRecords
  <2>7. RailsKept
    BY <1>2, <1>4, <2>4 DEF RailsKept
  <2>8. RailCallOK(c)'
    <3>1. CASE c = Idle
      BY <3>1, RailIdle DEF RailCallOK, RailRequest, RailAnswer, RailBehind, Idle, Request
    <3>2. CASE OverBank(k) /\ c.op = "rail" /\ c.at = "record" /\ c.row = k
      BY <1>2, <2>4, <2>5, <2>6, <3>2 DEF RailCallOK, RailRequest, RailAnswer, RailBehind, OverBank
    <3> QED
      BY <2>1, <3>1, <3>2
  <2>9. /\ \A j : ~Carries(c, j)
        /\ \A j \in RailKeys : history'[j] # history[j] \/ Records(c, j) =>
             \A t \in Slots \ {s} : ~Records(call[t], j)
    BY <1>2, <2>1, <2>6, RailIdle DEF Carries, Records
  <2>10. RowSound(k)'
    <3>1. RowSound(k)
      BY DEF RailsInv
    <3>2. Posted(<<"return", k>>) => MoneyPosted(k) # {}
      BY <3>1 DEF RowSound
    <3> QED
      BY <1>2, <2>3, <2>4, <2>5, <2>6, <3>2 DEF RowSound, Posted, MoneyPosted, MoneyKey, Incoming, OverBank
  <2>11. \A K : AccountsFor(K, k) => MoneyKey(k, rail'[k].id) \in K
    BY <1>1, <1>2, <2>2, <2>4 DEF AccountsFor, Carries
  <2>12. history' \in [RailKeys -> Nat] /\ \A j \in RailKeys \ {k} : history'[j] = history[j]
    BY <1>2 DEF RailsInv, RailsTypeOK
  <2> QED
    BY <1>2, <2>1, <2>4, <2>7, <2>8, <2>9, <2>10, <2>11, <2>12, RailWriteInv
<1> QED
  BY <1>2, <1>3, <1>4

LEMMA RailRecordInv ==
  ASSUME RailsInv, NEW s \in Slots, RecordIn(s)
  PROVE  RailsInv'
<1>1. PICK k \in RailKeys : k = call[s].row
  BY RailHere DEF RecordIn, At
<1>2. /\ UNCHANGED <<journals, bal, rail, orders>> /\ call[s].op = "rail" /\ call[s].at = "record"
      /\ history' = [history EXCEPT ![k] = @ + 1] /\ Becomes(s, Idle)
  BY <1>1, RailLeave DEF RecordIn, At
<1>3. history[k] = 0 /\ rail[k].status # "none"
  BY <1>1, <1>2, RailHere DEF RailCallOK, RailBehind
<1>4. /\ history' \in [RailKeys -> Nat] /\ history'[k] = 1
      /\ \A j \in RailKeys \ {k} : history'[j] = history[j]
  BY <1>2, <1>3 DEF RailsInv, RailsTypeOK
<1>5. RailsKept
  BY <1>2 DEF RailsKept
<1>6. \A j \in RailKeys : history'[j] # history[j] \/ Records(Idle, j) =>
        \A t \in Slots \ {s} : ~Records(call[t], j)
  BY <1>1, <1>2, <1>4, RailIdle DEF RailsInv, RecordsApart, Records
<1>7. RailCallOK(Idle)'
  BY RailIdle DEF RailCallOK, RailRequest, RailAnswer, RailBehind, Idle, Request
<1>8. RowSound(k)'
  <2>1. RowSound(k)
    BY DEF RailsInv
  <2> QED
    BY <1>2, <1>3, <1>4, <2>1 DEF RowSound, Posted, MoneyPosted
<1>9. \A K : AccountsFor(K, k) => MoneyKey(k, rail'[k].id) \in K
  BY <1>2, <1>3 DEF AccountsFor
<1>10. rail' \in [RailKeys -> RailRows] /\ \A j \in RailKeys \ {k} : rail'[j] = rail[j]
  BY <1>2 DEF RailsInv, RailsTypeOK
<1> QED
  BY <1>2, <1>4, <1>5, <1>6, <1>7, <1>8, <1>9, <1>10, RailIdle, RailWriteInv

LEMMA RailMarkInv ==
  ASSUME RailsInv, NEW s \in Slots, WebhookMark(s) \/ ReturnMark(s)
  PROVE  RailsInv'
<1>1. PICK k \in RailKeys : k = call[s].row
  BY RailHere DEF WebhookMark, ReturnMark, At
<1>2. PICK st \in {"completed", "returned"} :
        /\ UNCHANGED <<journals, bal, history, orders>> /\ call[s].at = "mark"
        /\ call[s].op = (IF st = "completed" THEN "webhook" ELSE "return")
        /\ rail' = [rail EXCEPT ![k].status = st] /\ Becomes(s, Idle)
  BY <1>1, RailLeave DEF WebhookMark, ReturnMark, At
<1>3. RailCallOK(call[s]) /\ RowSound(k)
  BY RailHere DEF RailsInv
<1>4. /\ rail[k].status # "none" /\ Posted(MoneyKey(k, rail[k].id))
      /\ st = "completed" => ~OverBank(k)
      /\ st = "returned" => /\ OverBank(k) /\ rail[k].status \in {"settled", "returned"}
                            /\ Posted(<<"return", k>>)
  BY <1>1, <1>2, <1>3 DEF RailCallOK, RailRequest, RailBehind, RowSound
<1>5. /\ rail' \in [RailKeys -> RailRows] /\ rail'[k].status = st /\ rail'[k].id = rail[k].id
      /\ \A j \in RailKeys \ {k} : rail'[j] = rail[j]
  BY <1>2 DEF RailsInv, RailsTypeOK, RailRows, RailStatuses
<1>6. RailsKept
  <2>1. st = "completed" => rail[k].status \notin {"settled", "returned"}
    BY <1>3, <1>4 DEF RowSound
  <2> QED
    BY <1>2, <1>4, <1>5, <2>1 DEF RailsKept
<1>7. RailCallOK(Idle)'
  BY RailIdle DEF RailCallOK, RailRequest, RailAnswer, RailBehind, Idle, Request
<1>8. RowSound(k)'
  BY <1>2, <1>3, <1>4, <1>5 DEF RowSound, Posted, MoneyPosted, MoneyKey, Incoming, OverBank
<1>9. \A K : AccountsFor(K, k) => MoneyKey(k, rail'[k].id) \in K
  BY <1>4, <1>5 DEF AccountsFor
<1>10. history' \in [RailKeys -> Nat] /\ \A j \in RailKeys : history'[j] = history[j]
  BY <1>2 DEF RailsInv, RailsTypeOK
<1> QED
  BY <1>2, <1>5, <1>6, <1>7, <1>8, <1>9, <1>10, RailIdle, RailWriteInv

(* The journal of a payout or a sale, and its row.                         *)
LEMMA RailCommitInv ==
  ASSUME RailsInv, NEW s \in Slots, CommitOut(s)
  PROVE  RailsInv'
<1>1. PICK k \in RailKeys : k = call[s].row
  BY RailHere DEF CommitOut, At
<1>2. /\ UNCHANGED orders /\ call[s].op = "rail" /\ call[s].at = "commit" /\ Becomes(s, Idle)
      /\ \/ UNCHANGED <<journals, bal, rail, history>>
         \/ rail[k].status = "none" /\ bal[RailCash] >= RailAmount[k] /\ DebitOut(s, k)
  BY <1>1, RailLeave DEF CommitOut, At
<1>3. CASE UNCHANGED <<journals, bal, rail, history>>
  BY <1>2, <1>3, RailIdle, RailQuietInv
<1>4. CASE rail[k].status = "none" /\ bal[RailCash] >= RailAmount[k] /\ DebitOut(s, k)
  <2>1. PICK row : row = call[s].saw
    OBVIOUS
  <2>2. Told(k, row) /\ ~Incoming(k) /\ row \in RailRows
    BY <1>1, <1>2, <2>1, RailHere DEF RailCallOK, RailAnswer, Told
  <2>3. /\ PostJournal(MoneyKey(k, row.id), MoneyOut(k))
        /\ rail' = [rail EXCEPT ![k] = row]
        /\ history' = [history EXCEPT ![k] = @ + (IF OverBank(k) THEN 1 ELSE 0)]
    BY <1>4, <2>1, <2>2 DEF DebitOut, MoneyKey, Incoming
  <2>4. MoneyOut(k) \in Effects /\ MoneyOut(k)[RailCash] = -RailAmount[k]
    <3>1. RailAmount[k] - RailFee[k] \in Nat /\ RailFee[k] \in Nat /\ RailAmount[k] \in Nat
      BY RailSums
    <3>2. MoneyOut(k) \in Effects
      BY <3>1, MoveType, BothType DEF MoneyOut
    <3>3. MoneyOut(k)[RailCash] = -(RailAmount[k] - RailFee[k]) - RailFee[k]
      BY <3>1, RailsAssumption DEF MoneyOut, Both, Move
    <3> QED
      BY <3>1, <3>2, <3>3
  <2>5. LedgerTypeOK' /\ DOMAIN journals' = DOMAIN journals \cup {MoneyKey(k, row.id)}
    BY <2>3, <2>4, PostAny DEF RailsInv, RailsTypeOK
  <2>6. bal'[RailCash] \in Int /\ (bal'[RailCash] >= bal[RailCash] \/ bal'[RailCash] >= 0)
    <3>1. bal[RailCash] \in Int /\ bal'[RailCash] \in Int /\ RailAmount[k] \in Nat
      BY <2>5, RailSums, RailsAssumption DEF RailsInv, RailsTypeOK, LedgerTypeOK, Effects
    <3>2. CASE Posted(MoneyKey(k, row.id))
      BY <2>3, <3>1, <3>2 DEF PostJournal, ledgerVars
    <3>3. CASE ~Posted(MoneyKey(k, row.id))
      <4>1. bal'[RailCash] = bal[RailCash] + MoneyOut(k)[RailCash]
        BY <2>3, <2>4, <3>3, BankMoves
      <4> QED
        BY <1>4, <2>4, <3>1, <4>1
    <3> QED
      BY <3>2, <3>3
  <2>7. /\ rail' \in [RailKeys -> RailRows] /\ rail'[k] = row
        /\ \A j \in RailKeys \ {k} : rail'[j] = rail[j]
        /\ history' \in [RailKeys -> Nat]
        /\ \A j \in RailKeys \ {k} : history'[j] = history[j]
    BY <2>2, <2>3 DEF RailsInv, RailsTypeOK
  <2>8. history[k] = 0 /\ \A t \in Slots : ~Records(call[t], k)
    BY <1>4, NoRecords
  <2>9. history'[k] <= 1
    BY <2>3, <2>8 DEF RailsInv, RailsTypeOK
  <2>10. RailsKept
    BY <1>4, <2>5, <2>7 DEF RailsKept
  <2>11. RailCallOK(Idle)'
    BY RailIdle DEF RailCallOK, RailRequest, RailAnswer, RailBehind, Idle, Request
  <2>12. call' \in [Slots -> RailRequests] /\ RailCalls' /\ RecordsApart'
    BY <1>2, <2>7, <2>8, <2>10, <2>11, RailIdle, RailCallsMove
  <2>13. ASSUME NEW j \in RailKeys PROVE RailAccounted(j)'
    <3>1. ASSUME NEW K, AccountsFor(K, j)
          PROVE  /\ \A x \in DOMAIN journals' \ DOMAIN journals : x[1] = RailOf[j] /\ x[2] = j => x \in K
                 /\ Carries(Idle, j) => MoneyKey(j, Idle.saw.id) \in K
                 /\ rail'[j].status # "none" => MoneyKey(j, rail'[j].id) \in K
      <4>1. j = k => MoneyKey(k, row.id) \in K
        BY <1>1, <1>2, <2>1, <3>1 DEF AccountsFor, Carries
      <4>2. \A x \in DOMAIN journals' \ DOMAIN journals : x[1] = RailOf[j] /\ x[2] = j => x \in K
        <5>1. MoneyKey(k, row.id)[2] = k
          BY MoneyKeyIs
        <5> QED
          BY <2>5, <4>1, <5>1
      <4>3. rail'[j].status # "none" => MoneyKey(j, rail'[j].id) \in K
        BY <2>7, <3>1, <4>1 DEF AccountsFor
      <4> QED
        BY <4>2, <4>3, RailIdle
    <3> QED
      BY <1>2, <3>1, RailIdle, AccountedMoves
  <2>14. \A j \in RailKeys : Posted(<<"return", j>>)' => Posted(<<"return", j>>)
    BY <2>5, MoneyKeyIs DEF Posted
  <2>15. RowSound(k)'
    <3>1. Posted(MoneyKey(k, row.id))' /\ MoneyPosted(k)' # {}
      <4>1. MoneyKey(k, row.id) \in MoneyPosted(k)'
        BY <2>5, MoneyKeyIs DEF MoneyPosted
      <4> QED
        BY <2>5, <4>1 DEF Posted
    <3>2. /\ OverBank(k) => row.status \in {"settled", "requested"}
          /\ ~OverBank(k) => row.status \in {"completed", "pending"}
      BY <2>2 DEF Told, DoneStatus, LaterStatus
    <3> QED
      <4>1. Posted(MoneyKey(k, rail[k].id))'
        BY <2>7, <3>1 DEF Posted, MoneyKey
      <4>2. /\ rail'[k].status \in {"pending", "completed"} => ~OverBank(k)
            /\ rail'[k].status \in {"settled", "requested", "returned"} => OverBank(k)
            /\ rail'[k].status \notin {"none", "returned"}
        BY <2>7, <3>2
      <4>3. history'[k] <= (IF rail'[k].status = "none" THEN 0 ELSE 1)
        BY <2>9, <4>2
      <4> QED
        BY <3>1, <4>1, <4>2, <4>3 DEF RowSound, Posted, OverBank, MoneyKey, Incoming, MoneyPosted
  <2>16. \A j \in RailKeys : RowSound(j)'
    BY <2>7, <2>10, <2>14, <2>15, RowKept DEF RailsInv
  <2>17. OverdrawnByReturnsOnly'
    BY <2>5, <2>6, <2>14, CashCovered
  <2>18. RailsTypeOK'
    BY <1>2, <2>5, <2>7, <2>12 DEF RailsInv, RailsTypeOK
  <2> QED
    BY <2>12, <2>13, <2>16, <2>17, <2>18 DEF RailsInv
<1> QED
  BY <1>2, <1>3, <1>4

(* The reversal of a deposit or a payout.                                  *)
LEMMA RailReturnInv ==
  ASSUME RailsInv, NEW s \in Slots, ReturnPost(s)
  PROVE  RailsInv'
<1>1. PICK k \in RailKeys : k = call[s].row
  BY RailHere DEF ReturnPost, At
<1>2. /\ UNCHANGED <<rail, history, orders>> /\ call[s].op = "return" /\ call[s].at = "post"
      /\ PostJournal(<<"return", k>>, Reversal(k)) /\ Goto(s, "mark")
  BY <1>1 DEF ReturnPost, At
<1>3. PICK c \in RailRequests : Becomes(s, c) /\ c.op = "return" /\ c.at = "mark" /\ c.row = k
  BY <1>1, <1>2, RailGoto
<1>4. RailCallOK(call[s]) /\ RowSound(k)
  BY RailHere DEF RailsInv
<1>5. rail[k].status \in {"settled", "returned"} /\ OverBank(k) /\ MoneyPosted(k) # {}
  <2>1. rail[k].status \in {"settled", "returned"} /\ OverBank(k)
    BY <1>1, <1>2, <1>4 DEF RailCallOK, RailRequest
  <2>2. MoneyKey(k, rail[k].id) \in MoneyPosted(k)
    BY <1>4, <2>1, MoneyKeyIs DEF RowSound, MoneyPosted, Posted
  <2> QED
    BY <2>1, <2>2
<1>6. /\ Reversal(k) \in Effects
      /\ Reversal(k)[RailCash] = (IF RailOf[k] = "deposit" THEN -RailAmount[k] ELSE RailAmount[k])
      /\ RailAmount[k] \in Nat
  <2>1. RailAmount[k] \in Nat
    BY RailSums
  <2> QED
    <3>1. /\ Move(RailCash, Clearing, RailAmount[k]) \in Effects
          /\ Move(Clearing, RailCash, RailAmount[k]) \in Effects
      BY <2>1, MoveType
    <3>2. RailCash \in Accounts /\ RailCash # Clearing
      BY RailsAssumption
    <3>3. /\ Move(RailCash, Clearing, RailAmount[k])[RailCash] = -RailAmount[k]
          /\ Move(Clearing, RailCash, RailAmount[k])[RailCash] = RailAmount[k]
      BY <2>1, <3>2 DEF Move
    <3> QED
      BY <2>1, <3>1, <3>3 DEF Reversal
<1>7. LedgerTypeOK' /\ DOMAIN journals' = DOMAIN journals \cup {<<"return", k>>}
  BY <1>2, <1>6, PostAny DEF RailsInv, RailsTypeOK
<1>8. RailsKept
  BY <1>2, <1>7 DEF RailsKept
<1>9. RailCallOK(c)'
  BY <1>2, <1>3, <1>5, <1>7 DEF RailCallOK, RailRequest, RailAnswer, RailBehind, Posted, OverBank
<1>10. call' \in [Slots -> RailRequests] /\ RailCalls' /\ RecordsApart'
  BY <1>2, <1>3, <1>8, <1>9, RailCallsMove DEF Records
<1>11. ASSUME NEW j \in RailKeys PROVE RailAccounted(j)'
  <2>1. \A x \in DOMAIN journals' \ DOMAIN journals : x[1] # RailOf[j]
    BY <1>7, MoneyKeyIs
  <2> QED
    BY <1>2, <1>3, <2>1, AccountedMoves DEF AccountsFor, Carries
<1>12. ASSUME NEW j \in RailKeys PROVE RowSound(j)'
  <2>1. RowSound(j)
    BY DEF RailsInv
  <2>2. Posted(<<"return", j>>)' => Posted(<<"return", j>>) \/ MoneyPosted(j) # {}
    BY <1>5, <1>7 DEF Posted
  <2> QED
    BY <1>2, <1>8, <2>1, <2>2, RowKept
<1>13. OverdrawnByReturnsOnly'
  <2>1. bal[RailCash] \in Int /\ bal'[RailCash] \in Int
    BY <1>7, RailsAssumption DEF RailsInv, RailsTypeOK, LedgerTypeOK, Effects
  <2>2. CASE Posted(<<"return", k>>) \/ RailOf[k] # "deposit"
    <3>1. Returned' = Returned
      BY <1>7, <2>2 DEF Returned, Posted
    <3>2. bal'[RailCash] >= bal[RailCash]
      <4>1. CASE Posted(<<"return", k>>)
        BY <1>2, <2>1, <4>1 DEF PostJournal, ledgerVars
      <4>2. CASE ~Posted(<<"return", k>>)
        <5>1. bal'[RailCash] = bal[RailCash] + Reversal(k)[RailCash]
          BY <1>2, <1>6, <4>2, BankMoves
        <5> QED
          BY <1>6, <2>1, <2>2, <4>2, <5>1
      <4> QED
        BY <4>1, <4>2
    <3>3. PICK n \in Nat : n = SumFunctionOnSet(RailAmount, Returned)
      BY RailSums
    <3>4. bal[RailCash] + n >= 0
      BY <3>3 DEF RailsInv, OverdrawnByReturnsOnly
    <3>5. bal'[RailCash] + n >= 0
      BY <2>1, <3>2, <3>3, <3>4
    <3> QED
      BY <3>1, <3>3, <3>5 DEF OverdrawnByReturnsOnly
  <2>3. CASE ~Posted(<<"return", k>>) /\ RailOf[k] = "deposit"
    <3>1. Returned' = Returned \cup {k} /\ k \notin Returned
      BY <1>7, <2>3 DEF Returned, Posted
    <3>2. \A x \in Returned : RailAmount[x] \in Int
      BY RailSums DEF Returned
    <3>3. SumFunctionOnSet(RailAmount, Returned') = SumFunctionOnSet(RailAmount, Returned) + RailAmount[k]
      BY <1>6, <3>1, <3>2, RailSums, SumAdd
    <3>4. bal'[RailCash] = bal[RailCash] - RailAmount[k]
      <4>1. bal'[RailCash] = bal[RailCash] + Reversal(k)[RailCash]
        BY <1>2, <1>6, <2>3, BankMoves
      <4> QED
        BY <1>6, <2>1, <2>3, <4>1
    <3>5. PICK n \in Nat : n = SumFunctionOnSet(RailAmount, Returned)
      BY RailSums
    <3>6. bal[RailCash] + n >= 0
      BY <3>5 DEF RailsInv, OverdrawnByReturnsOnly
    <3>7. bal'[RailCash] + SumFunctionOnSet(RailAmount, Returned') >= 0
      BY <1>6, <2>1, <3>3, <3>4, <3>5, <3>6
    <3> QED
      BY <3>7 DEF OverdrawnByReturnsOnly
  <2> QED
    BY <2>2, <2>3
<1> QED
  BY <1>2, <1>7, <1>10, <1>11, <1>12, <1>13 DEF RailsInv, RailsTypeOK

LEMMA RailsStepInv == RailsInv /\ [RailsNext]_railVars => RailsInv'
<1> SUFFICES ASSUME RailsInv, [RailsNext]_railVars PROVE RailsInv'
  OBVIOUS
<1>1. CASE UNCHANGED railVars
  <2>1. UNCHANGED <<journals, bal, call, rail, history, orders>>
    BY <1>1 DEF railVars
  <2>2. PICK s \in Slots : TRUE
    BY ServiceAssumption
  <2>3. \A k \in RailKeys : RailAccounted(k)'
    BY <2>1 DEF RailsInv, RailAccounted, AccountsFor, MoneyPosted
  <2>4. RailCalls' /\ RecordsApart'
    BY <2>1 DEF RailsInv, RailCalls, RailCallOK, RailRequest, RailAnswer, RailBehind, RecordsApart, Posted
  <2>5. \A k \in RailKeys : RowSound(k)'
    BY <2>1 DEF RailsInv, RowSound, MoneyPosted, Posted
  <2>6. OverdrawnByReturnsOnly' /\ RailsTypeOK'
    BY <2>1 DEF RailsInv, RailsTypeOK, LedgerTypeOK, OverdrawnByReturnsOnly, Returned, Posted
  <2> QED
    BY <2>3, <2>4, <2>5, <2>6 DEF RailsInv
<1>2. ASSUME NEW s \in Slots,
             \/ \E k \in RailKeys : RailCall(s, k) \/ WebhookCall(s, k) \/ ReturnCall(s, k)
             \/ ProviderIn(s) \/ CreditIn(s) \/ InsertIn(s) \/ RecordIn(s)
             \/ ProviderOut(s) \/ CommitOut(s)
             \/ WebhookCredit(s) \/ WebhookMark(s) \/ ReturnPost(s) \/ ReturnMark(s)
      PROVE  RailsInv'
  BY <1>2, RailBeginInv, RailProviderInv, RailCreditsInv, RailInsertInv, RailRecordInv, RailCommitInv,
     RailMarkInv, RailReturnInv
<1>3. ASSUME NEW s \in Slots, Dies(s), UNCHANGED <<rail, history, orders>> PROVE RailsInv'
  BY <1>3, RailIdle, RailLeave, RailQuietInv DEF Dies, ledgerVars
<1> QED
  BY <1>1, <1>2, <1>3 DEF RailsNext

-----------------------------------------------------------------------------
(* Wallets: the ledger never runs ahead of the chain, and the gate holds.  *)

(* A send that is past its leg has one, frozen or not, and one that is to  *)
(* be closed has its journal; one before its leg passed a gate that was    *)
(* open, or is among those that were past it.                              *)
SendSafe(s, c) ==
  /\ c = Request(c.op, c.at, c.row, c.saw)
  /\ c.op = "send" => /\ c.row \in Sends
                      /\ c.at \in {"leg", "post", "close"}
                      /\ c.at # "leg" => legs[c.row] > 0 \/ others[c.row] > 0
                      /\ c.at = "close" => Posted(c.row)
                      /\ c.at = "leg" /\ latest.result = "drift" => s \in latest.past

WalletsTypeOK ==
  /\ legs \in [Sends -> Nat] /\ others \in [Sends -> Nat]
  /\ build \in [Sends -> {"none", "pending", "expired", "submitted"}]
  /\ latest \in [result : {"none", "ok", "drift", "error"}, quiet : BOOLEAN, past : SUBSET Slots]
  /\ call = [s \in Slots |-> call[s]]

WalletsInv ==
  /\ WalletsTypeOK
  /\ \A s \in Slots : SendSafe(s, call[s])
  /\ JournalsHaveLegs

LEMMA WalletsInitInv == WalletsInit => WalletsInv
BY DEF WalletsInit, ServiceInit, LedgerInit, Idle, Request, Posted,
       WalletsInv, WalletsTypeOK, SendSafe, JournalsHaveLegs

(* A step that moves no money, marks nothing and ends or advances calls.   *)
LEMMA WalletsUnmoved ==
  ASSUME WalletsInv, UNCHANGED <<journals, legs, others, answers>>,
         WalletsTypeOK', \A k \in Sends : build'[k] = "submitted" => build[k] = "submitted",
         \A s \in Slots : SendSafe(s, call[s])'
  PROVE  WalletsInv'
BY DEF WalletsInv, JournalsHaveLegs, Posted

(* What Disturb leaves of the calls.                                       *)
LEMMA Disturbed ==
  ASSUME WalletsTypeOK, NEW calls, Disturb(calls),
         \A s \in Slots :
           calls[s] = Request(calls[s].op, calls[s].at, calls[s].row, calls[s].saw)
  PROVE  /\ call' = [s \in Slots |-> call'[s]]
         /\ latest'.result = latest.result /\ latest'.past = latest.past
         /\ latest' \in [result : {"none", "ok", "drift", "error"}, quiet : BOOLEAN,
                          past : SUBSET Slots]
         /\ \A s \in Slots :
              /\ call'[s] = Request(call'[s].op, call'[s].at, call'[s].row, call'[s].saw)
              /\ call'[s].op = calls[s].op /\ call'[s].at = calls[s].at /\ call'[s].row = calls[s].row
<1> USE DEF Disturb, WalletsTypeOK
<1>1. latest'.result = latest.result /\ latest'.past = latest.past
      /\ latest' \in [result : {"none", "ok", "drift", "error"}, quiet : BOOLEAN, past : SUBSET Slots]
  OBVIOUS
<1>2. call' = [s \in Slots |-> call'[s]]
  OBVIOUS
<1>3. ASSUME NEW s \in Slots
      PROVE  /\ call'[s] = Request(call'[s].op, call'[s].at, call'[s].row, call'[s].saw)
             /\ call'[s].op = calls[s].op /\ call'[s].at = calls[s].at /\ call'[s].row = calls[s].row
  <2>1. CASE calls[s].op # "reconcile"
    BY <2>1
  <2>2. CASE calls[s].op = "reconcile"
    <3>1. call'[s] = [calls[s] EXCEPT !.saw.quiet = FALSE]
      BY <2>2
    <3>2. calls[s] = Request(calls[s].op, calls[s].at, calls[s].row, calls[s].saw)
      OBVIOUS
    <3>3. call'[s] = Request(calls[s].op, calls[s].at, calls[s].row, call'[s].saw)
      BY <3>1, <3>2 DEF Request
    <3> QED
      BY <3>3 DEF Request
  <2> QED
    BY <2>1, <2>2
<1> QED
  BY <1>1, <1>2, <1>3

LEMMA WalletsStepInv == WalletsInv /\ [WalletsNext]_walletVars => WalletsInv'
<1> SUFFICES ASSUME WalletsInv, [WalletsNext]_walletVars PROVE WalletsInv'
  OBVIOUS
<1> USE DEF WalletsInv
<1>1. ASSUME NEW s \in Slots, NEW k \in Sends, SendCall(s, k) PROVE WalletsInv'
  <2>1. call' = [call EXCEPT ![s] = Request("send", "leg", k, None)] /\ latest.result # "drift"
    BY <1>1 DEF SendCall, Begin, Gated
  <2>2. \A t \in Slots : SendSafe(t, call[t])'
    BY <1>1, <2>1 DEF SendCall, SendSafe, WalletsTypeOK, Request, Posted
  <2>3. WalletsTypeOK'
    BY <1>1, <2>1 DEF SendCall, WalletsTypeOK
  <2> QED
    BY <1>1, <2>2, <2>3, WalletsUnmoved DEF SendCall
<1>2. ASSUME NEW s \in Slots, OnChainTransfer(s) \/ SubmitOther(s) PROVE WalletsInv'
  <2>1. PICK k \in Sends : k = call[s].row
    BY <1>2 DEF OnChainTransfer, SubmitOther, At, SendSafe
  <2>2. /\ Disturb([call EXCEPT ![s].at = "post"])
        /\ At(s, "send", "leg") /\ UNCHANGED <<journals, build, answers>>
    BY <1>2 DEF OnChainTransfer, SubmitOther, OnTheWay
  <2>3. /\ legs' \in [Sends -> Nat] /\ others' \in [Sends -> Nat]
        /\ legs'[k] > 0 \/ others'[k] > 0
        /\ \A j \in Sends : /\ legs'[j] >= legs[j] /\ others'[j] >= others[j]
                            /\ others'[j] > 0 => others[j] > 0 \/ SendOf[j] = "built"
    BY <1>2, <2>1 DEF OnChainTransfer, SubmitOther, WalletsTypeOK
  <2> DEFINE calls == [call EXCEPT ![s].at = "post"]
  <2>4. \A t \in Slots : /\ calls[t] = Request(calls[t].op, calls[t].at, calls[t].row, calls[t].saw)
                         /\ calls[t].op = call[t].op /\ calls[t].row = call[t].row
                         /\ calls[t].at = IF t = s THEN "post" ELSE call[t].at
    BY DEF SendSafe, Request, WalletsTypeOK
  <2> HIDE DEF calls
  <2>5. Disturb(calls)
    BY <2>2 DEF calls
  <2>6. \A t \in Slots : SendSafe(t, call[t])'
    BY <2>1, <2>2, <2>3, <2>4, <2>5, Disturbed DEF SendSafe, Posted, WalletsTypeOK, At
  <2>7. WalletsTypeOK'
    BY <2>2, <2>3, <2>4, <2>5, Disturbed DEF WalletsTypeOK
  <2>8. JournalsHaveLegs'
    BY <2>2, <2>3 DEF JournalsHaveLegs, Posted, WalletsTypeOK
  <2> QED
    BY <2>6, <2>7, <2>8
<1>3. ASSUME NEW s \in Slots, PostSend(s) PROVE WalletsInv'
  <2>1. PICK k \in Sends : k = call[s].row
    BY <1>3 DEF PostSend, At, SendSafe
  <2>2. /\ PostJournal(k, Move(Book[SendFrom[k]], BookTo(k), SendMicro[k]))
        /\ Disturb([call EXCEPT ![s].at = "close"])
        /\ At(s, "send", "post") /\ UNCHANGED <<legs, others, build, answers>>
    BY <1>3, <2>1 DEF PostSend
  <2>3. DOMAIN journals' = DOMAIN journals \cup {k}
    BY <2>2 DEF PostJournal, Posted, ledgerVars
  <2> DEFINE calls == [call EXCEPT ![s].at = "close"]
  <2>4. \A t \in Slots : /\ calls[t] = Request(calls[t].op, calls[t].at, calls[t].row, calls[t].saw)
                         /\ calls[t].op = call[t].op /\ calls[t].row = call[t].row
                         /\ calls[t].at = IF t = s THEN "close" ELSE call[t].at
    BY DEF SendSafe, Request, WalletsTypeOK
  <2> HIDE DEF calls
  <2>5. Disturb(calls)
    BY <2>2 DEF calls
  <2>6. legs[k] > 0 \/ others[k] > 0
    BY <2>1, <2>2 DEF At, SendSafe
  <2>7. \A t \in Slots : SendSafe(t, call[t])'
    BY <2>1, <2>2, <2>3, <2>4, <2>5, <2>6, Disturbed DEF SendSafe, Posted, WalletsTypeOK, At
  <2>8. WalletsTypeOK'
    BY <2>2, <2>4, <2>5, Disturbed DEF WalletsTypeOK
  <2>9. JournalsHaveLegs'
    BY <2>2, <2>3, <2>6 DEF JournalsHaveLegs, Posted
  <2> QED
    BY <2>7, <2>8, <2>9
<1>4. ASSUME NEW s \in Slots, CloseSend(s) PROVE WalletsInv'
  <2>1. PICK k \in Sends : k = call[s].row /\ Posted(k)
    BY <1>4 DEF CloseSend, At, SendSafe
  <2>2. /\ \/ build' = [build EXCEPT ![k] = "submitted"] /\ answers' = answers
           \/ answers' = answers \cup {k} /\ build' = build
        /\ call' = [call EXCEPT ![s] = Idle] /\ UNCHANGED <<journals, legs, others, latest>>
    BY <1>4, <2>1 DEF CloseSend, Leave
  <2>3. WalletsTypeOK'
    BY <2>2 DEF WalletsTypeOK
  <2>4. \A t \in Slots : SendSafe(t, call[t])'
    BY <2>2 DEF SendSafe, Idle, Request, Posted, WalletsTypeOK
  <2>5. JournalsHaveLegs'
    BY <2>1, <2>2 DEF JournalsHaveLegs, Posted, WalletsTypeOK
  <2> QED
    BY <2>3, <2>4, <2>5
<1>5. ASSUME NEW s \in Slots, NEW result \in {"ok", "drift", "error"}, Record(s, result) PROVE WalletsInv'
  <2>1. /\ latest'.result = "drift" => latest'.past = {t \in Slots : At(t, "send", "leg")}
        /\ latest' \in [result : {"none", "ok", "drift", "error"}, quiet : BOOLEAN, past : SUBSET Slots]
    BY <1>5 DEF Record
  <2>2. call' = [call EXCEPT ![s] = Idle] /\ UNCHANGED <<journals, legs, others, build, answers>>
    BY <1>5 DEF Record, Leave
  <2>3. WalletsTypeOK'
    BY <2>1, <2>2 DEF WalletsTypeOK
  <2>4. \A t \in Slots : SendSafe(t, call[t])'
    BY <2>1, <2>2 DEF SendSafe, Idle, Request, Posted, WalletsTypeOK, At
  <2> QED
    BY <2>2, <2>3, <2>4, WalletsUnmoved
<1>6. ASSUME NEW s \in Slots, StartScan(s) \/ ReadLedger(s) \/ ReadChain(s) PROVE WalletsInv'
  <2>1. UNCHANGED <<journals, legs, others, build, answers, latest>>
    BY <1>6 DEF StartScan, ReadLedger, ReadChain
  <2>2. /\ call' = [t \in Slots |-> call'[t]]
        /\ \A t \in Slots \ {s} : call'[t] = call[t]
        /\ call'[s] = Request("reconcile", call'[s].at, call'[s].row, call'[s].saw)
    <3>1. CASE StartScan(s)
      BY <3>1 DEF StartScan, Begin, Request, WalletsTypeOK
    <3>2. CASE ReadLedger(s)
      <4>1. call[s].op = "reconcile" /\ call[s] = Request("reconcile", call[s].at, call[s].row, call[s].saw)
        BY <3>2 DEF ReadLedger, At, SendSafe
      <4>2. PICK w : call' = [call EXCEPT ![s].at = "chain", ![s].row = w, ![s].saw.ledger = bal[Book[w]]]
        BY <3>2 DEF ReadLedger
      <4>3. call'[s] = [call[s] EXCEPT !.at = "chain", !.row = w, !.saw.ledger = bal[Book[w]]]
        BY <4>2 DEF WalletsTypeOK
      <4>4. call'[s] = Request("reconcile", "chain", w, call'[s].saw)
        BY <4>1, <4>3 DEF Request
      <4> QED
        BY <4>2, <4>4 DEF Request, WalletsTypeOK
    <3>3. CASE ReadChain(s)
      <4>1. call[s].op = "reconcile" /\ call[s] = Request("reconcile", call[s].at, call[s].row, call[s].saw)
        BY <3>3 DEF ReadChain, At, SendSafe
      <4> QED
        BY <3>3, <4>1 DEF ReadChain, Request, WalletsTypeOK
    <3> QED
      BY <1>6, <3>1, <3>2, <3>3
  <2>3. WalletsTypeOK'
    BY <2>1, <2>2 DEF WalletsTypeOK
  <2>4. call'[s].op = "reconcile"
    BY <2>2 DEF Request
  <2>5. \A t \in Slots : SendSafe(t, call[t])'
    BY <2>1, <2>2, <2>4 DEF SendSafe, Posted
  <2> QED
    BY <2>1, <2>3, <2>5, WalletsUnmoved
<1>7. ASSUME NEW s \in Slots, SendDies(s) PROVE WalletsInv'
  <2>1. call' = [call EXCEPT ![s] = Idle] /\ UNCHANGED <<journals, legs, others, build, answers, latest>>
    BY <1>7 DEF SendDies, Dies, Leave, ledgerVars
  <2>2. WalletsTypeOK'
    BY <2>1 DEF WalletsTypeOK
  <2>3. \A t \in Slots : SendSafe(t, call[t])'
    BY <2>1 DEF SendSafe, Idle, Request, Posted, WalletsTypeOK
  <2> QED
    BY <2>1, <2>2, <2>3, WalletsUnmoved
<1>8. ASSUME NEW k \in Sends, Build(k) \/ Expire(k) PROVE WalletsInv'
  <2>1. PICK status \in {"pending", "expired"} : build' = [build EXCEPT ![k] = status]
    BY <1>8 DEF Build, Expire
  <2>2. UNCHANGED <<journals, legs, others, answers, latest, call>>
    BY <1>8 DEF Build, Expire
  <2>3. WalletsTypeOK'
    BY <2>1, <2>2 DEF WalletsTypeOK
  <2>4. \A t \in Slots : SendSafe(t, call[t])'
    BY <2>2 DEF SendSafe, Posted
  <2>5. \A j \in Sends : build'[j] = "submitted" => build[j] = "submitted"
    BY <2>1 DEF WalletsTypeOK
  <2> QED
    BY <2>2, <2>3, <2>4, <2>5, WalletsUnmoved
<1>9. ASSUME NEW w \in Wallets, DepositOutside(w) PROVE WalletsInv'
  <2>1. Disturb(call) /\ UNCHANGED <<journals, legs, others, build, answers>>
    BY <1>9 DEF DepositOutside
  <2>2. \A t \in Slots : call[t] = Request(call[t].op, call[t].at, call[t].row, call[t].saw)
    BY DEF SendSafe
  <2>3. WalletsTypeOK'
    BY <2>1, <2>2, Disturbed DEF WalletsTypeOK
  <2>4. \A t \in Slots : SendSafe(t, call[t])'
    BY <2>1, <2>2, Disturbed DEF SendSafe, Posted
  <2> QED
    BY <2>1, <2>3, <2>4, WalletsUnmoved
<1>10. CASE UNCHANGED walletVars
  BY <1>10 DEF walletVars, WalletsTypeOK, SendSafe, JournalsHaveLegs, Posted
<1> QED
  BY <1>1, <1>2, <1>3, <1>4, <1>5, <1>6, <1>7, <1>8, <1>9, <1>10
     DEF WalletsNext, RecordRun, RunErrs

THEOREM WalletsInvariant == WalletsSpec => []WalletsInv
BY WalletsInitInv, WalletsStepInv, PTL DEF WalletsSpec

(* However sends, deaths, retries and reconciliation runs overlap, the     *)
(* ledger has no transfer behind which the chain executed nothing: its     *)
(* own, or of a build the bytes that the client submitted in its place     *)
(* (hederaService.ts:357-374, 501-534).                                    *)
THEOREM LedgerBehindChain == WalletsSpec => []JournalsHaveLegs
<1>1. WalletsInv => JournalsHaveLegs
  BY DEF WalletsInv
<1> QED
  BY <1>1, WalletsInvariant, PTL

(* A run that found drift stops every send that was not past the gate      *)
(* (reconciliationService.ts:223-239, hederaService.ts:337, 482).          *)
THEOREM DriftStopsSends == WalletsSpec => []GateStopsSends
<1>1. WalletsInv => GateStopsSends
  BY DEF WalletsInv, SendSafe, GateStopsSends, At
<1> QED
  BY <1>1, WalletsInvariant, PTL

-----------------------------------------------------------------------------
(* Ledger and chain: what each tells of the sends, and what a run has read *)
(* of them.                                                                *)

LegOf(w) == [k \in Sends |-> (IF w = SendTo[k] THEN SendMicro[k] ELSE 0)
                               - (IF w = SendFrom[k] THEN SendMicro[k] ELSE 0)]
Went == {k \in Sends : legs[k] > 0}

BookedOf(a) == [k \in Sends |-> Move(Book[SendFrom[k]], BookTo(k), SendMicro[k])[a]]
Booked == {k \in Sends : Posted(k)}

AsFrozen == \A k \in Sends : ~(others[k] > 0)

ChainTells ==
  ~strayed /\ deposited = {} /\ AsFrozen =>
    \A w \in Wallets : onChain[w] = Opening[Book[w]] + SumFunctionOnSet(LegOf(w), Went)

LedgerTells ==
  \A w \in Wallets : bal[Book[w]] = Opening[Book[w]] + SumFunctionOnSet(BookedOf(Book[w]), Booked)

BetweenBoth(s, k) == At(s, "send", "post") /\ call[s].row = k

LegsBooked ==
  ~strayed => \A k \in Sends : legs[k] > 0 => Posted(k) \/ \E s \in Slots : BetweenBoth(s, k)

(* A run that nothing moved under has compared what there is.              *)
ScanViews == [left : SUBSET Wallets, ledger : Int, drift : BOOLEAN, quiet : BOOLEAN]

Compared(c) ==
  /\ c.saw.drift <=> \E w \in Wallets \ c.saw.left : Differs(w, bal[Book[w]])
  /\ c.at = "chain" => c.saw.ledger = bal[Book[c.row]]

ScanSafe(c) ==
  c.op = "reconcile" =>
    /\ c.saw \in ScanViews
    /\ c.at = "chain" => c.row \in c.saw.left
    /\ c.at = "record" => c.saw.left = {}
    /\ c.saw.quiet => Compared(c)

DriftTypeOK ==
  /\ LedgerTypeOK
  /\ onChain \in [Wallets -> Int]
  /\ strayed \in BOOLEAN

DriftInv ==
  /\ WalletsInv
  /\ DriftTypeOK
  /\ ChainTells
  /\ LedgerTells
  /\ LegsBooked
  /\ \A s \in Slots : ScanSafe(call[s])
  /\ RunTellsDrift

LEMMA WalletFacts ==
  /\ \A k \in Sends : /\ SendMicro[k] \in Nat /\ SendFrom[k] \in Wallets
                      /\ SendTo[k] \in Wallets \cup {None}
                      /\ k \in ByUser => SendTo[k] \in Wallets
                      /\ BookTo(k) \in Accounts /\ Book[SendFrom[k]] \in Accounts
                      /\ Move(Book[SendFrom[k]], BookTo(k), SendMicro[k]) \in Effects
  /\ \A w \in Wallets : Book[w] \in Accounts /\ Opening[Book[w]] \in Int
  /\ IsFiniteSet(Went) /\ IsFiniteSet(Booked) /\ IsFiniteSet(Went') /\ IsFiniteSet(Booked')
<1>1. /\ \A k \in Sends : /\ SendMicro[k] \in Nat /\ SendFrom[k] \in Wallets
                          /\ SendTo[k] \in Wallets \cup {None}
                          /\ k \in ByUser => SendTo[k] \in Wallets
      /\ \A w \in Wallets : Book[w] \in Accounts /\ Opening[Book[w]] \in Int
  BY WalletsAssumption, OpeningAssumption
<1>2. ASSUME NEW k \in Sends
      PROVE  /\ BookTo(k) \in Accounts /\ Book[SendFrom[k]] \in Accounts
             /\ Move(Book[SendFrom[k]], BookTo(k), SendMicro[k]) \in Effects
  <2>1. BookTo(k) \in Accounts /\ Book[SendFrom[k]] \in Accounts
    BY <1>1, WalletsAssumption DEF BookTo
  <2> QED
    BY <1>1, <2>1, MoveType
<1>3. IsFiniteSet(Went) /\ IsFiniteSet(Booked) /\ IsFiniteSet(Went') /\ IsFiniteSet(Booked')
  <2>1. Went \subseteq Sends /\ Booked \subseteq Sends /\ Went' \subseteq Sends /\ Booked' \subseteq Sends
    BY DEF Went, Booked
  <2> QED
    BY <2>1, FS_Subset, WalletsAssumption
<1> QED
  BY <1>1, <1>2, <1>3

(* Where a send names its receiver by user id, or pays outside, the ledger *)
(* books for a wallet what the chain does to it.                           *)
LEMMA BookedAsGone ==
  ASSUME NEW w \in Wallets, NEW k \in Sends, k \in ByUser \/ SendTo[k] = None
  PROVE  BookedOf(Book[w])[k] = LegOf(w)[k]
<1>1. /\ Book[w] \in Accounts
      /\ Book[w] = Book[SendFrom[k]] <=> w = SendFrom[k]
  BY WalletFacts, WalletsAssumption
<1>2. Book[w] = BookTo(k) <=> w = SendTo[k]
  BY WalletFacts, WalletsAssumption DEF BookTo
<1> QED
  BY <1>1, <1>2 DEF BookedOf, LegOf, Move

LEMMA DriftExplained == DriftInv => DriftHasCause
<1> SUFFICES ASSUME DriftInv, ~strayed, deposited = {}, \A s \in Slots : ~At(s, "send", "post"),
                    AsFrozen, \A k \in Sends : ~(legs[k] > 0 /\ k \notin ByUser /\ SendTo[k] # None),
                    NEW w \in Wallets
             PROVE  ~Differs(w, bal[Book[w]])
  BY DEF DriftHasCause, AsFrozen
<1>1. Went = Booked
  BY DEF DriftInv, LegsBooked, BetweenBoth, WalletsInv, JournalsHaveLegs, AsFrozen, Went, Booked
<1>2. \A k \in Went : BookedOf(Book[w])[k] = LegOf(w)[k]
  BY BookedAsGone DEF Went
<1>3. SumFunctionOnSet(BookedOf(Book[w]), Went) = SumFunctionOnSet(LegOf(w), Went)
  BY <1>2, WalletFacts, SumSame
<1>4. onChain[w] = bal[Book[w]]
  BY <1>1, <1>3 DEF DriftInv, ChainTells, LedgerTells
<1>5. onChain[w] \in Int
  BY DEF DriftInv, DriftTypeOK
<1> QED
  BY <1>4, <1>5 DEF Differs

LEMMA DriftInitInv == WalletsInit => DriftInv
<1> SUFFICES ASSUME WalletsInit PROVE DriftInv
  OBVIOUS
<1>1. WalletsInv
  BY WalletsInitInv
<1> USE DEF WalletsInit, ServiceInit, LedgerInit
<1>2. LedgerTypeOK
  BY OpeningAssumption DEF LedgerTypeOK, Effects
<1>3. DriftTypeOK
  BY <1>2, WalletFacts DEF DriftTypeOK
<1>4. Went = {} /\ Booked = {}
  BY DEF Went, Booked, Posted
<1>5. ChainTells /\ LedgerTells
  BY <1>4, SumEmpty, WalletFacts DEF ChainTells, LedgerTells
<1>6. LegsBooked /\ \A s \in Slots : ScanSafe(call[s])
  BY DEF LegsBooked, ScanSafe, Idle, Request
<1>7. RunTellsDrift
  BY DEF RunTellsDrift
<1> QED
  BY <1>1, <1>3, <1>5, <1>6, <1>7 DEF DriftInv

(* A step that moves nothing, on the ledger or on the chain.               *)
LEMMA DriftQuiet ==
  ASSUME DriftInv, WalletsInv', UNCHANGED <<journals, bal, onChain, legs, others, deposited>>,
         strayed' \in BOOLEAN, strayed => strayed',
         \A t \in Slots : ScanSafe(call[t])', RunTellsDrift',
         \A t \in Slots : At(t, "send", "post") =>
           strayed' \/ (At(t, "send", "post")' /\ call'[t].row = call[t].row)
  PROVE  DriftInv'
<1>1. DriftTypeOK'
  BY DEF DriftInv, DriftTypeOK, LedgerTypeOK
<1>2. Went' = Went /\ Booked' = Booked
  BY DEF Went, Booked, Posted
<1>3. ChainTells' /\ LedgerTells'
  BY <1>2 DEF DriftInv, ChainTells, LedgerTells, AsFrozen
<1>4. LegsBooked'
  <2> SUFFICES ASSUME ~strayed', NEW k \in Sends, legs'[k] > 0, ~Posted(k)'
               PROVE  \E s \in Slots : BetweenBoth(s, k)'
    BY DEF LegsBooked
  <2>1. PICK s \in Slots : BetweenBoth(s, k)
    BY DEF DriftInv, LegsBooked, Posted
  <2>2. BetweenBoth(s, k)'
    BY <2>1 DEF BetweenBoth
  <2> QED
    BY <2>2
<1> QED
  BY <1>1, <1>3, <1>4 DEF DriftInv

(* A scan sees what it saw as long as the balances stay.                   *)
LEMMA ScansStay ==
  ASSUME DriftInv, UNCHANGED <<bal, onChain>>, NEW t \in Slots, call'[t] = call[t]
  PROVE  ScanSafe(call[t])'
BY DEF DriftInv, ScanSafe, Compared, Differs

LEMMA RunStays ==
  ASSUME DriftInv, UNCHANGED <<bal, onChain, latest>>
  PROVE  RunTellsDrift'
BY DEF DriftInv, RunTellsDrift, Differs

(* When something moves, no run that reads and none that is recorded says  *)
(* any more what there is.                                                 *)
LEMMA DisturbedScans ==
  ASSUME DriftInv, NEW calls, Disturb(calls),
         \A t \in Slots : calls[t].op = "reconcile" => calls[t] = call[t]
  PROVE  (\A t \in Slots : ScanSafe(call[t])') /\ RunTellsDrift'
<1>1. latest'.quiet = FALSE
  BY DEF Disturb, DriftInv, WalletsInv, WalletsTypeOK
<1>2. ASSUME NEW t \in Slots PROVE ScanSafe(call[t])'
  <2>1. CASE calls[t].op # "reconcile"
    <3>1. call'[t] = calls[t]
      BY <2>1 DEF Disturb
    <3> QED
      BY <2>1, <3>1 DEF ScanSafe
  <2>2. CASE calls[t].op = "reconcile"
    <3>1. call'[t] = [calls[t] EXCEPT !.saw.quiet = FALSE] /\ calls[t] = call[t]
      BY <2>2 DEF Disturb
    <3>2. call[t] = Request(call[t].op, call[t].at, call[t].row, call[t].saw)
      BY DEF DriftInv, WalletsInv, SendSafe
    <3>3. ScanSafe(call[t]) /\ call[t].saw \in ScanViews
      BY <2>2, <3>1 DEF DriftInv, ScanSafe
    <3>4. PICK c, v : c = call[t] /\ v = [c.saw EXCEPT !.quiet = FALSE]
      OBVIOUS
    <3>5. v \in ScanViews /\ v.quiet = FALSE /\ v.left = call[t].saw.left
      BY <3>3, <3>4 DEF ScanViews
    <3>6. call'[t] = Request(call[t].op, call[t].at, call[t].row, v)
      <4>1. c = [op |-> c.op, at |-> c.at, row |-> c.row, saw |-> c.saw]
        BY <3>2, <3>4 DEF Request
      <4>2. [c EXCEPT !.saw = v] = [op |-> c.op, at |-> c.at, row |-> c.row, saw |-> v]
        BY <4>1
      <4>3. call'[t] = [c EXCEPT !.saw = v]
        BY <3>1, <3>4
      <4> QED
        BY <3>4, <4>2, <4>3 DEF Request
    <3>7. call'[t].saw = v /\ call'[t].at = call[t].at /\ call'[t].row = call[t].row
          /\ call'[t].op = call[t].op
      BY <3>6 DEF Request
    <3> QED
      BY <2>2, <3>1, <3>3, <3>5, <3>7 DEF ScanSafe
  <2> QED
    BY <2>1, <2>2
<1> QED
  BY <1>1, <1>2 DEF RunTellsDrift

LEMMA DriftMoves ==
  ASSUME DriftInv, WalletsInv', LedgerTypeOK', onChain' \in [Wallets -> Int], strayed' \in BOOLEAN,
         NEW calls, Disturb(calls),
         \A t \in Slots : calls[t].op = "reconcile" => calls[t] = call[t],
         ChainTells', LedgerTells', LegsBooked'
  PROVE  DriftInv'
BY DisturbedScans DEF DriftInv, DriftTypeOK

(* The record of a run that read the ledger of a wallet, and of one that   *)
(* compared a wallet with the chain.                                       *)
Reads(c, at, w, x) == [c EXCEPT !.at = at, !.row = w, !.saw.ledger = x]

Compares(c, at, w, left, x, drift) ==
  [c EXCEPT !.at = at, !.row = w, !.saw.left = left, !.saw.ledger = x, !.saw.drift = drift]

(* A run that read the ledger keeps the rest of its record.                *)
LEMMA LedgerSeen ==
  ASSUME NEW c, NEW v, c = [op |-> c.op, at |-> c.at, row |-> c.row, saw |-> c.saw],
         NEW at, NEW w, NEW x, v = [c.saw EXCEPT !.ledger = x]
  PROVE  Reads(c, at, w, x)
           = [op |-> c.op, at |-> at, row |-> w, saw |-> v]
<1>1. PICK d : d = [c EXCEPT !.at = at]
  OBVIOUS
<1>2. d = [op |-> c.op, at |-> at, row |-> c.row, saw |-> c.saw]
  BY <1>1
<1>3. PICK e : e = [d EXCEPT !.row = w]
  OBVIOUS
<1>4. e = [op |-> c.op, at |-> at, row |-> w, saw |-> c.saw]
  BY <1>2, <1>3
<1>5. [e EXCEPT !.saw.ledger = x] = [e EXCEPT !.saw = v]
  BY <1>4
<1>6. [e EXCEPT !.saw = v] = [op |-> c.op, at |-> at, row |-> w, saw |-> v]
  BY <1>4
<1>7. [c EXCEPT !.at = at, !.row = w, !.saw.ledger = x] = [e EXCEPT !.saw.ledger = x]
  BY <1>1, <1>3
<1> QED
  BY <1>5, <1>6, <1>7 DEF Reads

(* A run that compared a wallet keeps whether anything moved.              *)
LEMMA ChainSeen ==
  ASSUME NEW c, c = [op |-> c.op, at |-> c.at, row |-> c.row, saw |-> c.saw],
         c.saw = [left |-> c.saw.left, ledger |-> c.saw.ledger, drift |-> c.saw.drift,
                  quiet |-> c.saw.quiet],
         NEW at, NEW w, NEW left, NEW x, NEW drift
  PROVE  Compares(c, at, w, left, x, drift)
           = [op |-> c.op, at |-> at, row |-> w,
              saw |-> [left |-> left, ledger |-> x, drift |-> drift,
                       quiet |-> c.saw.quiet]]
<1>1. PICK d : d = [c EXCEPT !.at = at]
  OBVIOUS
<1>2. d = [op |-> c.op, at |-> at, row |-> c.row, saw |-> c.saw]
  BY <1>1
<1>3. PICK e : e = [d EXCEPT !.row = w]
  OBVIOUS
<1>4. e = [op |-> c.op, at |-> at, row |-> w, saw |-> c.saw]
  BY <1>2, <1>3
<1>5. PICK f : f = [e EXCEPT !.saw.left = left]
  OBVIOUS
<1>6. PICK p : p = [left |-> left, ledger |-> c.saw.ledger, drift |-> c.saw.drift, quiet |-> c.saw.quiet]
  OBVIOUS
<1>7. f = [op |-> c.op, at |-> at, row |-> w, saw |-> p]
  <2>1. [e.saw EXCEPT !.left = left] = p
    BY <1>4, <1>6
  <2>2. f = [e EXCEPT !.saw = [e.saw EXCEPT !.left = left]]
    BY <1>5
  <2> QED
    BY <1>4, <2>1, <2>2
<1>8. PICK g : g = [f EXCEPT !.saw.ledger = x]
  OBVIOUS
<1>9. PICK q : q = [left |-> left, ledger |-> x, drift |-> c.saw.drift, quiet |-> c.saw.quiet]
  OBVIOUS
<1>10. g = [op |-> c.op, at |-> at, row |-> w, saw |-> q]
  <2>1. [f.saw EXCEPT !.ledger = x] = q
    BY <1>6, <1>7, <1>9
  <2>2. g = [f EXCEPT !.saw = [f.saw EXCEPT !.ledger = x]]
    BY <1>8
  <2> QED
    BY <1>7, <2>1, <2>2
<1>11. PICK r : r = [left |-> left, ledger |-> x, drift |-> drift, quiet |-> c.saw.quiet]
  OBVIOUS
<1>12. [g EXCEPT !.saw.drift = drift] = [op |-> c.op, at |-> at, row |-> w, saw |-> r]
  <2>1. [g.saw EXCEPT !.drift = drift] = r
    BY <1>9, <1>10, <1>11
  <2>2. [g EXCEPT !.saw.drift = drift] = [g EXCEPT !.saw = [g.saw EXCEPT !.drift = drift]]
    BY <1>9, <1>10
  <2> QED
    BY <1>10, <2>1, <2>2
<1>13. [c EXCEPT !.at = at, !.row = w, !.saw.left = left, !.saw.ledger = x, !.saw.drift = drift]
         = [g EXCEPT !.saw.drift = drift]
  BY <1>1, <1>3, <1>5, <1>8
<1> QED
  BY <1>11, <1>12, <1>13 DEF Compares

(* What the calls are after a leg or a journal of s.                       *)
LEMMA SendGoes ==
  ASSUME DriftInv, NEW s \in Slots, NEW at, call[s].op = "send",
         Disturb([call EXCEPT ![s].at = at])
  PROVE  /\ \A t \in Slots : [call EXCEPT ![s].at = at][t].op = "reconcile" =>
                               [call EXCEPT ![s].at = at][t] = call[t]
         /\ \A t \in Slots : /\ call'[t].op = call[t].op /\ call'[t].row = call[t].row
                             /\ call'[t].at = IF t = s THEN at ELSE call[t].at
<1> DEFINE calls == [call EXCEPT ![s].at = at]
<1>1. \A t \in Slots : /\ calls[t] = Request(calls[t].op, calls[t].at, calls[t].row, calls[t].saw)
                       /\ calls[t].op = call[t].op /\ calls[t].row = call[t].row
                       /\ calls[t].at = IF t = s THEN at ELSE call[t].at
                       /\ t # s => calls[t] = call[t]
  BY DEF DriftInv, WalletsInv, SendSafe, Request, WalletsTypeOK
<1> HIDE DEF calls
<1>2. Disturb(calls)
  BY DEF calls
<1>3. \A t \in Slots : call'[t].op = calls[t].op /\ call'[t].at = calls[t].at /\ call'[t].row = calls[t].row
  BY <1>1, <1>2, Disturbed DEF DriftInv, WalletsInv
<1>4. /\ \A t \in Slots : calls[t].op = "reconcile" => calls[t] = call[t]
      /\ \A t \in Slots : /\ call'[t].op = call[t].op /\ call'[t].row = call[t].row
                          /\ call'[t].at = IF t = s THEN at ELSE call[t].at
  BY <1>1, <1>3
<1> QED
  BY <1>4 DEF calls

(* A leg: the chain has it once, and its request is between both.          *)
LEMMA LegInv ==
  ASSUME DriftInv, WalletsInv', NEW s \in Slots, OnChainTransfer(s)
  PROVE  DriftInv'
<1>1. PICK k \in Sends : k = call[s].row
  BY DEF OnChainTransfer, At, DriftInv, WalletsInv, SendSafe
<1>2. /\ call[s].op = "send" /\ legs' = [legs EXCEPT ![k] = @ + 1] /\ strayed' = (strayed \/ legs[k] > 0)
      /\ Disturb([call EXCEPT ![s].at = "post"]) /\ UNCHANGED <<journals, bal, others, deposited>>
      /\ onChain' = [w \in Wallets |->
                       onChain[w] + (IF w = SendTo[k] THEN SendMicro[k] ELSE 0)
                                  - (IF w = SendFrom[k] THEN SendMicro[k] ELSE 0)]
  BY <1>1 DEF OnChainTransfer, Transfer, OnTheWay, At
<1>3. /\ \A t \in Slots : [call EXCEPT ![s].at = "post"][t].op = "reconcile" =>
                            [call EXCEPT ![s].at = "post"][t] = call[t]
      /\ \A t \in Slots : /\ call'[t].op = call[t].op /\ call'[t].row = call[t].row
                          /\ call'[t].at = IF t = s THEN "post" ELSE call[t].at
  BY <1>2, SendGoes
<1>4. /\ LedgerTypeOK' /\ strayed' \in BOOLEAN /\ legs \in [Sends -> Nat]
      /\ onChain \in [Wallets -> Int]
  BY <1>2 DEF DriftInv, DriftTypeOK, LedgerTypeOK, WalletsInv, WalletsTypeOK
<1>5. /\ onChain' \in [Wallets -> Int]
      /\ \A w \in Wallets : onChain'[w] = onChain[w] + LegOf(w)[k] /\ LegOf(w)[k] \in Int
  BY <1>2, <1>4, WalletFacts DEF LegOf
<1>6. LedgerTells'
  <2>1. Booked' = Booked
    BY <1>2 DEF Booked, Posted
  <2> QED
    BY <1>2, <2>1 DEF DriftInv, LedgerTells
<1>7. ChainTells'
  <2> SUFFICES ASSUME ~strayed', deposited' = {}, AsFrozen', NEW w \in Wallets
               PROVE  onChain'[w] = Opening[Book[w]] + SumFunctionOnSet(LegOf(w), Went')
    BY DEF ChainTells
  <2>a. AsFrozen
    BY <1>2 DEF AsFrozen
  <2>1. ~strayed /\ deposited = {} /\ legs[k] = 0
    <3>1. ~strayed /\ ~(legs[k] > 0) /\ deposited = {}
      BY <1>2, Zenon
    <3>2. legs[k] \in Nat
      BY <1>4
    <3> QED
      BY <3>1, <3>2
  <2>2. Went' = Went \cup {k} /\ k \notin Went
    BY <1>2, <1>4, <2>1 DEF Went
  <2>3. \A x \in Went \cup {k} : LegOf(w)[x] \in Int
    BY WalletFacts DEF LegOf, Went
  <2>4. SumFunctionOnSet(LegOf(w), Went') = SumFunctionOnSet(LegOf(w), Went) + LegOf(w)[k]
    BY <2>2, <2>3, WalletFacts, SumAdd
  <2>5. onChain[w] = Opening[Book[w]] + SumFunctionOnSet(LegOf(w), Went)
    BY <2>1, <2>a DEF DriftInv, ChainTells
  <2>6. SumFunctionOnSet(LegOf(w), Went) \in Int /\ Opening[Book[w]] \in Int
    BY <2>3, WalletFacts, SumType
  <2>7. onChain'[w] = onChain[w] + LegOf(w)[k] /\ LegOf(w)[k] \in Int
    BY <1>5
  <2> QED
    BY <2>4, <2>5, <2>6, <2>7
<1>8. LegsBooked'
  <2> SUFFICES ASSUME ~strayed', NEW j \in Sends, legs'[j] > 0, ~Posted(j)'
               PROVE  \E t \in Slots : BetweenBoth(t, j)'
    BY DEF LegsBooked
  <2>1. CASE j = k
    <3>1. BetweenBoth(s, j)'
      BY <1>1, <1>2, <1>3, <2>1 DEF BetweenBoth, At
    <3> QED
      BY <3>1
  <2>2. CASE j # k
    <3>1. legs[j] > 0 /\ ~Posted(j) /\ ~strayed
      BY <1>2, <1>4, <2>2 DEF Posted
    <3>2. PICK t \in Slots : BetweenBoth(t, j)
      BY <3>1 DEF DriftInv, LegsBooked
    <3>3. BetweenBoth(t, j)'
      BY <1>1, <1>3, <2>2, <3>2 DEF BetweenBoth, At
    <3> QED
      BY <3>3
  <2> QED
    BY <2>1, <2>2
<1> QED
  BY <1>2, <1>3, <1>4, <1>5, <1>6, <1>7, <1>8, DriftMoves

(* Other bytes than the frozen ones: what the chain did is no longer told. *)
LEMMA OtherInv ==
  ASSUME DriftInv, WalletsInv', NEW s \in Slots, SubmitOther(s)
  PROVE  DriftInv'
<1>1. PICK k \in Sends : k = call[s].row
  BY DEF SubmitOther, At, DriftInv, WalletsInv, SendSafe
<1>2. /\ call[s].op = "send" /\ call[s].at = "leg" /\ others' = [others EXCEPT ![k] = @ + 1]
      /\ Disturb([call EXCEPT ![s].at = "post"])
      /\ UNCHANGED <<journals, bal, legs, strayed, deposited>>
  BY <1>1 DEF SubmitOther, OnTheWay, At
<1>3. PICK t \in OtherTransfers : Transfer(SendFrom[k], t.to, t.amount)
  BY <1>1 DEF SubmitOther
<1>4. /\ \A u \in Slots : [call EXCEPT ![s].at = "post"][u].op = "reconcile" =>
                            [call EXCEPT ![s].at = "post"][u] = call[u]
      /\ \A u \in Slots : /\ call'[u].op = call[u].op /\ call'[u].row = call[u].row
                          /\ call'[u].at = IF u = s THEN "post" ELSE call[u].at
  BY <1>2, SendGoes
<1>5. LedgerTypeOK' /\ strayed' \in BOOLEAN /\ onChain \in [Wallets -> Int]
  BY <1>2 DEF DriftInv, DriftTypeOK, LedgerTypeOK
<1>6. onChain' \in [Wallets -> Int]
  <2>1. t.amount \in Nat
    BY WalletsAssumption
  <2> QED
    BY <1>3, <1>5, <2>1 DEF Transfer
<1>7. ChainTells'
  <2>1. others'[k] > 0
    BY <1>2 DEF DriftInv, WalletsInv, WalletsTypeOK
  <2> QED
    BY <2>1 DEF ChainTells, AsFrozen
<1>8. LedgerTells'
  <2>1. Booked' = Booked
    BY <1>2 DEF Booked, Posted
  <2> QED
    BY <1>2, <2>1 DEF DriftInv, LedgerTells
<1>9. LegsBooked'
  <2> SUFFICES ASSUME ~strayed', NEW j \in Sends, legs'[j] > 0, ~Posted(j)'
               PROVE  \E u \in Slots : BetweenBoth(u, j)'
    BY DEF LegsBooked
  <2>1. PICK u \in Slots : BetweenBoth(u, j)
    BY <1>2 DEF DriftInv, LegsBooked, Posted
  <2>2. BetweenBoth(u, j)'
    BY <1>2, <1>4, <2>1 DEF BetweenBoth, At
  <2> QED
    BY <2>2
<1> QED
  BY <1>2, <1>4, <1>5, <1>6, <1>7, <1>8, <1>9, DriftMoves

(* The journal of a leg: the ledger has it once.                           *)
LEMMA PostSendInv ==
  ASSUME DriftInv, WalletsInv', NEW s \in Slots, PostSend(s)
  PROVE  DriftInv'
<1>1. PICK k \in Sends : k = call[s].row
  BY DEF PostSend, At, DriftInv, WalletsInv, SendSafe
<1>2. PICK d : d = Move(Book[SendFrom[k]], BookTo(k), SendMicro[k])
  OBVIOUS
<1>3. /\ call[s].op = "send" /\ PostJournal(k, d)
      /\ Disturb([call EXCEPT ![s].at = "close"]) /\ UNCHANGED <<onChain, legs, others, strayed, deposited>>
  BY <1>1, <1>2 DEF PostSend, At
<1>4. /\ \A t \in Slots : [call EXCEPT ![s].at = "close"][t].op = "reconcile" =>
                            [call EXCEPT ![s].at = "close"][t] = call[t]
      /\ \A t \in Slots : /\ call'[t].op = call[t].op /\ call'[t].row = call[t].row
                          /\ call'[t].at = IF t = s THEN "close" ELSE call[t].at
  BY <1>3, SendGoes
<1>5. d \in Effects
  BY <1>2, WalletFacts
<1>6. /\ LedgerTypeOK' /\ DOMAIN journals' = DOMAIN journals \cup {k}
      /\ strayed' \in BOOLEAN /\ onChain' \in [Wallets -> Int]
  BY <1>3, <1>5, PostAny DEF DriftInv, DriftTypeOK
<1>7. ChainTells'
  BY <1>3 DEF DriftInv, ChainTells, AsFrozen, Went
<1>8. ASSUME NEW w \in Wallets
      PROVE  bal'[Book[w]] = Opening[Book[w]] + SumFunctionOnSet(BookedOf(Book[w]), Booked')
  <2>1. bal[Book[w]] = Opening[Book[w]] + SumFunctionOnSet(BookedOf(Book[w]), Booked)
    BY DEF DriftInv, LedgerTells
  <2>2. CASE Posted(k)
    <3>1. bal' = bal /\ Booked' = Booked
      BY <1>3, <2>2 DEF PostJournal, ledgerVars, Booked, Posted
    <3> QED
      BY <2>1, <3>1
  <2>3. CASE ~Posted(k)
    <3>1. Booked' = Booked \cup {k} /\ k \notin Booked
      BY <1>6, <2>3 DEF Booked, Posted
    <3>2. \A x \in Booked \cup {k} : BookedOf(Book[w])[x] \in Int
      BY WalletFacts DEF BookedOf, Booked, Effects
    <3>3. SumFunctionOnSet(BookedOf(Book[w]), Booked')
            = SumFunctionOnSet(BookedOf(Book[w]), Booked) + BookedOf(Book[w])[k]
      BY <3>1, <3>2, WalletFacts, SumAdd
    <3>4. bal'[Book[w]] = bal[Book[w]] + d[Book[w]]
      <4>1. \A a \in Accounts : bal'[a] = bal[a] + d[a]
        BY <1>3, <1>5, <2>3, PostFresh DEF DriftInv, DriftTypeOK
      <4> QED
        BY <4>1, WalletFacts
    <3>5. BookedOf(Book[w])[k] = d[Book[w]]
      BY <1>2 DEF BookedOf
    <3>6. SumFunctionOnSet(BookedOf(Book[w]), Booked) \in Int /\ Opening[Book[w]] \in Int
          /\ BookedOf(Book[w])[k] \in Int
      BY <3>2, WalletFacts, SumType
    <3> QED
      BY <2>1, <3>3, <3>4, <3>5, <3>6
  <2> QED
    BY <2>2, <2>3
<1>9. LedgerTells'
  BY <1>8 DEF LedgerTells, BookedOf, BookTo
<1>10. LegsBooked'
  <2> SUFFICES ASSUME ~strayed', NEW j \in Sends, legs'[j] > 0, ~Posted(j)'
               PROVE  \E t \in Slots : BetweenBoth(t, j)'
    BY DEF LegsBooked
  <2>1. j # k /\ ~Posted(j) /\ legs[j] > 0 /\ ~strayed
    BY <1>3, <1>6 DEF Posted
  <2>2. PICK t \in Slots : BetweenBoth(t, j)
    BY <2>1 DEF DriftInv, LegsBooked
  <2>3. BetweenBoth(t, j)'
    BY <1>1, <1>4, <2>1, <2>2 DEF BetweenBoth, At
  <2> QED
    BY <2>3
<1> QED
  BY <1>3, <1>4, <1>6, <1>7, <1>9, <1>10, DriftMoves

LEMMA DepositInv ==
  ASSUME DriftInv, WalletsInv', NEW w \in Wallets, DepositOutside(w)
  PROVE  DriftInv'
<1>1. /\ Disturb(call) /\ UNCHANGED <<journals, bal, legs, others, strayed>>
      /\ deposited' # {} /\ onChain' = [onChain EXCEPT ![w] = @ + 1]
  BY DEF DepositOutside
<1>2. LedgerTypeOK' /\ strayed' \in BOOLEAN /\ onChain' \in [Wallets -> Int]
  BY <1>1 DEF DriftInv, DriftTypeOK, LedgerTypeOK
<1>3. \A t \in Slots : call[t] = Request(call[t].op, call[t].at, call[t].row, call[t].saw)
  BY DEF DriftInv, WalletsInv, SendSafe
<1>4. \A t \in Slots : call'[t].op = call[t].op /\ call'[t].at = call[t].at /\ call'[t].row = call[t].row
  BY <1>1, <1>3, Disturbed DEF DriftInv, WalletsInv
<1>5. ChainTells'
  BY <1>1 DEF ChainTells
<1>6. LedgerTells'
  <2>1. Booked' = Booked
    BY <1>1 DEF Booked, Posted
  <2> QED
    BY <1>1, <2>1 DEF DriftInv, LedgerTells
<1>7. LegsBooked'
  BY <1>1, <1>4 DEF DriftInv, LegsBooked, BetweenBoth, At, Posted
<1> QED
  BY <1>1, <1>2, <1>5, <1>6, <1>7, DriftMoves

(* A run reads on.                                                         *)
LEMMA ScanInv ==
  ASSUME DriftInv, WalletsInv', NEW s \in Slots, StartScan(s) \/ ReadLedger(s) \/ ReadChain(s)
  PROVE  DriftInv'
<1>1. UNCHANGED <<journals, bal, onChain, legs, others, build, answers, latest, strayed, deposited>>
  BY DEF StartScan, ReadLedger, ReadChain
<1>2. PICK c : c = call[s] /\ c = Request(c.op, c.at, c.row, c.saw)
  BY DEF DriftInv, WalletsInv, SendSafe
<1>3. /\ \A t \in Slots \ {s} : call'[t] = call[t]
      /\ ScanSafe(call[s])' /\ ~At(s, "send", "post")
  <2>1. CASE StartScan(s)
    <3>1. call' = [call EXCEPT ![s] = Request("reconcile", "ledger", None,
                     [left |-> Wallets, ledger |-> 0, drift |-> FALSE, quiet |-> TRUE])]
          /\ call[s] = Idle
      BY <2>1 DEF StartScan, Begin
    <3>2. call'[s] = Request("reconcile", "ledger", None,
                     [left |-> Wallets, ledger |-> 0, drift |-> FALSE, quiet |-> TRUE])
          /\ \A t \in Slots \ {s} : call'[t] = call[t]
      BY <3>1 DEF DriftInv, WalletsInv, WalletsTypeOK
    <3>3. ScanSafe(call[s])'
      BY <3>2 DEF ScanSafe, Request, ScanViews, Compared
    <3>4. ~At(s, "send", "post")
      BY <3>1 DEF At, Idle, Request
    <3> QED
      BY <3>2, <3>3, <3>4
  <2>2. CASE ReadLedger(s)
    <3>1. PICK w \in c.saw.left :
            call' = [call EXCEPT ![s].at = "chain", ![s].row = w, ![s].saw.ledger = bal[Book[w]]]
      BY <1>2, <2>2 DEF ReadLedger
    <3>2. c.op = "reconcile" /\ c.at = "ledger"
      BY <1>2, <2>2 DEF ReadLedger, At
    <3>3. ScanSafe(c) /\ c.saw \in ScanViews
      BY <1>2, <3>2 DEF DriftInv, ScanSafe
    <3>4. PICK v : v = [c.saw EXCEPT !.ledger = bal[Book[w]]]
      OBVIOUS
    <3>5. bal[Book[w]] \in Int
      <4>1. w \in Wallets
        BY <3>3 DEF ScanViews
      <4> QED
        BY <4>1, WalletFacts DEF DriftInv, DriftTypeOK, LedgerTypeOK, Effects
    <3>6. /\ v \in ScanViews /\ v.ledger = bal[Book[w]] /\ v.left = c.saw.left /\ v.drift = c.saw.drift
          /\ v.quiet = c.saw.quiet
      BY <3>3, <3>4, <3>5 DEF ScanViews
    <3>7. call'[s] = Request("reconcile", "chain", w, v) /\ \A t \in Slots \ {s} : call'[t] = call[t]
      <4>1. /\ call'[s] = [c EXCEPT !.at = "chain", !.row = w, !.saw.ledger = bal[Book[w]]]
            /\ \A t \in Slots \ {s} : call'[t] = call[t]
        BY <1>2, <3>1 DEF DriftInv, WalletsInv, WalletsTypeOK
      <4>2. c = [op |-> "reconcile", at |-> c.at, row |-> c.row, saw |-> c.saw]
        BY <1>2, <3>2 DEF Request
      <4>3. c = [op |-> c.op, at |-> c.at, row |-> c.row, saw |-> c.saw]
        BY <3>2, <4>2
      <4>4. [c EXCEPT !.at = "chain", !.row = w, !.saw.ledger = bal[Book[w]]]
              = [op |-> c.op, at |-> "chain", row |-> w, saw |-> v]
        <5>1. PICK at, x : at = "chain" /\ x = bal[Book[w]]
          OBVIOUS
        <5>2. v = [c.saw EXCEPT !.ledger = x]
          BY <3>4, <5>1
        <5>3. Reads(c, at, w, x) = [op |-> c.op, at |-> at, row |-> w, saw |-> v]
          BY <4>3, <5>2, LedgerSeen
        <5> QED
          BY <5>1, <5>3 DEF Reads
      <4> QED
        BY <3>2, <4>1, <4>4, Zenon DEF Request
    <3>8. ScanSafe(call[s])'
      <4>1. /\ call'[s].op = "reconcile" /\ call'[s].at = "chain"
            /\ call'[s].row = w /\ call'[s].saw = v /\ w \in v.left
        <5>1. w \in v.left
          BY <3>6, Zenon
        <5> QED
          BY <3>7, <5>1 DEF Request
      <4>2. ASSUME v.quiet
            PROVE  v.drift <=> \E x \in Wallets \ v.left : Differs(x, bal[Book[x]])
        BY <3>2, <3>3, <3>6, <4>2 DEF ScanSafe, Compared
      <4>3. v.quiet => (v.drift <=> \E x \in Wallets \ v.left : Differs(x, bal[Book[x]])')
        BY <1>1, <4>2 DEF Differs
      <4>4. bal'[Book[w]] = bal[Book[w]]
        BY <1>1
      <4> QED
        BY <3>6, <4>1, <4>3, <4>4 DEF ScanSafe, Compared
    <3>9. ~At(s, "send", "post")
      BY <1>2, <3>2 DEF At
    <3> QED
      BY <3>7, <3>8, <3>9
  <2>3. CASE ReadChain(s)
    <3>1. PICK w, left : w = c.row /\ left = c.saw.left \ {w}
      OBVIOUS
    <3>2. /\ c.op = "reconcile" /\ c.at = "chain"
          /\ call' = [call EXCEPT ![s].at = IF left = {} THEN "record" ELSE "ledger",
                                  ![s].row = None,
                                  ![s].saw.left = left,
                                  ![s].saw.ledger = 0,
                                  ![s].saw.drift = @ \/ Differs(w, c.saw.ledger)]
      BY <1>2, <2>3, <3>1 DEF ReadChain, At
    <3>3. ScanSafe(c) /\ c.saw \in ScanViews /\ w \in c.saw.left /\ w \in Wallets
      BY <1>2, <3>1, <3>2 DEF DriftInv, ScanSafe, ScanViews
    <3>4. PICK drift \in BOOLEAN : drift = (c.saw.drift \/ Differs(w, c.saw.ledger))
      OBVIOUS
    <3>5. PICK v : v = [left |-> left, ledger |-> 0, drift |-> drift, quiet |-> c.saw.quiet]
      OBVIOUS
    <3>6. v \in ScanViews /\ v.left = left /\ v.drift = drift /\ v.quiet = c.saw.quiet
      BY <3>1, <3>3, <3>5 DEF ScanViews
    <3>7. call'[s] = Request("reconcile", IF left = {} THEN "record" ELSE "ledger", None, v)
          /\ \A t \in Slots \ {s} : call'[t] = call[t]
      <4>1. /\ call'[s] = [c EXCEPT !.at = IF left = {} THEN "record" ELSE "ledger", !.row = None,
                                    !.saw.left = left, !.saw.ledger = 0,
                                    !.saw.drift = @ \/ Differs(w, c.saw.ledger)]
            /\ \A t \in Slots \ {s} : call'[t] = call[t]
        BY <1>2, <3>2 DEF DriftInv, WalletsInv, WalletsTypeOK
      <4>2. c = [op |-> "reconcile", at |-> c.at, row |-> c.row, saw |-> c.saw]
        BY <1>2, <3>2 DEF Request
      <4>3. c.saw = [left |-> c.saw.left, ledger |-> c.saw.ledger, drift |-> c.saw.drift,
                     quiet |-> c.saw.quiet]
        BY <3>3 DEF ScanViews
      <4>4. PICK at : at = IF left = {} THEN "record" ELSE "ledger"
        OBVIOUS
      <4>5. c = [op |-> c.op, at |-> c.at, row |-> c.row, saw |-> c.saw]
        BY <3>2, <4>2
      <4>6. [c EXCEPT !.at = at, !.row = None, !.saw.left = left, !.saw.ledger = 0, !.saw.drift = drift]
              = [op |-> c.op, at |-> at, row |-> None,
                 saw |-> [left |-> left, ledger |-> 0, drift |-> drift, quiet |-> c.saw.quiet]]
        <5>1. PICK row, x : row = None /\ x = 0
          OBVIOUS
        <5>2. Compares(c, at, row, left, x, drift)
                = [op |-> c.op, at |-> at, row |-> row,
                   saw |-> [left |-> left, ledger |-> x, drift |-> drift, quiet |-> c.saw.quiet]]
          BY <4>3, <4>5, ChainSeen
        <5> QED
          BY <5>1, <5>2 DEF Compares
      <4>7. call'[s] = [op |-> c.op, at |-> at, row |-> None, saw |-> v]
        BY <3>4, <3>5, <4>1, <4>4, <4>6, Zenon
      <4> QED
        BY <3>2, <4>1, <4>4, <4>7, Zenon DEF Request
    <3>8. ScanSafe(call[s])'
      <4>1. call'[s].op = "reconcile" /\ call'[s].at = (IF left = {} THEN "record" ELSE "ledger")
            /\ call'[s].row = None /\ call'[s].saw = v
        BY <3>7 DEF Request
      <4>2. ASSUME v.quiet
            PROVE  drift <=> \E x \in Wallets \ left : Differs(x, bal[Book[x]])
        <5>1. c.saw.ledger = bal[Book[w]]
              /\ (c.saw.drift <=> \E x \in Wallets \ c.saw.left : Differs(x, bal[Book[x]]))
          BY <3>1, <3>2, <3>3, <3>6, <4>2 DEF ScanSafe, Compared
        <5>2. Wallets \ left = (Wallets \ c.saw.left) \cup {w}
          BY <3>1, <3>3
        <5> QED
          BY <3>4, <5>1, <5>2
      <4>3. v.quiet => (drift <=> \E x \in Wallets \ left : Differs(x, bal[Book[x]])')
        BY <1>1, <4>2 DEF Differs
      <4> QED
        BY <3>6, <4>1, <4>3 DEF ScanSafe, Compared
    <3>9. ~At(s, "send", "post")
      BY <1>2, <3>2 DEF At
    <3> QED
      BY <3>7, <3>8, <3>9
  <2> QED
    BY <2>1, <2>2, <2>3
<1>4. \A t \in Slots : ScanSafe(call[t])'
  BY <1>1, <1>3, ScansStay
<1>5. \A t \in Slots : At(t, "send", "post") => At(t, "send", "post")' /\ call'[t].row = call[t].row
  BY <1>3 DEF At
<1> QED
  BY <1>1, <1>4, <1>5, RunStays, DriftQuiet DEF DriftInv, DriftTypeOK

(* A run is recorded; requests begin and end.                              *)
LEMMA RecordInv ==
  ASSUME DriftInv, WalletsInv', NEW s \in Slots, RecordRun(s) \/ RunErrs(s)
  PROVE  DriftInv'
<1>1. PICK result \in {"ok", "drift", "error"} :
        /\ Record(s, result) /\ call[s].op = "reconcile"
        /\ result # "error" => /\ call[s].at = "record"
                               /\ result = "drift" <=> call[s].saw.drift
  BY DEF RecordRun, RunErrs, At
<1>2. /\ latest'.result = result /\ (latest'.quiet <=> result # "error" /\ call[s].saw.quiet)
      /\ call' = [call EXCEPT ![s] = Idle]
      /\ UNCHANGED <<journals, bal, onChain, legs, others, build, answers, strayed, deposited>>
  BY <1>1 DEF Record, Leave
<1>3. call'[s] = Idle /\ \A t \in Slots \ {s} : call'[t] = call[t]
  BY <1>2 DEF DriftInv, WalletsInv, WalletsTypeOK
<1>4. ScanSafe(call[s])'
  BY <1>3 DEF ScanSafe, Idle, Request
<1>5. \A t \in Slots : ScanSafe(call[t])'
  BY <1>2, <1>3, <1>4, ScansStay
<1>6. RunTellsDrift'
  <2> SUFFICES ASSUME latest'.quiet
               PROVE  /\ latest'.result = "drift" => \E w \in Wallets : Differs(w, bal[Book[w]])'
                      /\ latest'.result = "ok" => \A w \in Wallets : ~Differs(w, bal[Book[w]])'
    BY DEF RunTellsDrift
  <2>1. ScanSafe(call[s]) /\ call[s].saw.quiet /\ call[s].at = "record"
    BY <1>1, <1>2 DEF DriftInv
  <2>2. call[s].saw.left = {} /\ (call[s].saw.drift <=> \E w \in Wallets : Differs(w, bal[Book[w]]))
    BY <1>1, <2>1 DEF ScanSafe, Compared
  <2> QED
    BY <1>1, <1>2, <2>2 DEF Differs
<1>7. \A t \in Slots : At(t, "send", "post") => At(t, "send", "post")' /\ call'[t].row = call[t].row
  BY <1>1, <1>3 DEF At
<1> QED
  BY <1>2, <1>5, <1>6, <1>7, DriftQuiet DEF DriftInv, DriftTypeOK

LEMMA SendTurnInv ==
  ASSUME DriftInv, WalletsInv', NEW s \in Slots,
         (\E k \in Sends : SendCall(s, k)) \/ CloseSend(s) \/ SendDies(s)
  PROVE  DriftInv'
<1>1. /\ UNCHANGED <<journals, bal, onChain, legs, others, latest, deposited>>
      /\ strayed' \in BOOLEAN /\ (strayed => strayed') /\ (At(s, "send", "post") => strayed')
      /\ \/ call' = [call EXCEPT ![s] = Idle]
         \/ \E k \in Sends : call' = [call EXCEPT ![s] = Request("send", "leg", k, None)]
  <2>1. ASSUME NEW k \in Sends, SendCall(s, k)
        PROVE  /\ call' = [call EXCEPT ![s] = Request("send", "leg", k, None)] /\ call[s] = Idle
               /\ UNCHANGED <<journals, bal, onChain, legs, others, latest, strayed, deposited>>
    BY <2>1 DEF SendCall, Begin
  <2>2. CASE CloseSend(s)
    BY <2>2 DEF CloseSend, Leave, At, DriftInv, DriftTypeOK
  <2>3. CASE SendDies(s)
    BY <2>3 DEF SendDies, Dies, Leave, ledgerVars, DriftInv, DriftTypeOK
  <2> QED
    BY <2>1, <2>2, <2>3 DEF At, Idle, Request, DriftInv, DriftTypeOK
<1>2. (\A t \in Slots \ {s} : call'[t] = call[t]) /\ call'[s].op # "reconcile"
  BY <1>1 DEF DriftInv, WalletsInv, WalletsTypeOK, Idle, Request
<1>3. ScanSafe(call[s])'
  BY <1>2 DEF ScanSafe
<1>4. \A t \in Slots : ScanSafe(call[t])'
  BY <1>1, <1>2, <1>3, ScansStay
<1>5. \A t \in Slots : At(t, "send", "post") =>
        strayed' \/ (At(t, "send", "post")' /\ call'[t].row = call[t].row)
  BY <1>1, <1>2 DEF At
<1> QED
  BY <1>1, <1>4, <1>5, RunStays, DriftQuiet

LEMMA DriftStepInv == DriftInv /\ [WalletsNext]_walletVars => DriftInv'
<1> SUFFICES ASSUME DriftInv, [WalletsNext]_walletVars PROVE DriftInv'
  OBVIOUS
<1>1. WalletsInv'
  BY WalletsStepInv DEF DriftInv
<1>2. CASE UNCHANGED walletVars \/ \E k \in Sends : Build(k) \/ Expire(k)
  <2>1. UNCHANGED <<journals, bal, call, onChain, legs, others, latest, strayed, deposited>>
    BY <1>2 DEF walletVars, Build, Expire
  <2>2. \A t \in Slots : ScanSafe(call[t])'
    BY <2>1, ScansStay
  <2> QED
    BY <1>1, <2>1, <2>2, RunStays, DriftQuiet DEF At, DriftInv, DriftTypeOK
<1>3. ASSUME NEW s \in Slots,
             \/ \E k \in Sends : SendCall(s, k)
             \/ OnChainTransfer(s) \/ SubmitOther(s) \/ PostSend(s) \/ CloseSend(s)
             \/ StartScan(s) \/ ReadLedger(s) \/ ReadChain(s) \/ RecordRun(s) \/ RunErrs(s)
             \/ SendDies(s)
      PROVE  DriftInv'
  BY <1>1, <1>3, LegInv, OtherInv, PostSendInv, ScanInv, RecordInv, SendTurnInv
<1>4. ASSUME NEW w \in Wallets, DepositOutside(w) PROVE DriftInv'
  BY <1>1, <1>4, DepositInv
<1> QED
  BY <1>2, <1>3, <1>4 DEF WalletsNext

LEMMA DriftInvTells == DriftInv => JournalsHaveLegs /\ DriftHasCause /\ RunTellsDrift /\ GateStopsSends
BY DriftExplained DEF DriftInv, WalletsInv, SendSafe, GateStopsSends, At

-----------------------------------------------------------------------------
(* DbPool: nothing but audited transactions that wait for each other stops *)
(* the pool.                                                               *)

(* Who waits for a second connection is going to be audited.               *)
OnlyAuditedWait == \A t \in Txs : tx[t] = "audit" => t \in Audited

PoolInv == DbPoolTypeOK /\ PoolAccounted /\ OnlyAuditedWait

(* A set of transactions is finite, and its size a number.                 *)
LEMMA TxsFinite ==
  ASSUME NEW T, T \subseteq Txs
  PROVE  IsFiniteSet(T) /\ Cardinality(T) \in Nat
BY DbPoolAssumption, FS_Subset, FS_CardinalityType

LEMMA DbPoolInitInv == DbPoolInit => PoolInv
<1> SUFFICES ASSUME DbPoolInit PROVE PoolInv
  OBVIOUS
<1> USE DbPoolAssumption DEF DbPoolInit
<1>1. DbPoolTypeOK /\ OnlyAuditedWait
  BY DEF DbPoolTypeOK, TxStates, OnlyAuditedWait
<1>2. Holders = {}
  BY DEF Holders
<1>3. PoolAccounted
  BY <1>2, FS_EmptySet DEF PoolAccounted
<1> QED
  BY <1>1, <1>3 DEF PoolInv

(* The count of connections follows one transaction that takes or gives.   *)
LEMMA TakesConnection ==
  ASSUME PoolInv, NEW t \in Txs, t \notin Holders, free > 0, free' = free - 1,
         Holders' = Holders \cup {t}
  PROVE  free' \in 0..PoolSize /\ PoolAccounted'
<1>1. IsFiniteSet(Holders) /\ Cardinality(Holders) \in Nat
  BY TxsFinite DEF Holders
<1>2. Cardinality(Holders \cup {t}) = Cardinality(Holders) + 1
  BY <1>1, FS_AddElement
<1> QED
  BY <1>1, <1>2, DbPoolAssumption DEF PoolInv, DbPoolTypeOK, PoolAccounted

LEMMA GivesConnection ==
  ASSUME PoolInv, NEW t \in Holders, free' = free + 1, Holders' = Holders \ {t}
  PROVE  free' \in 0..PoolSize /\ PoolAccounted'
<1>1. IsFiniteSet(Holders) /\ Cardinality(Holders) \in Nat
  BY TxsFinite DEF Holders
<1>2. IsFiniteSet(Holders \ {t}) /\ Cardinality(Holders \ {t}) = Cardinality(Holders) - 1
  BY <1>1, FS_RemoveElement
<1>3. Cardinality(Holders \ {t}) \in Nat
  BY <1>2, FS_CardinalityType
<1> QED
  BY <1>1, <1>2, <1>3, DbPoolAssumption DEF PoolInv, DbPoolTypeOK, PoolAccounted

LEMMA DbPoolStepInv == PoolInv /\ [DbPoolNext]_poolVars => PoolInv'
<1> SUFFICES ASSUME PoolInv, [DbPoolNext]_poolVars PROVE PoolInv'
  OBVIOUS
<1> USE DbPoolAssumption DEF PoolInv
<1>1. ASSUME NEW t \in Txs, Connect(t) \/ LogAudit(t) PROVE PoolInv'
  <2>1. PICK at \in {"connect", "audit"} :
          Wait(t, at) /\ (at = "audit" => tx[t] = "body" /\ t \in Audited)
                      /\ (at = "connect" => tx[t] = "new")
    BY <1>1 DEF Connect, LogAudit
  <2>2. DbPoolTypeOK' /\ OnlyAuditedWait'
    BY <2>1 DEF Wait, DbPoolTypeOK, TxStates, OnlyAuditedWait
  <2>3. Holders' = Holders /\ free' = free
    BY <2>1 DEF Wait, DbPoolTypeOK, Holders
  <2> QED
    BY <2>2, <2>3 DEF PoolAccounted
<1>2. ASSUME NEW t \in Txs, BeginTx(t) PROVE PoolInv'
  <2>1. t \notin Holders /\ free > 0 /\ free' = free - 1
    BY <1>2 DEF BeginTx, Served, Holders
  <2>2. Holders' = Holders \cup {t}
    BY <1>2 DEF BeginTx, DbPoolTypeOK, Holders
  <2>3. free' \in 0..PoolSize /\ PoolAccounted'
    BY <2>1, <2>2, TakesConnection
  <2>4. DbPoolTypeOK' /\ OnlyAuditedWait'
    BY <1>2, <2>3 DEF BeginTx, Served, DbPoolTypeOK, TxStates, OnlyAuditedWait
  <2> QED
    BY <2>3, <2>4
<1>3. ASSUME NEW t \in Txs, AuditInsert(t) PROVE PoolInv'
  <2>1. t \in Audited
    BY <1>3 DEF AuditInsert, OnlyAuditedWait
  <2>2. DbPoolTypeOK' /\ OnlyAuditedWait'
    BY <1>3, <2>1 DEF AuditInsert, Served, DbPoolTypeOK, TxStates, OnlyAuditedWait
  <2>3. Holders' = Holders /\ free' = free
    BY <1>3 DEF AuditInsert, DbPoolTypeOK, Holders
  <2> QED
    BY <2>2, <2>3 DEF PoolAccounted
<1>4. ASSUME NEW t \in Txs, Commit(t) \/ Rollback(t) PROVE PoolInv'
  <2>1. t \in Holders /\ free' = free + 1 /\ UNCHANGED <<queue, audit>>
    BY <1>4 DEF Commit, Rollback, Ready, Holders
  <2>2. PICK end \in {"committed", "aborted"} : tx' = [tx EXCEPT ![t] = end]
    BY <1>4 DEF Commit, Rollback
  <2>3. Holders' = Holders \ {t}
    BY <2>2 DEF DbPoolTypeOK, Holders
  <2>4. free' \in 0..PoolSize /\ PoolAccounted'
    BY <2>1, <2>3, GivesConnection
  <2>5. DbPoolTypeOK' /\ OnlyAuditedWait'
    BY <2>1, <2>2, <2>4 DEF DbPoolTypeOK, TxStates, OnlyAuditedWait
  <2> QED
    BY <2>4, <2>5
<1>5. ASSUME UNCHANGED poolVars PROVE PoolInv'
  BY <1>5 DEF poolVars, DbPoolTypeOK, PoolAccounted, Holders, OnlyAuditedWait
<1> QED
  BY <1>1, <1>2, <1>3, <1>4, <1>5 DEF DbPoolNext

THEOREM DbPoolInvariant == DbPoolSpec => []PoolInv
<1> QED
  BY DbPoolInitInv, DbPoolStepInv, PTL DEF DbPoolSpec

(* Every connection is free or held by one transaction, whatever rolls     *)
(* back (db/index.ts:73-85).                                               *)
THEOREM ConnectionsAccounted == DbPoolSpec => []PoolAccounted
<1>1. PoolInv => PoolAccounted
  BY DEF PoolInv
<1> QED
  BY <1>1, DbPoolInvariant, PTL

(* The pool stands still in one way only, however many audited             *)
(* transactions meet: as many of them as there are connections each hold   *)
(* one and wait for another (db/index.ts:73, 84, 142).                     *)
THEOREM OnlyAuditsStopThePool == DbPoolSpec => []PoolMoves
<1>1. PoolInv => PoolMoves
  <2> SUFFICES ASSUME PoolInv, ~PoolMoves PROVE FALSE
    OBVIOUS
  <2> USE DbPoolAssumption DEF PoolInv
  <2>1. free = 0 /\ Holders = {t \in Audited : tx[t] = "audit"}
    BY DEF PoolMoves, DbPoolTypeOK, Holders, OnlyAuditedWait
  <2>2. Cardinality(Holders) = PoolSize
    BY <2>1, TxsFinite DEF Holders, PoolAccounted
  <2> QED
    BY <2>1, <2>2 DEF PoolMoves, AuditsBlock
<1> QED
  BY <1>1, DbPoolInvariant, PTL

-----------------------------------------------------------------------------
(* AccountHolds: how far the log of holds can drift.                       *)

HoldsInv == HoldsTypeOK /\ PendingBounded

(* A set of slots has at most as many members as there are slots.          *)
LEMMA SlotsBound ==
  ASSUME NEW T, T \subseteq HoldSlots
  PROVE  /\ IsFiniteSet(T) /\ Cardinality(T) \in Nat
         /\ Cardinality(HoldSlots) \in Nat \ {0}
         /\ Cardinality(T) <= Cardinality(HoldSlots)
<1>1. IsFiniteSet(T) /\ Cardinality(T) <= Cardinality(HoldSlots)
  BY HoldsAssumption, FS_Subset
<1>2. Cardinality(T) \in Nat /\ Cardinality(HoldSlots) \in Nat
  BY <1>1, HoldsAssumption, FS_CardinalityType
<1>3. Cardinality(HoldSlots) # 0
  BY HoldsAssumption, FS_EmptySet
<1> QED
  BY <1>1, <1>2, <1>3

(* One slot fewer.                                                         *)
LEMMA OneFewer ==
  ASSUME NEW T, T \subseteq HoldSlots, NEW s \in T
  PROVE  Cardinality(T \ {s}) = Cardinality(T) - 1
BY SlotsBound, FS_RemoveElement

LEMMA HoldsInitInv == HoldsInit => HoldsInv
<1> SUFFICES ASSUME HoldsInit PROVE HoldsInv
  OBVIOUS
<1> USE HoldsAssumption DEF HoldsInit
<1>1. HoldsTypeOK
  BY DEF HoldsTypeOK, Inserts, NoInsert, Insert
<1>2. (\A u : Releasing(u) = {}) /\ (\A d : Placing(d) = {})
  BY DEF Releasing, Placing, NoInsert, Insert
<1>3. Cardinality(HoldSlots) \in Nat \ {0} /\ Cardinality({}) = 0
  BY SlotsBound, FS_EmptySet
<1>4. \A s \in HoldSlots : req[s].op = "idle"
  BY DEF NoInsert, Insert
<1>5. PendingBounded
  BY <1>2, <1>3, <1>4 DEF PendingBounded
<1> QED
  BY <1>1, <1>5 DEF HoldsInv

-----------------------------------------------------------------------------
(* A slot that begins an insert of op for user u and decision d.           *)
LEMMA Begins ==
  ASSUME HoldsTypeOK, NEW s \in HoldSlots, req[s].op = "idle",
         NEW c \in Inserts, c.op # "idle", req' = [req EXCEPT ![s] = c]
  PROVE  /\ req' \in [HoldSlots -> Inserts]
         /\ \A u : c.op = "place" \/ u # c.user => Releasing(u)' = Releasing(u)
         /\ \A d : c.op = "release" \/ d # c.decision => Placing(d)' = Placing(d)
BY DEF HoldsTypeOK, Releasing, Placing, Inserts

(* A slot whose insert is made or given up.                                *)
LEMMA Ends ==
  ASSUME HoldsTypeOK, NEW s \in HoldSlots, req' = [req EXCEPT ![s] = NoInsert]
  PROVE  /\ req' \in [HoldSlots -> Inserts]
         /\ \A u : Releasing(u)' = Releasing(u) \ {s}
         /\ \A d : Placing(d)' = Placing(d) \ {s}
         /\ \A t \in HoldSlots : t # s => req'[t] = req[t]
         /\ req'[s].op = "idle"
BY DEF HoldsTypeOK, Releasing, Placing, Inserts, NoInsert, Insert

LEMMA PlaceInv ==
  ASSUME HoldsInv, NEW s \in HoldSlots, NEW u \in Users, NEW d \in Decisions \cup {NoDecision}, Place(s, u, d)
  PROVE  HoldsInv'
<1> USE DEF HoldsInv, Place
<1>1. PICK c \in Inserts : c = Insert("place", u, d)
  BY DEF Inserts, Insert
<1>2. c.op = "place" /\ c.user = u /\ c.decision = d /\ req' = [req EXCEPT ![s] = c]
  BY <1>1 DEF Insert
<1>3. /\ req' \in [HoldSlots -> Inserts]
      /\ \A v : Releasing(v)' = Releasing(v)
      /\ \A e : e # d => Placing(e)' = Placing(e)
  BY <1>2, Begins
<1>4. HoldsTypeOK'
  BY <1>3 DEF HoldsTypeOK
<1>5. d \in Decisions => byDecision[d] + Cardinality(Placing(d))' <= Cardinality(HoldSlots)
  <2>1. Placing(d)' \subseteq HoldSlots
    BY DEF Placing
  <2> QED
    BY <2>1, SlotsBound
<1>6. \A t \in HoldSlots : req'[t].op # "idle" => req'[t].user \in Users
  BY <1>2 DEF PendingBounded, HoldsTypeOK
<1>7. PendingBounded'
  BY <1>3, <1>5, <1>6 DEF PendingBounded
<1> QED
  BY <1>4, <1>7

LEMMA ReleaseInv ==
  ASSUME HoldsInv, NEW s \in HoldSlots, NEW u \in Users, Release(s, u)
  PROVE  HoldsInv'
<1> USE DEF HoldsInv, Release
<1>1. PICK c \in Inserts : c = Insert("release", u, NoDecision)
  BY DEF Inserts, Insert
<1>2. c.op = "release" /\ c.user = u /\ req' = [req EXCEPT ![s] = c]
  BY <1>1 DEF Insert
<1>3. /\ req' \in [HoldSlots -> Inserts]
      /\ \A v : v # u => Releasing(v)' = Releasing(v)
      /\ \A e : Placing(e)' = Placing(e)
  BY <1>2, Begins
<1>4. HoldsTypeOK'
  BY <1>3 DEF HoldsTypeOK
<1>5. releases[u] + Cardinality(Releasing(u))' < places[u] + Cardinality(HoldSlots)
  <2>1. Releasing(u)' \subseteq HoldSlots
    BY DEF Releasing
  <2>2. /\ Cardinality(Releasing(u))' \in Nat /\ Cardinality(HoldSlots) \in Nat
        /\ Cardinality(Releasing(u))' <= Cardinality(HoldSlots)
    BY <2>1, SlotsBound
  <2> QED
    BY <2>2 DEF Frozen, HoldsTypeOK
<1>6. \A t \in HoldSlots : req'[t].op # "idle" => req'[t].user \in Users
  BY <1>2 DEF PendingBounded, HoldsTypeOK
<1>7. PendingBounded'
  BY <1>3, <1>5, <1>6 DEF PendingBounded
<1> QED
  BY <1>4, <1>7

LEMMA PlaceInsertInv ==
  ASSUME HoldsInv, NEW s \in HoldSlots, PlaceInsert(s)
  PROVE  HoldsInv'
<1> USE DEF HoldsInv, PlaceInsert
<1>1. PICK u \in Users, d \in Decisions \cup {NoDecision} : u = req[s].user /\ d = req[s].decision
  BY DEF HoldsTypeOK, Inserts, PendingBounded
<1>2. /\ req' \in [HoldSlots -> Inserts]
      /\ \A v : Releasing(v)' = Releasing(v) \ {s}
      /\ \A e : Placing(e)' = Placing(e) \ {s}
      /\ \A t \in HoldSlots : t # s => req'[t] = req[t]
      /\ req'[s].op = "idle"
  BY Ends
<1>3. /\ \A v : Releasing(v)' = Releasing(v)
      /\ \A e : e # d => Placing(e)' = Placing(e)
      /\ s \in Placing(d)
  BY <1>1, <1>2 DEF Releasing, Placing
<1>4. /\ \A v \in Users : places'[v] >= places[v]
      /\ \A e \in Decisions : byDecision'[e] = byDecision[e] + (IF e = d THEN 1 ELSE 0)
      /\ places' \in [Users -> Nat] /\ byDecision' \in [Decisions -> Nat]
  BY <1>1, HoldsAssumption DEF HoldsTypeOK
<1>5. HoldsTypeOK'
  BY <1>2, <1>4 DEF HoldsTypeOK
<1>6. ASSUME NEW e \in Decisions
      PROVE  byDecision'[e] + Cardinality(Placing(e))' <= Cardinality(HoldSlots)
  <2>1. Placing(e) \subseteq HoldSlots /\ byDecision[e] \in Nat
    BY DEF Placing, HoldsTypeOK
  <2>2. Cardinality(Placing(e)) \in Nat /\ Cardinality(HoldSlots) \in Nat
    BY <2>1, SlotsBound
  <2>3. e = d => Cardinality(Placing(e))' = Cardinality(Placing(e)) - 1
    BY <1>2, <1>3, <2>1, OneFewer
  <2>4. byDecision[e] + Cardinality(Placing(e)) <= Cardinality(HoldSlots)
    BY DEF PendingBounded
  <2> QED
    BY <1>3, <1>4, <2>1, <2>2, <2>3, <2>4
<1>7. ASSUME NEW v \in Users
      PROVE  releases[v] + Cardinality(Releasing(v))' < places'[v] + Cardinality(HoldSlots)
  <2>1. Releasing(v) \subseteq HoldSlots
    BY DEF Releasing
  <2>2. Cardinality(Releasing(v)) \in Nat /\ Cardinality(HoldSlots) \in Nat
    BY <2>1, SlotsBound
  <2>3. places'[v] \in Nat /\ places[v] \in Nat /\ releases[v] \in Nat
    BY <1>4 DEF HoldsTypeOK
  <2>4. releases[v] + Cardinality(Releasing(v)) < places[v] + Cardinality(HoldSlots)
    BY DEF PendingBounded
  <2> QED
    BY <1>3, <1>4, <2>2, <2>3, <2>4
<1>8. \A t \in HoldSlots : req'[t].op # "idle" => req'[t].user \in Users
  BY <1>2 DEF PendingBounded
<1> QED
  BY <1>5, <1>6, <1>7, <1>8 DEF PendingBounded

LEMMA ReleaseInsertInv ==
  ASSUME HoldsInv, NEW s \in HoldSlots, ReleaseInsert(s)
  PROVE  HoldsInv'
<1> USE DEF HoldsInv, ReleaseInsert
<1>1. PICK u \in Users : u = req[s].user
  BY DEF PendingBounded
<1>2. /\ req' \in [HoldSlots -> Inserts]
      /\ \A v : Releasing(v)' = Releasing(v) \ {s}
      /\ \A e : Placing(e)' = Placing(e) \ {s}
      /\ \A t \in HoldSlots : t # s => req'[t] = req[t]
      /\ req'[s].op = "idle"
  BY Ends
<1>3. /\ \A v : v # u => Releasing(v)' = Releasing(v)
      /\ \A e : Placing(e)' = Placing(e)
      /\ s \in Releasing(u)
  BY <1>1, <1>2 DEF Releasing, Placing
<1>4. /\ \A v \in Users : releases'[v] = releases[v] + (IF v = u THEN 1 ELSE 0)
      /\ releases' \in [Users -> Nat]
  BY <1>1 DEF HoldsTypeOK
<1>5. HoldsTypeOK'
  BY <1>2, <1>4 DEF HoldsTypeOK
<1>6. ASSUME NEW v \in Users
      PROVE  releases'[v] + Cardinality(Releasing(v))' < places[v] + Cardinality(HoldSlots)
  <2>1. Releasing(v) \subseteq HoldSlots /\ releases[v] \in Nat /\ places[v] \in Nat
    BY DEF Releasing, HoldsTypeOK
  <2>2. Cardinality(Releasing(v)) \in Nat /\ Cardinality(HoldSlots) \in Nat
    BY <2>1, SlotsBound
  <2>3. v = u => Cardinality(Releasing(v))' = Cardinality(Releasing(v)) - 1
    BY <1>2, <1>3, <2>1, OneFewer
  <2>4. releases[v] + Cardinality(Releasing(v)) < places[v] + Cardinality(HoldSlots)
    BY DEF PendingBounded
  <2> QED
    BY <1>3, <1>4, <2>1, <2>2, <2>3, <2>4
<1>7. \A t \in HoldSlots : req'[t].op # "idle" => req'[t].user \in Users
  BY <1>2 DEF PendingBounded
<1> QED
  BY <1>3, <1>5, <1>6, <1>7 DEF PendingBounded

(* A request that dies leaves a pending insert less.                       *)
LEMMA HoldsFailInv ==
  ASSUME HoldsInv, NEW s \in HoldSlots, HoldsFail(s)
  PROVE  HoldsInv'
<1> USE DEF HoldsInv, HoldsFail
<1>1. /\ req' \in [HoldSlots -> Inserts]
      /\ \A v : Releasing(v)' = Releasing(v) \ {s}
      /\ \A e : Placing(e)' = Placing(e) \ {s}
      /\ \A t \in HoldSlots : t # s => req'[t] = req[t]
      /\ req'[s].op = "idle"
  BY Ends
<1>2. ASSUME NEW T, T \subseteq HoldSlots
      PROVE  /\ Cardinality(T \ {s}) \in Nat /\ Cardinality(T) \in Nat
             /\ Cardinality(HoldSlots) \in Nat
             /\ Cardinality(T \ {s}) <= Cardinality(T)
  BY <1>2, SlotsBound, FS_Subset
<1>3. ASSUME NEW v \in Users
      PROVE  releases[v] + Cardinality(Releasing(v))' < places[v] + Cardinality(HoldSlots)
  <2>1. Releasing(v) \subseteq HoldSlots /\ releases[v] \in Nat /\ places[v] \in Nat
    BY DEF Releasing, HoldsTypeOK
  <2> QED
    BY <1>1, <1>2, <2>1 DEF PendingBounded
<1>4. ASSUME NEW e \in Decisions
      PROVE  byDecision[e] + Cardinality(Placing(e))' <= Cardinality(HoldSlots)
  <2>1. Placing(e) \subseteq HoldSlots /\ byDecision[e] \in Nat
    BY DEF Placing, HoldsTypeOK
  <2> QED
    BY <1>1, <1>2, <2>1 DEF PendingBounded
<1>5. HoldsTypeOK' /\ \A t \in HoldSlots : req'[t].op # "idle" => req'[t].user \in Users
  BY <1>1 DEF HoldsTypeOK, PendingBounded
<1> QED
  BY <1>3, <1>4, <1>5 DEF PendingBounded

LEMMA HoldsNextInv == HoldsInv /\ [HoldsNext]_holdsVars => HoldsInv'
<1> SUFFICES ASSUME HoldsInv, [HoldsNext]_holdsVars PROVE HoldsInv'
  OBVIOUS
<1>1. CASE HoldsNext
  BY <1>1, PlaceInv, ReleaseInv, PlaceInsertInv, ReleaseInsertInv, HoldsFailInv DEF HoldsNext
<1>2. CASE UNCHANGED holdsVars
  BY <1>2 DEF holdsVars, HoldsInv, HoldsTypeOK, PendingBounded, Releasing, Placing
<1> QED
  BY <1>1, <1>2

(* The log of holds and the pending inserts stay within the bounds.        *)
THEOREM HoldsInvariant == HoldsSpec => []HoldsInv
BY HoldsInitInv, HoldsNextInv, PTL DEF HoldsSpec

-----------------------------------------------------------------------------
(* Releases run ahead of places by less than the number of requests served *)
(* at once, whatever that number is: a freeze can be swallowed only by so  *)
(* many racing releases.                                                   *)
THEOREM HoldsDriftBounded == HoldsSpec => []DriftBounded
<1>1. HoldsInv => DriftBounded
  <2> SUFFICES ASSUME HoldsInv, NEW u \in Users
               PROVE  releases[u] - places[u] < Cardinality(HoldSlots)
    BY DEF DriftBounded
  <2>1. Releasing(u) \subseteq HoldSlots /\ releases[u] \in Nat /\ places[u] \in Nat
    BY DEF Releasing, HoldsInv, HoldsTypeOK
  <2> QED
    BY <2>1, SlotsBound DEF HoldsInv, PendingBounded
<1> QED
  BY <1>1, HoldsInvariant, PTL

(* A decision retried any number of times places at most as many holds as  *)
(* there are requests at once; with one request at a time, exactly one.    *)
THEOREM HoldsDoubleFreezeBounded == HoldsSpec => []DoubleFreezeBounded
<1>1. HoldsInv => DoubleFreezeBounded
  <2> SUFFICES ASSUME HoldsInv, NEW d \in Decisions
               PROVE  byDecision[d] <= Cardinality(HoldSlots)
    BY DEF DoubleFreezeBounded
  <2>1. Placing(d) \subseteq HoldSlots /\ byDecision[d] \in Nat
    BY DEF Placing, HoldsInv, HoldsTypeOK
  <2> QED
    BY <2>1, SlotsBound DEF HoldsInv, PendingBounded
<1> QED
  BY <1>1, HoldsInvariant, PTL

(* Both bounds together, as the runs check them.                           *)
THEOREM HoldsKeepBounds == HoldsSpec => []HoldsBounded
BY HoldsDriftBounded, HoldsDoubleFreezeBounded, PTL DEF HoldsBounded

-----------------------------------------------------------------------------
(* Operations: people decide what is theirs to decide.                     *)

AllRoles == {"support", "compliance", "admin", "ceo", "chief_of_staff"}

OperationsRequests ==
  [op : {"idle", "operate", "resolve"},
   at : {"idle", "approve", "reject", "escalate", "record", "review", "execute",
         "reject-run", "approve-run", "approved", "rejected"},
   row : Runs \cup {None}, saw : (SUBSET AllRoles) \cup Admins \cup {None}]

OperationsTypeOK ==
  /\ call \in [Slots -> OperationsRequests]
  /\ skill \in [Runs -> Skills \cup {None}]
  /\ review \in [Runs -> [status : {"none", "pending", "approved", "rejected"},
                          roles : SUBSET AllRoles]]
  /\ executed \in [Runs -> SUBSET (Admins \cup {"gate"})]
  /\ trail \in [Runs -> SUBSET {"queued", "rejected", "executed"}]

(* What a call knows of its run: what was decided about it, who may        *)
(* resolve it, and what the call has done for it so far.                   *)
OperateCall(c) ==
  /\ c.at \in {"approve", "reject", "escalate", "record", "review"}
  /\ c.row \in Runs /\ skill[c.row] # None
  /\ c.at = "approve" => skill[c.row] \notin Supervised \cup CeoGated
  /\ c.at = "record" => executed[c.row] # {}
  /\ c.at \in {"escalate", "review"} =>
       c.saw \in SUBSET AllRoles /\ (skill[c.row] \in CeoGated => c.saw = CeoRoles)

ResolveCall(c) ==
  /\ c.at \in {"execute", "reject-run", "approve-run", "approved", "rejected"}
  /\ c.row \in Runs /\ review[c.row].status # "none"
  /\ c.saw \in Admins
  /\ skill[c.row] \in CeoGated => RoleOf[c.saw] \in CeoRoles
  /\ c.at \in {"approve-run", "approved"} => c.saw \in executed[c.row]
  /\ c.at = "approved" => "executed" \in trail[c.row]
  /\ c.at = "rejected" => "rejected" \in trail[c.row]

OperationsCall(c) ==
  /\ c.op = "operate" => OperateCall(c)
  /\ c.op = "resolve" => ResolveCall(c)

(* Only a run that was started is reviewed or executed, and the review of  *)
(* a gated one names the CEO's roles.                                      *)
RunsInOrder ==
  \A r \in Runs :
    /\ executed[r] # {} => skill[r] # None
    /\ review[r].status # "none" => skill[r] # None
    /\ review[r].status # "none" /\ skill[r] \in CeoGated => review[r].roles = CeoRoles

(* What PeopleDecide says, whether or not a run is contended.              *)
TrailTold ==
  \A r \in Runs :
    /\ review[r].status = "approved" => executed[r] \cap Admins # {} /\ "executed" \in trail[r]
    /\ review[r].status = "rejected" => "rejected" \in trail[r]
    /\ "executed" \in trail[r] => executed[r] # {}

PeopleActed == HumansGate /\ TrailTold

OperationsInv ==
  /\ OperationsTypeOK
  /\ \A s \in Slots : OperationsCall(call[s])
  /\ RunsInOrder
  /\ PeopleActed

(* What is decided of a run: it goes through by itself only when no person *)
(* is asked for, and a gated one waits for the CEO's roles                 *)
(* (operationsWorkflow.ts:170-203, gatePolicy.ts:54-85).                   *)
LEMMA DecideSafe ==
  ASSUME NEW k \in Skills, NEW d \in GateDecisions, NEW confidence \in Confidences
  PROVE  LET e == Decide(k, d, confidence) IN
         /\ e.action \in {"approve", "reject", "escalate"} /\ e.roles \in SUBSET AllRoles
         /\ e.action = "approve" => k \notin Supervised \cup CeoGated
         /\ e.action = "escalate" /\ k \in CeoGated => e.roles = CeoRoles
<1> DEFINE g == Governed(k, d, confidence)
           e == CeoGate(k, g)
<1>1. /\ d.action \in {"approve", "reject", "escalate"} /\ d.roles \in SUBSET AllRoles
      /\ d.action = "reject" => d.roles = {}
      /\ d = Decision(d.action, d.roles)
  BY DEF GateDecisions, Decision, AllRoles, CeoRoles
<1>2. /\ g.action \in {"approve", "reject", "escalate"} /\ g.roles \in SUBSET AllRoles
      /\ g.action = "reject" => g.roles = {}
  BY <1>1 DEF Governed, Decision, OrElse, Defaults, AllRoles
<1>3. /\ e.action \in {"approve", "reject", "escalate"} /\ e.roles \in SUBSET AllRoles
      /\ k \in CeoGated => e.action # "approve" /\ e.roles = CeoRoles
  <2> HIDE DEF g
  <2> QED
    BY <1>2 DEF CeoGate, Decision, OrElse, AllRoles, CeoRoles
<1> HIDE DEF e
<1>4. Decide(k, d, confidence) =
        IF confidence \in {"failed", "low"} \/ (k \in Supervised /\ e.action = "approve")
          THEN Decision("escalate", e.roles)
          ELSE e
  BY DEF Decide, e
<1> QED
  BY <1>3, <1>4 DEF Decision

(* Runs are started once, and what was done for them stays.                *)
RunsGrow ==
  \A r \in Runs :
    /\ skill[r] # None => skill'[r] = skill[r]
    /\ executed[r] \subseteq executed'[r] /\ trail[r] \subseteq trail'[r]
    /\ review[r].status # "none" => review'[r].status # "none"

LEMMA CallsKeepTheirRuns ==
  ASSUME OperationsInv, RunsGrow, NEW c, OperationsCall(c)
  PROVE  OperationsCall(c)'
<1>1. c.op = "operate" => OperateCall(c)'
  BY DEF OperationsCall, OperateCall, RunsGrow
<1>2. c.op = "resolve" => ResolveCall(c)'
  <2> SUFFICES ASSUME ResolveCall(c) PROVE ResolveCall(c)'
    BY DEF OperationsCall
  <2>1. skill[c.row] # None
    BY DEF ResolveCall, OperationsInv, RunsInOrder
  <2> QED
    BY <2>1 DEF ResolveCall, RunsGrow
<1> QED
  BY <1>1, <1>2 DEF OperationsCall

LEMMA OperationsInitInv == OperationsInit => OperationsInv
<1> SUFFICES ASSUME OperationsInit PROVE OperationsInv
  OBVIOUS
<1> USE DEF OperationsInit, ServiceInit, Idle, Request
<1>1. OperationsTypeOK
  BY DEF OperationsTypeOK, OperationsRequests
<1>2. \A s \in Slots : OperationsCall(call[s])
  BY DEF OperationsCall
<1>3. RunsInOrder /\ PeopleActed
  BY DEF RunsInOrder, PeopleActed, HumansGate, TrailTold
<1> QED
  BY <1>1, <1>2, <1>3 DEF OperationsInv

(* A step of one call, the run's tables having grown.                      *)
LEMMA OneCallSteps ==
  ASSUME OperationsInv, RunsGrow, NEW s \in Slots, NEW c \in OperationsRequests,
         OperationsCall(c)', call' = [call EXCEPT ![s] = c]
  PROVE  call' \in [Slots -> OperationsRequests] /\ \A t \in Slots : OperationsCall(call[t])'
<1>1. call \in [Slots -> OperationsRequests]
  BY DEF OperationsInv, OperationsTypeOK
<1>2. ASSUME NEW t \in Slots PROVE OperationsCall(call[t])'
  <2>1. CASE t = s
    <3>1. call'[t] = c
      BY <1>1, <2>1
    <3> QED
      BY <3>1 DEF OperationsCall, OperateCall, ResolveCall
  <2>2. CASE t # s
    <3>1. call'[t] = call[t]
      BY <1>1, <2>2
    <3>2. PICK d : d = call[t]
      OBVIOUS
    <3>3. OperationsCall(d)'
      BY <3>2, CallsKeepTheirRuns DEF OperationsInv
    <3>4. d = call'[t]
      BY <3>1, <3>2
    <3> QED
      BY <3>3, <3>4 DEF OperationsCall, OperateCall, ResolveCall
  <2> QED
    BY <2>1, <2>2
<1> QED
  BY <1>1, <1>2

LEMMA NothingRecorded ==
  ASSUME OperationsInv, UNCHANGED <<skill, review, executed, trail>>, NEW s \in Slots,
         NEW c \in OperationsRequests, OperationsCall(c), call' = [call EXCEPT ![s] = c]
  PROVE  OperationsInv'
<1>1. RunsGrow
  BY DEF RunsGrow
<1>2. OperationsCall(c)'
  BY <1>1, CallsKeepTheirRuns
<1>3. call' \in [Slots -> OperationsRequests] /\ \A t \in Slots : OperationsCall(call[t])'
  BY <1>1, <1>2, OneCallSteps
<1>4. OperationsTypeOK'
  BY <1>3 DEF OperationsInv, OperationsTypeOK
<1>5. RunsInOrder' /\ PeopleActed'
  BY DEF OperationsInv, RunsInOrder, PeopleActed, HumansGate, TrailTold
<1> QED
  BY <1>3, <1>4, <1>5 DEF OperationsInv

LEMMA IdleCall == Idle \in OperationsRequests /\ OperationsCall(Idle)
BY DEF Idle, Request, OperationsRequests, OperationsCall

(* A request with its position moved: executing and recording.             *)
LEMMA MovedRequest ==
  ASSUME NEW c \in OperationsRequests,
         NEW at \in {"record", "review", "approve-run", "approved", "rejected"}
  PROVE  /\ Request(c.op, at, c.row, c.saw) \in OperationsRequests
         /\ [c EXCEPT !.at = at] = Request(c.op, at, c.row, c.saw)
<1>1. Request(c.op, at, c.row, c.saw) \in OperationsRequests
  BY DEF OperationsRequests, Request
<1>2. [c EXCEPT !.at = at] = Request(c.op, at, c.row, c.saw)
  BY DEF OperationsRequests, Request
<1> QED
  BY <1>1, <1>2

LEMMA MovedCall ==
  ASSUME OperationsInv, NEW s \in Slots, NEW c \in OperationsRequests, c = call[s],
         NEW at \in {"record", "review", "approve-run", "approved", "rejected"}, Goto(s, at)
  PROVE  call' = [call EXCEPT ![s] = Request(c.op, at, c.row, c.saw)]
<1>1. call' = [call EXCEPT ![s] = [c EXCEPT !.at = at]]
  BY DEF Goto, OperationsInv, OperationsTypeOK
<1> QED
  BY <1>1, MovedRequest

LEMMA RunOperationInv ==
  ASSUME OperationsInv, NEW s \in Slots, NEW r \in Runs, NEW k \in Skills, RunOperation(s, r, k)
  PROVE  OperationsInv'
<1>1. PICK d \in GateDecisions, confidence \in Confidences :
        /\ skill[r] = None /\ skill' = [skill EXCEPT ![r] = k]
        /\ Begin(s, "operate", Decide(k, d, confidence).action, r, Decide(k, d, confidence).roles)
        /\ UNCHANGED <<review, executed, trail>>
  BY DEF RunOperation
<1>2. PICK action \in {"approve", "reject", "escalate"}, roles \in SUBSET AllRoles :
        /\ call' = [call EXCEPT ![s] = Request("operate", action, r, roles)]
        /\ action = "approve" => k \notin Supervised \cup CeoGated
        /\ action = "escalate" /\ k \in CeoGated => roles = CeoRoles
  <2> DEFINE e == Decide(k, d, confidence)
  <2>1. /\ e.action \in {"approve", "reject", "escalate"} /\ e.roles \in SUBSET AllRoles
        /\ e.action = "approve" => k \notin Supervised \cup CeoGated
        /\ e.action = "escalate" /\ k \in CeoGated => e.roles = CeoRoles
    BY DecideSafe
  <2>2. Begin(s, "operate", e.action, r, e.roles)
    BY <1>1
  <2> HIDE DEF e
  <2>3. call' = [call EXCEPT ![s] = Request("operate", e.action, r, e.roles)]
    BY <2>2 DEF Begin
  <2> QED
    BY <2>1, <2>3
<1> DEFINE c == Request("operate", action, r, roles)
<1>3. k # None /\ skill \in [Runs -> Skills \cup {None}]
  BY OperationsAssumption DEF OperationsInv, OperationsTypeOK
<1>4. RunsGrow
  BY <1>1, <1>3 DEF RunsGrow
<1>5. c \in OperationsRequests /\ OperationsCall(c)'
  BY <1>1, <1>2, <1>3 DEF Request, OperationsRequests, OperationsCall, OperateCall
<1>6. call' \in [Slots -> OperationsRequests] /\ \A t \in Slots : OperationsCall(call[t])'
  BY <1>2, <1>4, <1>5, OneCallSteps
<1>7. OperationsTypeOK'
  BY <1>1, <1>3, <1>6 DEF OperationsInv, OperationsTypeOK
<1>8. RunsInOrder' /\ PeopleActed'
  BY <1>1, <1>3 DEF OperationsInv, RunsInOrder, PeopleActed, HumansGate, TrailTold
<1> QED
  BY <1>6, <1>7, <1>8 DEF OperationsInv

(* A call goes on after it has recorded an outcome, or is over.            *)
LEMMA RecordedInv ==
  ASSUME OperationsInv, NEW s \in Slots, NEW r \in Runs, NEW c \in OperationsRequests,
         NEW outcome \in {"queued", "rejected", "executed"},
         trail' = [trail EXCEPT ![r] = @ \cup {outcome}],
         outcome = "executed" => executed[r] # {},
         OperationsCall(c)', call' = [call EXCEPT ![s] = c],
         UNCHANGED <<skill, review, executed>>
  PROVE  OperationsInv'
<1>1. trail \in [Runs -> SUBSET {"queued", "rejected", "executed"}]
  BY DEF OperationsInv, OperationsTypeOK
<1>2. RunsGrow
  BY <1>1 DEF RunsGrow
<1>3. call' \in [Slots -> OperationsRequests] /\ \A t \in Slots : OperationsCall(call[t])'
  BY <1>2, OneCallSteps
<1>4. OperationsTypeOK' /\ RunsInOrder'
  BY <1>1, <1>3 DEF OperationsInv, OperationsTypeOK, RunsInOrder
<1>5. PeopleActed'
  BY <1>1 DEF OperationsInv, PeopleActed, HumansGate, TrailTold
<1> QED
  BY <1>3, <1>4, <1>5 DEF OperationsInv

LEMMA RunRecordInv ==
  ASSUME OperationsInv, NEW s \in Slots,
         \/ RunQueued(s) \/ RunRejected(s) \/ RunExecuted(s)
         \/ ApproveRecord(s) \/ RejectRecord(s)
  PROVE  OperationsInv'
<1>1. PICK c \in OperationsRequests : c = call[s] /\ OperationsCall(c)
  BY DEF OperationsInv, OperationsTypeOK
<1>2. /\ c.op \in {"operate", "resolve"}
      /\ UNCHANGED <<skill, review, executed>>
  BY <1>1 DEF RunQueued, RunRejected, RunExecuted, ApproveRecord, RejectRecord, RunRecord
<1>3. c.row \in Runs
  BY <1>1, <1>2 DEF OperationsCall, OperateCall, ResolveCall
<1>4. trail \in [Runs -> SUBSET {"queued", "rejected", "executed"}]
  BY DEF OperationsInv, OperationsTypeOK
<1>5. Idle \in OperationsRequests /\ OperationsCall(Idle)'
  BY IdleCall DEF Idle, Request, OperationsCall
<1>6. CASE RunRejected(s)
  <2>1. trail' = [trail EXCEPT ![c.row] = @ \cup {"rejected"}] /\ call' = [call EXCEPT ![s] = Idle]
    BY <1>1, <1>6 DEF RunRejected, RunRecord, Leave
  <2> QED
    BY <1>2, <1>3, <1>5, <2>1, RecordedInv
<1>7. CASE RunExecuted(s)
  <2>1. trail' = [trail EXCEPT ![c.row] = @ \cup {"executed"}] /\ call' = [call EXCEPT ![s] = Idle]
    BY <1>1, <1>7 DEF RunExecuted, RunRecord, Leave
  <2>2. executed[c.row] # {}
    BY <1>1, <1>2, <1>7 DEF RunExecuted, RunRecord, OperationsCall, OperateCall, ResolveCall
  <2> QED
    BY <1>2, <1>3, <1>5, <2>1, <2>2, RecordedInv
<1>8. CASE RunQueued(s)
  <2> DEFINE moved == Request(c.op, "review", c.row, c.saw)
  <2>1. trail' = [trail EXCEPT ![c.row] = @ \cup {"queued"}] /\ call' = [call EXCEPT ![s] = moved]
    BY <1>1, <1>8, MovedCall DEF RunQueued, RunRecord
  <2>2. c.op = "operate" /\ c.at = "escalate"
    BY <1>1, <1>2, <1>8 DEF RunQueued, RunRecord, OperationsCall, ResolveCall
  <2>3. OperationsCall(moved)'
    BY <1>1, <1>2, <2>2 DEF Request, OperationsCall, OperateCall
  <2> QED
    BY <1>2, <1>3, <2>1, <2>3, MovedRequest, RecordedInv
<1>9. CASE ApproveRecord(s)
  <2> DEFINE moved == Request(c.op, "approved", c.row, c.saw)
  <2>1. trail' = [trail EXCEPT ![c.row] = @ \cup {"executed"}] /\ call' = [call EXCEPT ![s] = moved]
    BY <1>1, <1>9, MovedCall DEF ApproveRecord, RunRecord
  <2>2. c.op = "resolve" /\ c.at = "approve-run"
    BY <1>1, <1>2, <1>9 DEF ApproveRecord, RunRecord, OperationsCall, OperateCall
  <2>3. ResolveCall(c) /\ c.saw \in executed[c.row]
    BY <1>1, <2>2 DEF OperationsCall, ResolveCall
  <2>4. "executed" \in trail'[c.row]
    BY <1>3, <1>4, <2>1
  <2>5. OperationsCall(moved)'
    BY <1>2, <2>2, <2>3, <2>4 DEF Request, OperationsCall, ResolveCall
  <2>6. executed[c.row] # {}
    BY <2>3
  <2> QED
    BY <1>2, <1>3, <2>1, <2>5, <2>6, MovedRequest, RecordedInv
<1>10. CASE RejectRecord(s)
  <2> DEFINE moved == Request(c.op, "rejected", c.row, c.saw)
  <2>1. trail' = [trail EXCEPT ![c.row] = @ \cup {"rejected"}] /\ call' = [call EXCEPT ![s] = moved]
    BY <1>1, <1>10, MovedCall DEF RejectRecord, RunRecord
  <2>2. c.op = "resolve" /\ c.at = "reject-run"
    BY <1>1, <1>2, <1>10 DEF RejectRecord, RunRecord, OperationsCall, OperateCall
  <2>3. ResolveCall(c)
    BY <1>1, <2>2 DEF OperationsCall
  <2>4. "rejected" \in trail'[c.row]
    BY <1>3, <1>4, <2>1
  <2>5. OperationsCall(moved)'
    BY <1>2, <2>2, <2>3, <2>4 DEF Request, OperationsCall, ResolveCall
  <2> QED
    BY <1>2, <1>3, <2>1, <2>5, MovedRequest, RecordedInv
<1> QED
  BY <1>6, <1>7, <1>8, <1>9, <1>10

(* A run is carried out: by the gate, when no person is asked for, or by   *)
(* the person who resolves its review.                                     *)
LEMMA ExecutedInv ==
  ASSUME OperationsInv, NEW s \in Slots, AutoExecute(s) \/ ApproveExecute(s)
  PROVE  OperationsInv'
<1>1. PICK c \in OperationsRequests : c = call[s] /\ OperationsCall(c)
  BY DEF OperationsInv, OperationsTypeOK
<1>2. PICK who \in Admins \cup {"gate"}, next \in {"record", "approve-run"} :
        /\ Execute(s, who, next)
        /\ \/ who = "gate" /\ c.op = "operate" /\ c.at = "approve" /\ next = "record"
           \/ who = c.saw /\ c.op = "resolve" /\ c.at = "execute" /\ next = "approve-run"
  <2>1. CASE AutoExecute(s)
    BY <1>1, <2>1 DEF AutoExecute, At
  <2>2. CASE ApproveExecute(s)
    <3>1. c.op = "resolve" /\ c.at = "execute" /\ Execute(s, c.saw, "approve-run")
      BY <1>1, <2>2 DEF ApproveExecute, At
    <3>2. c.saw \in Admins
      BY <1>1, <3>1 DEF OperationsCall, ResolveCall
    <3> QED
      BY <3>1, <3>2
  <2> QED
    BY <2>1, <2>2
<1>3. /\ c.row \in Runs /\ who \in Admins \cup {"gate"} /\ skill[c.row] # None
      /\ skill[c.row] \in Supervised \cup CeoGated => who # "gate"
      /\ skill[c.row] \in CeoGated => RoleOf[who] \in CeoRoles
  BY <1>1, <1>2, OperationsAssumption
  DEF OperationsCall, OperateCall, ResolveCall, OperationsInv, RunsInOrder
<1>4. executed \in [Runs -> SUBSET (Admins \cup {"gate"})]
  BY DEF OperationsInv, OperationsTypeOK
<1>5. /\ executed' = [executed EXCEPT ![c.row] = @ \cup {who}]
      /\ call' = [call EXCEPT ![s] = Request(c.op, next, c.row, c.saw)]
      /\ UNCHANGED <<skill, review, trail>>
  BY <1>1, <1>2, MovedCall DEF Execute
<1>6. RunsGrow
  BY <1>4, <1>5 DEF RunsGrow
<1>7. who \in executed'[c.row]
  BY <1>3, <1>4, <1>5
<1>8. OperationsCall(Request(c.op, next, c.row, c.saw))'
  <2>1. CASE c.op = "operate"
    BY <1>1, <1>2, <1>3, <1>5, <1>7, <2>1 DEF Request, OperationsCall, OperateCall
  <2>2. CASE c.op = "resolve"
    BY <1>1, <1>2, <1>3, <1>5, <1>7, <2>2 DEF Request, OperationsCall, ResolveCall
  <2> QED
    BY <1>2, <2>1, <2>2
<1>9. call' \in [Slots -> OperationsRequests] /\ \A t \in Slots : OperationsCall(call[t])'
  BY <1>5, <1>6, <1>8, MovedRequest, OneCallSteps
<1>10. OperationsTypeOK'
  BY <1>3, <1>4, <1>5, <1>9 DEF OperationsInv, OperationsTypeOK
<1>11. RunsInOrder'
  BY <1>3, <1>4, <1>5 DEF OperationsInv, RunsInOrder
<1>12. PeopleActed'
  BY <1>3, <1>4, <1>5 DEF OperationsInv, PeopleActed, HumansGate, TrailTold
<1> QED
  BY <1>9, <1>10, <1>11, <1>12 DEF OperationsInv

(* A review is opened or closed: what it then says is so.                  *)
LEMMA ReviewedInv ==
  ASSUME OperationsInv, NEW s \in Slots, QueueReview(s) \/ ReviewMark(s)
  PROVE  OperationsInv'
<1>1. PICK c \in OperationsRequests : c = call[s] /\ OperationsCall(c)
  BY DEF OperationsInv, OperationsTypeOK
<1>2. review \in [Runs -> [status : {"none", "pending", "approved", "rejected"},
                           roles : SUBSET AllRoles]]
  BY DEF OperationsInv, OperationsTypeOK
<1>3. /\ UNCHANGED <<skill, executed, trail>> /\ call' = [call EXCEPT ![s] = Idle]
      /\ c.row \in Runs /\ skill[c.row] # None
  BY <1>1 DEF QueueReview, ReviewMark, Leave, At, OperationsCall, OperateCall, ResolveCall,
              OperationsInv, RunsInOrder
<1>4. PICK status \in {"pending", "approved", "rejected"}, roles \in SUBSET AllRoles :
        /\ review' = [review EXCEPT ![c.row] = [status |-> status, roles |-> roles]]
        /\ skill[c.row] \in CeoGated => roles = CeoRoles
        /\ status = "approved" => executed[c.row] \cap Admins # {} /\ "executed" \in trail[c.row]
        /\ status = "rejected" => "rejected" \in trail[c.row]
  <2>1. CASE QueueReview(s)
    <3>1. OperateCall(c) /\ c.at = "review"
      BY <1>1, <2>1 DEF QueueReview, At, OperationsCall
    <3>2. /\ OrElse(c.saw, Defaults) \in SUBSET AllRoles
          /\ skill[c.row] \in CeoGated => OrElse(c.saw, Defaults) = CeoRoles
      BY <3>1 DEF OperateCall, OrElse, Defaults, AllRoles, CeoRoles
    <3>3. review' = [review EXCEPT ![c.row] = [status |-> "pending", roles |-> OrElse(c.saw, Defaults)]]
      BY <1>1, <2>1 DEF QueueReview
    <3> QED
      BY <3>2, <3>3
  <2>2. CASE ReviewMark(s)
    <3>1. ResolveCall(c) /\ c.at \in {"approved", "rejected"}
      BY <1>1, <2>2 DEF ReviewMark, OperationsCall
    <3>2. review' = [review EXCEPT ![c.row] = [review[c.row] EXCEPT !.status = c.at]]
      BY <1>1, <1>2, <1>3, <2>2 DEF ReviewMark
    <3>3. /\ [review[c.row] EXCEPT !.status = c.at] = [status |-> c.at, roles |-> review[c.row].roles]
          /\ review[c.row].roles \in SUBSET AllRoles
      BY <1>2, <1>3
    <3>4. skill[c.row] \in CeoGated => review[c.row].roles = CeoRoles
      BY <1>3, <3>1 DEF ResolveCall, OperationsInv, RunsInOrder
    <3>5. /\ c.at = "approved" => executed[c.row] \cap Admins # {} /\ "executed" \in trail[c.row]
          /\ c.at = "rejected" => "rejected" \in trail[c.row]
      BY <3>1 DEF ResolveCall
    <3> QED
      BY <3>1, <3>2, <3>3, <3>4, <3>5
  <2> QED
    BY <2>1, <2>2
<1>5. \A r \in Runs : review'[r] = IF r = c.row THEN [status |-> status, roles |-> roles] ELSE review[r]
  BY <1>2, <1>4
<1>6. RunsGrow
  BY <1>3, <1>5 DEF RunsGrow
<1>7. OperationsCall(Idle)'
  BY DEF Idle, Request, OperationsCall
<1>8. call' \in [Slots -> OperationsRequests] /\ \A t \in Slots : OperationsCall(call[t])'
  BY <1>3, <1>6, <1>7, IdleCall, OneCallSteps
<1>9. OperationsTypeOK'
  BY <1>2, <1>3, <1>4, <1>8 DEF OperationsInv, OperationsTypeOK
<1>10. RunsInOrder'
  BY <1>3, <1>4, <1>5 DEF OperationsInv, RunsInOrder
<1>11. PeopleActed'
  BY <1>3, <1>4, <1>5 DEF OperationsInv, PeopleActed, HumansGate, TrailTold
<1> QED
  BY <1>8, <1>9, <1>10, <1>11 DEF OperationsInv

LEMMA ResolveInv ==
  ASSUME OperationsInv, NEW s \in Slots, NEW r \in Runs, NEW a \in Admins, Resolve(s, r, a)
  PROVE  OperationsInv'
<1>1. PICK at \in {"execute", "reject-run"} :
        call' = [call EXCEPT ![s] = Request("resolve", at, r, a)]
  BY DEF Resolve, Begin
<1>2. UNCHANGED <<skill, review, executed, trail>>
  BY DEF Resolve
<1>3. skill[r] \in CeoGated => RoleOf[a] \in CeoRoles
  BY DEF Resolve, ActorCanResolve, OperationsInv, RunsInOrder, CeoRoles
<1>4. /\ Request("resolve", at, r, a) \in OperationsRequests
      /\ OperationsCall(Request("resolve", at, r, a))
  BY <1>3 DEF Resolve, Request, OperationsRequests, OperationsCall, ResolveCall
<1> QED
  BY <1>1, <1>2, <1>4, NothingRecorded

LEMMA OperationsNextInv == OperationsInv /\ [OperationsNext]_operationsVars => OperationsInv'
<1> SUFFICES ASSUME OperationsInv, [OperationsNext]_operationsVars PROVE OperationsInv'
  OBVIOUS
<1>1. CASE UNCHANGED operationsVars
  BY <1>1 DEF operationsVars, OperationsInv, OperationsTypeOK, OperationsCall, OperateCall, ResolveCall,
              RunsInOrder, PeopleActed, HumansGate, TrailTold
<1>2. ASSUME NEW s \in Slots, OperationDies(s)
      PROVE  OperationsInv'
  BY <1>2, IdleCall, NothingRecorded DEF OperationDies, Dies, Leave
<1> QED
  BY <1>1, <1>2, RunOperationInv, ResolveInv, RunRecordInv, ExecutedInv, ReviewedInv
  DEF OperationsNext

(* A run is operated by one call, before there is a review of it.  While a *)
(* run is not contended one person at a time resolves it, and its pending  *)
(* review was executed only by who is about to mark it.                    *)
Executors == {"approve-run", "approved"}

OperatedOnce ==
  \A s \in Slots : call[s].op = "operate" =>
    /\ review[call[s].row].status = "none"
    /\ call[s].at # "record" => executed[call[s].row] = {}
    /\ \A t \in Slots : call[t].op = "operate" /\ call[t].row = call[s].row => t = s

Uncontended(r) ==
  /\ \A s, t \in Slots : Resolving(s, r) /\ Resolving(t, r) => s = t
  /\ review[r].status \in {"none", "approved", "rejected"} => \A s \in Slots : ~Resolving(s, r)
  /\ review[r].status = "pending" /\ executed[r] # {} =>
       \E s \in Slots : Resolving(s, r) /\ call[s].at \in Executors
  /\ review[r].status = "rejected" => executed[r] = {}

QuietRunsInv ==
  /\ OperationsInv
  /\ contended \subseteq Runs
  /\ OperatedOnce
  /\ \A r \in Runs \ contended : Uncontended(r)

LEMMA QuietInit == OperationsInit => QuietRunsInv
<1> SUFFICES ASSUME OperationsInit PROVE QuietRunsInv
  OBVIOUS
<1>1. OperationsInv
  BY OperationsInitInv
<1>2. contended = {} /\ OperatedOnce
  BY DEF OperationsInit, ServiceInit, Idle, Request, OperatedOnce
<1>3. \A r \in Runs : Uncontended(r)
  BY DEF OperationsInit, ServiceInit, Idle, Request, Uncontended, Resolving
<1> QED
  BY <1>1, <1>2, <1>3 DEF QuietRunsInv

(* A step of a call on the run q, which leaves the others alone.           *)
LEMMA QuietStep ==
  ASSUME QuietRunsInv, OperationsInv', NEW s \in Slots, NEW q \in Runs, NEW c,
         call' = [call EXCEPT ![s] = c],
         contended \subseteq contended', contended' \subseteq contended \cup {q},
         \A r \in Runs \ {q} : review'[r] = review[r] /\ executed'[r] = executed[r],
         call[s] = Idle \/ call[s].row = q, c = Idle \/ c.row = q,
         c.op = "operate" =>
           /\ review'[q].status = "none"
           /\ c.at # "record" => executed'[q] = {}
           /\ \A t \in Slots \ {s} : ~(call[t].op = "operate" /\ call[t].row = q),
         \/ review'[q] = review[q] /\ executed'[q] = executed[q]
         \/ \A t \in Slots \ {s} : ~(call[t].op = "operate" /\ call[t].row = q),
         q \notin contended' => Uncontended(q)'
  PROVE  QuietRunsInv'
<1>1. call \in [Slots -> OperationsRequests]
  BY DEF QuietRunsInv, OperationsInv, OperationsTypeOK
<1>2. \A t \in Slots : call'[t] = IF t = s THEN c ELSE call[t]
  BY <1>1
<1>3. \A t \in Slots : call[t].op = "operate" => call[t].row \in Runs
  BY DEF QuietRunsInv, OperationsInv, OperationsCall, OperateCall
<1>4. Idle.op = "idle"
  BY DEF Idle, Request
<1>5. OperatedOnce'
  <2>1. SUFFICES ASSUME NEW t \in Slots, call'[t].op = "operate"
                 PROVE  /\ review'[call'[t].row].status = "none"
                        /\ call'[t].at # "record" => executed'[call'[t].row] = {}
                        /\ \A u \in Slots : call'[u].op = "operate" /\ call'[u].row = call'[t].row => u = t
    BY DEF OperatedOnce
  <2>2. CASE t = s
    <3>1. call'[t] = c /\ c.row = q
      BY <1>2, <1>4, <2>1, <2>2
    <3> QED
      BY <1>2, <2>1, <2>2, <3>1
  <2>3. CASE t # s
    <3>1. call'[t] = call[t] /\ call[t].op = "operate" /\ call[t].row \in Runs
      BY <1>2, <1>3, <2>1, <2>3
    <3>2. /\ review[call[t].row].status = "none"
          /\ call[t].at # "record" => executed[call[t].row] = {}
          /\ \A u \in Slots : call[u].op = "operate" /\ call[u].row = call[t].row => u = t
      BY <3>1 DEF QuietRunsInv, OperatedOnce
    <3>3. review'[call[t].row] = review[call[t].row] /\ executed'[call[t].row] = executed[call[t].row]
      BY <2>3, <3>1
    <3>4. ~(call'[s].op = "operate" /\ call'[s].row = call[t].row)
      BY <1>2, <1>4, <2>3, <3>1
    <3> QED
      BY <1>2, <3>1, <3>2, <3>3, <3>4
  <2> QED
    BY <2>2, <2>3
<1>6. ASSUME NEW r \in Runs \ contended' PROVE Uncontended(r)'
  <2>1. CASE r = q
    BY <1>6, <2>1
  <2>2. CASE r # q
    <3>1. Uncontended(r)
      BY <1>6 DEF QuietRunsInv
    <3>2. \A t \in Slots : Resolving(t, r)' <=> Resolving(t, r)
      BY <1>2, <1>4, <2>2 DEF Resolving
    <3>3. \A t \in Slots : Resolving(t, r) => call'[t] = call[t]
      BY <1>2, <1>4, <2>2 DEF Resolving
    <3>4. review'[r] = review[r] /\ executed'[r] = executed[r]
      BY <2>2
    <3> QED
      BY <3>1, <3>2, <3>3, <3>4 DEF Uncontended
  <2> QED
    BY <2>1, <2>2
<1> QED
  BY <1>5, <1>6 DEF QuietRunsInv

LEMMA OperateQuiet ==
  ASSUME QuietRunsInv, OperationsInv', NEW s \in Slots, NEW r \in Runs, NEW k \in Skills, RunOperation(s, r, k)
  PROVE  QuietRunsInv'
<1>1. PICK c : call' = [call EXCEPT ![s] = c] /\ c.op = "operate" /\ c.row = r
  <2>1. PICK e : Begin(s, "operate", e.action, r, e.roles)
    BY DEF RunOperation
  <2>2. PICK c : c = Request("operate", e.action, r, e.roles)
    OBVIOUS
  <2>3. c.op = "operate" /\ c.row = r
    BY <2>2 DEF Request
  <2>4. call' = [call EXCEPT ![s] = c]
    BY <2>1, <2>2 DEF Begin
  <2> QED
    BY <2>3, <2>4
<1>2. skill[r] = None /\ call[s] = Idle /\ UNCHANGED <<review, executed, contended>>
  BY DEF RunOperation, Begin
<1>3. executed[r] = {} /\ review[r].status = "none"
  BY <1>2 DEF QuietRunsInv, OperationsInv, OperationsTypeOK, RunsInOrder
<1>4. \A t \in Slots : ~(call[t].op = "operate" /\ call[t].row = r)
  BY <1>2 DEF QuietRunsInv, OperationsInv, OperationsCall, OperateCall
<1>5. \A t \in Slots : ~Resolving(t, r)
  BY <1>3 DEF QuietRunsInv, OperationsInv, OperationsCall, ResolveCall, Resolving
<1>6. \A t \in Slots : call'[t] = IF t = s THEN c ELSE call[t]
  BY <1>1 DEF QuietRunsInv, OperationsInv, OperationsTypeOK
<1>7. Uncontended(r)'
  BY <1>1, <1>2, <1>3, <1>5, <1>6 DEF Uncontended, Resolving
<1> QED
  BY <1>1, <1>2, <1>3, <1>4, <1>7, QuietStep DEF QuietRunsInv

(* A call on q goes on, or is over; it is no approval that was carried     *)
(* out, and no row but the trail changes.                                  *)
LEMMA RecordQuiet ==
  ASSUME QuietRunsInv, OperationsInv', NEW s \in Slots, NEW c, call' = [call EXCEPT ![s] = c],
         call[s].op \in {"operate", "resolve"},
         c = Idle \/ (c.op = call[s].op /\ c.row = call[s].row),
         c # Idle /\ call[s].op = "operate" => call[s].at # "record",
         c = Idle => call[s].op = "operate",
         call[s].op = "resolve" /\ call[s].at \in Executors => c.at \in Executors,
         UNCHANGED <<review, executed, contended>>
  PROVE  QuietRunsInv'
<1>1. PICK q : q = call[s].row
  OBVIOUS
<1>2. q \in Runs
  BY <1>1 DEF QuietRunsInv, OperationsInv, OperationsCall, OperateCall, ResolveCall
<1>3. \A t \in Slots : call'[t] = IF t = s THEN c ELSE call[t]
  BY DEF QuietRunsInv, OperationsInv, OperationsTypeOK
<1>4. Idle.op = "idle"
  BY DEF Idle, Request
<1>5. c.op = "operate" =>
        /\ review[q].status = "none"
        /\ c.at # "record" => executed[q] = {}
        /\ \A t \in Slots \ {s} : ~(call[t].op = "operate" /\ call[t].row = q)
  BY <1>1, <1>4 DEF QuietRunsInv, OperatedOnce
<1>6. ASSUME q \notin contended PROVE Uncontended(q)'
  <2>1. Uncontended(q)
    BY <1>2, <1>6 DEF QuietRunsInv
  <2>2. \A t \in Slots : Resolving(t, q)' => Resolving(t, q)
    BY <1>1, <1>3, <1>4 DEF Resolving
  <2>3. \A t \in Slots : Resolving(t, q) /\ call[t].at \in Executors =>
                           Resolving(t, q)' /\ call'[t].at \in Executors
    BY <1>1, <1>3, <1>4 DEF Resolving
  <2> QED
    BY <2>1, <2>2, <2>3 DEF Uncontended
<1> QED
  BY <1>1, <1>2, <1>5, <1>6, QuietStep DEF QuietRunsInv

LEMMA TrailQuiet ==
  ASSUME QuietRunsInv, OperationsInv', NEW s \in Slots,
         RunQueued(s) \/ RunRejected(s) \/ RunExecuted(s) \/ ApproveRecord(s) \/ RejectRecord(s)
  PROVE  QuietRunsInv'
<1>1. PICK c \in OperationsRequests : c = call[s] /\ OperationsCall(c)
  BY DEF QuietRunsInv, OperationsInv, OperationsTypeOK
<1>2. UNCHANGED <<review, executed, contended>> /\ c.op \in {"operate", "resolve"}
  BY <1>1 DEF RunQueued, RunRejected, RunExecuted, ApproveRecord, RejectRecord, RunRecord
<1>3. CASE RunRejected(s) \/ RunExecuted(s)
  <2>1. call' = [call EXCEPT ![s] = Idle] /\ c.at \in {"reject", "record"}
    BY <1>1, <1>3 DEF RunRejected, RunExecuted, RunRecord, Leave
  <2>2. c.op = "operate"
    BY <1>1, <1>2, <2>1 DEF OperationsCall, ResolveCall
  <2> QED
    BY <1>1, <1>2, <2>1, <2>2, RecordQuiet DEF Executors
<1>4. CASE RunQueued(s)
  <2> DEFINE moved == Request(c.op, "review", c.row, c.saw)
  <2>1. call' = [call EXCEPT ![s] = moved] /\ c.at = "escalate"
    BY <1>1, <1>4, MovedCall DEF RunQueued, RunRecord, QuietRunsInv
  <2>2. c.op = "operate" /\ moved.op = c.op /\ moved.row = c.row /\ moved # Idle
    BY <1>1, <1>2, <2>1 DEF OperationsCall, ResolveCall, Request, Idle
  <2> QED
    BY <1>1, <1>2, <2>1, <2>2, RecordQuiet
<1>5. CASE ApproveRecord(s)
  <2> DEFINE moved == Request(c.op, "approved", c.row, c.saw)
  <2>1. call' = [call EXCEPT ![s] = moved] /\ c.at = "approve-run"
    BY <1>1, <1>5, MovedCall DEF ApproveRecord, RunRecord, QuietRunsInv
  <2>2. c.op = "resolve" /\ moved.op = c.op /\ moved.row = c.row /\ moved # Idle /\ moved.at = "approved"
    BY <1>1, <1>2, <2>1 DEF OperationsCall, OperateCall, Request, Idle
  <2> QED
    BY <1>1, <1>2, <2>1, <2>2, RecordQuiet DEF Executors
<1>6. CASE RejectRecord(s)
  <2> DEFINE moved == Request(c.op, "rejected", c.row, c.saw)
  <2>1. call' = [call EXCEPT ![s] = moved] /\ c.at = "reject-run"
    BY <1>1, <1>6, MovedCall DEF RejectRecord, RunRecord, QuietRunsInv
  <2>2. c.op = "resolve" /\ moved.op = c.op /\ moved.row = c.row /\ moved # Idle
    BY <1>1, <1>2, <2>1 DEF OperationsCall, OperateCall, Request, Idle
  <2> QED
    BY <1>1, <1>2, <2>1, <2>2, RecordQuiet DEF Executors
<1> QED
  BY <1>3, <1>4, <1>5, <1>6

LEMMA ExecuteQuiet ==
  ASSUME QuietRunsInv, OperationsInv', NEW s \in Slots, AutoExecute(s) \/ ApproveExecute(s)
  PROVE  QuietRunsInv'
<1>1. PICK c \in OperationsRequests : c = call[s] /\ OperationsCall(c)
  BY DEF QuietRunsInv, OperationsInv, OperationsTypeOK
<1>2. PICK who \in Admins \cup {"gate"}, next \in {"record", "approve-run"} :
        /\ Execute(s, who, next)
        /\ \/ c.op = "operate" /\ c.at = "approve" /\ next = "record"
           \/ c.op = "resolve" /\ c.at = "execute" /\ next = "approve-run"
  <2>1. CASE AutoExecute(s)
    BY <1>1, <2>1 DEF AutoExecute, At
  <2>2. CASE ApproveExecute(s)
    <3>1. c.op = "resolve" /\ c.at = "execute" /\ Execute(s, c.saw, "approve-run")
      BY <1>1, <2>2 DEF ApproveExecute, At
    <3>2. c.saw \in Admins
      BY <1>1, <3>1 DEF OperationsCall, ResolveCall
    <3> QED
      BY <3>1, <3>2
  <2> QED
    BY <2>1, <2>2
<1>3. PICK q : q = c.row
  OBVIOUS
<1>4. q \in Runs
  BY <1>1, <1>2, <1>3 DEF OperationsCall, OperateCall, ResolveCall
<1>5. PICK d : d = Request(c.op, next, c.row, c.saw)
  OBVIOUS
<1>6. /\ executed' = [executed EXCEPT ![q] = @ \cup {who}]
      /\ call' = [call EXCEPT ![s] = d]
      /\ UNCHANGED <<review, contended>>
  BY <1>1, <1>2, <1>3, <1>5, MovedCall DEF Execute, QuietRunsInv
<1>7. d.op = c.op /\ d.at = next /\ d.row = q
  BY <1>3, <1>5 DEF Request
<1>8. \A t \in Slots : call'[t] = IF t = s THEN d ELSE call[t]
  BY <1>6 DEF QuietRunsInv, OperationsInv, OperationsTypeOK
<1>9. executed \in [Runs -> SUBSET (Admins \cup {"gate"})]
  BY DEF QuietRunsInv, OperationsInv, OperationsTypeOK
<1>10. \A r \in Runs \ {q} : review'[r] = review[r] /\ executed'[r] = executed[r]
  BY <1>6, <1>9
<1>11. \A t \in Slots \ {s} : ~(call[t].op = "operate" /\ call[t].row = q)
  <2>1. CASE c.op = "operate"
    BY <1>1, <1>3, <2>1 DEF QuietRunsInv, OperatedOnce
  <2>2. CASE c.op = "resolve"
    <3>1. review[q].status # "none"
      BY <1>1, <1>3, <2>2 DEF OperationsCall, ResolveCall
    <3> QED
      BY <3>1 DEF QuietRunsInv, OperatedOnce
  <2> QED
    BY <1>2, <2>1, <2>2
<1>12. d.op = "operate" => review'[q].status = "none" /\ d.at = "record"
  BY <1>1, <1>2, <1>3, <1>6, <1>7 DEF QuietRunsInv, OperatedOnce
<1>13. ASSUME q \notin contended PROVE Uncontended(q)'
  <2>1. Uncontended(q)
    BY <1>4, <1>13 DEF QuietRunsInv
  <2>2. \A t \in Slots : Resolving(t, q)' <=> Resolving(t, q)
    BY <1>1, <1>3, <1>7, <1>8 DEF Resolving
  <2>3. CASE c.op = "operate"
    <3>1. review[q].status = "none"
      BY <1>1, <1>3, <2>3 DEF QuietRunsInv, OperatedOnce
    <3> QED
      BY <1>6, <2>1, <2>2, <3>1 DEF Uncontended
  <2>4. CASE c.op = "resolve"
    <3>1. Resolving(s, q) /\ Resolving(s, q)' /\ call'[s].at \in Executors
      BY <1>1, <1>2, <1>3, <1>7, <1>8, <2>2, <2>4 DEF Resolving, Executors
    <3>2. review[q].status \notin {"none", "approved", "rejected"}
      BY <2>1, <3>1 DEF Uncontended
    <3> QED
      BY <1>6, <2>1, <2>2, <3>1, <3>2 DEF Uncontended
  <2> QED
    BY <1>2, <2>3, <2>4
<1>14. call[s].row = q /\ d.row = q /\ (d.op = "operate" => d.at = "record")
  BY <1>1, <1>3, <1>7, <1>12
<1>15. contended' = contended
  BY <1>6
<1> QED
  BY <1>4, <1>6, <1>10, <1>11, <1>12, <1>13, <1>14, <1>15, QuietStep

LEMMA ReviewQuiet ==
  ASSUME QuietRunsInv, OperationsInv', NEW s \in Slots, QueueReview(s) \/ ReviewMark(s)
  PROVE  QuietRunsInv'
<1>1. PICK c \in OperationsRequests : c = call[s] /\ OperationsCall(c)
  BY DEF QuietRunsInv, OperationsInv, OperationsTypeOK
<1>2. PICK q : q = c.row
  OBVIOUS
<1>3. q \in Runs
  BY <1>1, <1>2 DEF QueueReview, ReviewMark, At, OperationsCall, OperateCall, ResolveCall
<1>4. review \in [Runs -> [status : {"none", "pending", "approved", "rejected"}, roles : SUBSET AllRoles]]
  BY DEF QuietRunsInv, OperationsInv, OperationsTypeOK
<1>5. UNCHANGED <<executed, contended>> /\ call' = [call EXCEPT ![s] = Idle]
  BY DEF QueueReview, ReviewMark, Leave
<1>6. PICK row : review' = [review EXCEPT ![q] = row]
  BY <1>1, <1>2 DEF QueueReview, ReviewMark
<1>7. review'[q] = row /\ \A r \in Runs \ {q} : review'[r] = review[r] /\ executed'[r] = executed[r]
  BY <1>3, <1>4, <1>5, <1>6
<1>8. \A t \in Slots : call'[t] = IF t = s THEN Idle ELSE call[t]
  BY <1>5 DEF QuietRunsInv, OperationsInv, OperationsTypeOK
<1>9. Idle.op = "idle"
  BY DEF Idle, Request
<1>10. \A t \in Slots : Resolving(t, q)' <=> t # s /\ Resolving(t, q)
  BY <1>8, <1>9 DEF Resolving
<1>11. CASE QueueReview(s)
  <2>1. c.op = "operate" /\ c.at = "review" /\ row.status = "pending"
    BY <1>1, <1>2, <1>3, <1>4, <1>7, <1>11 DEF QueueReview, At
  <2>2. /\ review[q].status = "none" /\ executed[q] = {}
        /\ \A t \in Slots \ {s} : ~(call[t].op = "operate" /\ call[t].row = q)
    BY <1>1, <1>2, <2>1 DEF QuietRunsInv, OperatedOnce
  <2>3. \A t \in Slots : ~Resolving(t, q)
    BY <2>2 DEF QuietRunsInv, OperationsInv, OperationsCall, ResolveCall, Resolving
  <2>4. Uncontended(q)'
    BY <1>5, <1>7, <1>10, <2>1, <2>2, <2>3 DEF Uncontended
  <2> QED
    BY <1>1, <1>2, <1>3, <1>5, <1>7, <1>9, <2>2, <2>4, QuietStep
<1>12. CASE ReviewMark(s)
  <2>1. ResolveCall(c) /\ c.op = "resolve" /\ c.at \in {"approved", "rejected"} /\ row.status = c.at
    BY <1>1, <1>2, <1>3, <1>4, <1>7, <1>12 DEF ReviewMark, OperationsCall
  <2>2. review[q].status # "none"
    BY <1>2, <2>1 DEF ResolveCall
  <2>3. \A t \in Slots \ {s} : ~(call[t].op = "operate" /\ call[t].row = q)
    BY <2>2 DEF QuietRunsInv, OperatedOnce
  <2>4. ASSUME q \notin contended PROVE Uncontended(q)'
    <3>1. Uncontended(q) /\ Resolving(s, q)
      BY <1>1, <1>2, <1>3, <2>1, <2>4 DEF QuietRunsInv, Resolving
    <3>2. \A t \in Slots : ~Resolving(t, q)'
      BY <1>10, <3>1 DEF Uncontended
    <3>3. review[q].status = "pending"
      BY <1>3, <1>4, <3>1 DEF Uncontended
    <3>4. row.status = "rejected" => executed[q] = {}
      BY <1>1, <2>1, <3>1, <3>3 DEF Uncontended, Executors
    <3> QED
      BY <1>5, <1>7, <2>1, <3>2, <3>4 DEF Uncontended
  <2> QED
    BY <1>1, <1>2, <1>3, <1>5, <1>7, <1>9, <2>3, <2>4, QuietStep
<1> QED
  BY <1>11, <1>12

LEMMA ResolveQuiet ==
  ASSUME QuietRunsInv, OperationsInv', NEW s \in Slots, NEW r \in Runs, NEW a \in Admins, Resolve(s, r, a)
  PROVE  QuietRunsInv'
<1>1. PICK at \in {"execute", "reject-run"} :
        call[s] = Idle /\ call' = [call EXCEPT ![s] = Request("resolve", at, r, a)]
  BY DEF Resolve, Begin
<1>2. PICK c : c = Request("resolve", at, r, a)
  OBVIOUS
<1>3. c.op = "resolve" /\ c.row = r /\ call' = [call EXCEPT ![s] = c]
  BY <1>1, <1>2 DEF Request
<1>4. /\ UNCHANGED <<review, executed>> /\ review[r].status = "pending"
      /\ contended' = IF \E t \in Slots : Resolving(t, r) THEN contended \cup {r} ELSE contended
  BY DEF Resolve
<1>5. \A t \in Slots : call'[t] = IF t = s THEN c ELSE call[t]
  BY <1>3 DEF QuietRunsInv, OperationsInv, OperationsTypeOK
<1>6. ASSUME r \notin contended' PROVE Uncontended(r)'
  <2>1. Uncontended(r) /\ \A t \in Slots : ~Resolving(t, r)
    BY <1>4, <1>6 DEF QuietRunsInv
  <2>2. \A t \in Slots : Resolving(t, r)' <=> t = s
    BY <1>3, <1>5, <2>1 DEF Resolving
  <2>3. executed[r] = {}
    BY <1>4, <2>1 DEF Uncontended
  <2> QED
    BY <1>4, <2>2, <2>3 DEF Uncontended
<1>7. contended \subseteq contended' /\ contended' \subseteq contended \cup {r}
  BY <1>4
<1> QED
  BY <1>1, <1>3, <1>4, <1>6, <1>7, QuietStep

LEMMA DiesQuiet ==
  ASSUME QuietRunsInv, OperationsInv', NEW s \in Slots, OperationDies(s)
  PROVE  QuietRunsInv'
<1>1. /\ call[s] # Idle /\ call' = [call EXCEPT ![s] = Idle] /\ UNCHANGED <<review, executed>>
      /\ contended' = contended \cup {r \in Runs : Resolving(s, r) /\ call[s].at \in Executors}
  BY DEF OperationDies, Dies, Leave, Executors
<1>2. PICK c \in OperationsRequests : c = call[s] /\ OperationsCall(c)
  BY DEF QuietRunsInv, OperationsInv, OperationsTypeOK
<1>3. \A t \in Slots : call'[t] = IF t = s THEN Idle ELSE call[t]
  BY <1>1 DEF QuietRunsInv, OperationsInv, OperationsTypeOK
<1>4. Idle.op = "idle"
  BY DEF Idle, Request
<1>5. OperatedOnce'
  BY <1>1, <1>3, <1>4 DEF QuietRunsInv, OperatedOnce
<1>6. ASSUME NEW r \in Runs \ contended' PROVE Uncontended(r)'
  <2>1. Uncontended(r) /\ ~(Resolving(s, r) /\ call[s].at \in Executors)
    BY <1>1, <1>6 DEF QuietRunsInv
  <2>2. \A t \in Slots : Resolving(t, r)' <=> t # s /\ Resolving(t, r)
    BY <1>3, <1>4 DEF Resolving
  <2>3. \A t \in Slots \ {s} : call'[t] = call[t]
    BY <1>3
  <2> QED
    BY <1>1, <2>1, <2>2, <2>3 DEF Uncontended
<1> QED
  BY <1>1, <1>5, <1>6 DEF QuietRunsInv

LEMMA QuietRunsStep == QuietRunsInv /\ [OperationsNext]_operationsVars => QuietRunsInv'
<1> SUFFICES ASSUME QuietRunsInv, [OperationsNext]_operationsVars PROVE QuietRunsInv'
  OBVIOUS
<1>1. OperationsInv'
  BY OperationsNextInv DEF QuietRunsInv
<1>2. CASE UNCHANGED operationsVars
  BY <1>1, <1>2 DEF operationsVars, QuietRunsInv, OperatedOnce, Uncontended, Resolving
<1> QED
  BY <1>1, <1>2, OperateQuiet, ResolveQuiet, TrailQuiet, ExecuteQuiet, ReviewQuiet, DiesQuiet
  DEF OperationsNext

LEMMA QuietDecides == QuietRunsInv => PeopleDecide
BY DEF QuietRunsInv, OperationsInv, PeopleActed, TrailTold, PeopleDecide, ReviewsTellTheTrail,
       Uncontended

(* Whatever the gate, the agent's confidence and the governance say, and   *)
(* whoever resolves at the same time, people decide what is theirs to      *)
(* decide and the trail says so; what a person rejected is not executed,   *)
(* but for two at once and for who dies after the execution                *)
(* (operationsWorkflow.ts:194-203, 337-384).                               *)
THEOREM OperationsPeopleDecide == OperationsSpec => []PeopleDecide
<1> QED
  BY QuietInit, QuietRunsStep, QuietDecides, PTL DEF OperationsSpec
=============================================================================
