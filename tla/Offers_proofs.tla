---------------------------- MODULE Offers_proofs ----------------------------
(***************************************************************************)
(* Proofs about what is offered, and to whom, for any number of requests   *)
(* and rows: the primary market with its subscriptions and redemptions, an *)
(* employer's grants, the listings of collectibles, a teen's card, the     *)
(* credit builder and savings; then onboarding, which decides who may be   *)
(* served, and what agents may do for them.                                *)
(***************************************************************************)
EXTENDS
  Market, Equity, Listings, TeenSpend, CreditBuilder, Savings, Onboarding, Agents,
  Rails_proofs, FiniteSetTheorems, SequenceTheorems, TLAPS

-----------------------------------------------------------------------------
(* Market: orders, subscriptions in escrow, and redemptions.               *)

MarketRequests ==
  Requests({"idle", "subscribe", "buy", "sell", "redeem"}, {"idle", "commit", "post", "insert"},
           MarketKeys \cup {None}, {None})

MarketTypeOK ==
  /\ LedgerTypeOK
  /\ call \in [Slots -> MarketRequests]
  /\ order \in [MarketKeys -> OrderStatuses]
  /\ redemptions \in [MarketKeys -> Nat]

(* What a request knows: its key is of its operation, and a redemption     *)
(* about to be recorded has its journal.                                   *)
MarketCall(c) ==
  /\ c.op # "idle" => c.row \in MarketKeys /\ MarketOp[c.row] = c.op
  /\ c.at = "insert" => Posted(<<"redeem", c.row>>)

MarketCalls == \A s \in Slots : MarketCall(call[s])

(* A row and the journals of its key tell the same.                        *)
OrdersPosted ==
  \A k \in MarketKeys :
    /\ Posted(<<"order", k>>) <=> order[k] # "none"
    /\ Posted(<<"sub-close", k>>) => order[k] = "filled"
    /\ Posted(<<"sub-refund", k>>) => order[k] = "refunded"

MarketInv ==
  /\ MarketTypeOK
  /\ MarketCalls
  /\ OrdersPosted
  /\ SubscriptionsInEscrow
  /\ UnitsShortByRedemptions

Nets == [k \in MarketKeys |-> Net(k)]
OpenOnes == {k \in MarketKeys : OpenSubscription(k)}
Redeemed == {k \in MarketKeys : Posted(<<"redeem", k>>)}

LEMMA MarketSums ==
  /\ IsFiniteSet(OpenOnes) /\ IsFiniteSet(Redeemed) /\ IsFiniteSet(OpenOnes') /\ IsFiniteSet(Redeemed')
  /\ \A k \in MarketKeys : Nets[k] \in Nat /\ Nets[k] = Net(k) /\ MarketQty[k] \in Nat
  /\ RedeemedUnits = SumFunctionOnSet(MarketQty, Redeemed) /\ RedeemedUnits \in Nat
<1>1. /\ IsFiniteSet(OpenOnes) /\ IsFiniteSet(Redeemed) /\ IsFiniteSet(OpenOnes')
      /\ IsFiniteSet(Redeemed')
  <2>1. /\ OpenOnes \subseteq MarketKeys /\ Redeemed \subseteq MarketKeys
        /\ OpenOnes' \subseteq MarketKeys /\ Redeemed' \subseteq MarketKeys
    BY DEF OpenOnes, Redeemed
  <2> QED
    BY <2>1, FS_Subset, MarketAssumption
<1>2. \A k \in MarketKeys : Nets[k] \in Nat /\ Nets[k] = Net(k) /\ MarketQty[k] \in Nat
  BY MarketAssumption DEF Nets, Net
<1>3. SumFunctionOnSet(MarketQty, Redeemed) \in Nat
  BY <1>1, <1>2, SumNat DEF Redeemed
<1> QED
  BY <1>1, <1>2, <1>3 DEF RedeemedUnits, Redeemed

LEMMA MarketInitInv == MarketInit => MarketInv
<1> SUFFICES ASSUME MarketInit PROVE MarketInv
  OBVIOUS
<1> USE DEF MarketInit, ServiceInit, LedgerInit
<1>1. LedgerTypeOK
  BY OpeningAssumption DEF LedgerTypeOK, Effects
<1>2. MarketTypeOK
  BY <1>1 DEF MarketTypeOK, MarketRequests, Requests, Idle, Request, OrderStatuses
<1>3. MarketCalls /\ OrdersPosted
  BY DEF MarketCalls, MarketCall, OrdersPosted, Posted, Idle, Request
<1>4. SubscriptionsInEscrow
  <2>1. OpenOnes = {}
    BY DEF OpenOnes, OpenSubscription
  <2>2. SumFunctionOnSet(Nets, OpenOnes) = 0
    BY <2>1, SumEmpty
  <2> QED
    BY <2>2, MarketAssumption, OpeningAssumption DEF SubscriptionsInEscrow, Nets, OpenOnes
<1>5. UnitsShortByRedemptions
  BY MarketSums, MarketAssumption, OpeningAssumption DEF UnitsShortByRedemptions
<1> QED
  BY <1>2, <1>3, <1>4, <1>5 DEF MarketInv

(* A step that moves no money and writes no order.                         *)
LEMMA MarketQuietInv ==
  ASSUME MarketInv, UNCHANGED <<journals, bal, order>>,
         NEW s \in Slots, NEW c \in MarketRequests, Becomes(s, c), MarketCall(c),
         redemptions' \in [MarketKeys -> Nat],
         \A k \in MarketKeys : redemptions'[k] > 0 => Posted(<<"redeem", k>>)
  PROVE  MarketInv'
<1>1. /\ call' \in [Slots -> MarketRequests] /\ call'[s] = c
      /\ \A t \in Slots \ {s} : call'[t] = call[t]
  BY BecomesOne DEF MarketInv, MarketTypeOK
<1>2. MarketTypeOK'
  BY <1>1 DEF MarketInv, MarketTypeOK, LedgerTypeOK
<1>3. MarketCalls'
  BY <1>1 DEF MarketInv, MarketCalls, MarketCall, Posted
<1>4. OrdersPosted'
  BY DEF MarketInv, OrdersPosted, Posted
<1>5. SubscriptionsInEscrow' /\ UnitsShortByRedemptions'
  BY DEF MarketInv, SubscriptionsInEscrow, UnitsShortByRedemptions, RedeemedUnits, OpenSubscription,
         Posted
<1> QED
  BY <1>2, <1>3, <1>4, <1>5 DEF MarketInv

(* A journal is posted under a fresh key, and a row may change with it:    *)
(* what the journal has to do for the escrow and for what is spent.        *)
LEMMA MarketPostInv ==
  ASSUME MarketInv, NEW k \in MarketKeys, NEW key, NEW d \in Effects,
         ~Posted(key), PostJournal(key, d),
         order' \in [MarketKeys -> OrderStatuses],
         \A j \in MarketKeys \ {k} : order'[j] = order[j],
         redemptions' = redemptions,
         call' \in [Slots -> MarketRequests], MarketCalls', OrdersPosted',
         d[SubEscrow] = (IF OpenSubscription(k)' THEN Net(k) ELSE 0)
                          - (IF OpenSubscription(k) THEN Net(k) ELSE 0),
         bal[Subscriber] + d[Subscriber] >= 0,
         bal[Treasury] + d[Treasury] >= 0,
         \/ key = <<"redeem", k>> /\ d[Units] = -MarketQty[k]
         \/ /\ \A j \in MarketKeys : key # <<"redeem", j>>
            /\ d[Units] >= 0 \/ bal[Units] + d[Units] >= 0
  PROVE  MarketInv'
<1>1. /\ LedgerTypeOK' /\ DOMAIN journals' = DOMAIN journals \cup {key}
      /\ \A a \in Accounts : bal'[a] = bal[a] + d[a]
  BY PostFresh DEF MarketInv, MarketTypeOK
<1>2. MarketTypeOK'
  BY <1>1 DEF MarketInv, MarketTypeOK
<1>3. /\ bal[SubEscrow] \in Int /\ bal[Units] \in Int /\ Opening[SubEscrow] \in Int
      /\ {SubEscrow, Subscriber, Treasury, Units} \subseteq Accounts
      /\ d[Units] \in Int /\ Net(k) \in Nat /\ MarketQty[k] \in Nat
  BY MarketAssumption, OpeningAssumption, MarketSums DEF MarketInv, MarketTypeOK, LedgerTypeOK, Effects
<1>4. bal'[SubEscrow] = Opening[SubEscrow] + SumFunctionOnSet(Nets, OpenOnes')
  <2>1. OpenOnes \ {k} = OpenOnes' \ {k}
    BY DEF OpenOnes, OpenSubscription
  <2>2. (k \in OpenOnes <=> OpenSubscription(k)) /\ (k \in OpenOnes' <=> OpenSubscription(k)')
    BY DEF OpenOnes
  <2>3. \A x \in OpenOnes \cup OpenOnes' \cup {k} : Nets[x] \in Int
    BY MarketSums DEF OpenOnes
  <2>4. SumFunctionOnSet(Nets, OpenOnes') = SumFunctionOnSet(Nets, OpenOnes)
          + (IF k \in OpenOnes' THEN Nets[k] ELSE 0) - (IF k \in OpenOnes THEN Nets[k] ELSE 0)
    BY <2>1, <2>3, MarketSums, SumSetChange
  <2>5. Nets[k] = Net(k) /\ SumFunctionOnSet(Nets, OpenOnes) \in Int
    BY <2>3, MarketSums, SumType
  <2>6. bal[SubEscrow] = Opening[SubEscrow] + SumFunctionOnSet(Nets, OpenOnes)
    BY DEF MarketInv, SubscriptionsInEscrow, Nets, OpenOnes
  <2> QED
    BY <1>1, <1>3, <2>2, <2>4, <2>5, <2>6
<1>5. SubscriptionsInEscrow'
  <2>1. Nets' = Nets
    BY DEF Nets, Net
  <2>2. bal'[Subscriber] >= 0 /\ bal'[Treasury] >= 0
    BY <1>1, <1>3
  <2> QED
    BY <1>4, <2>2 DEF SubscriptionsInEscrow, Nets, Net, OpenOnes
<1>6. RedeemedUnits \in Nat /\ RedeemedUnits' \in Nat /\ bal[Units] + RedeemedUnits >= 0
  BY MarketSums, SumNat DEF MarketInv, UnitsShortByRedemptions, RedeemedUnits, Redeemed
<1>7. bal'[Units] + RedeemedUnits' >= 0
  <2>1. CASE key = <<"redeem", k>> /\ d[Units] = -MarketQty[k]
    <3>1. k \notin Redeemed /\ Redeemed' = Redeemed \cup {k}
      BY <1>1, <2>1 DEF Redeemed, Posted
    <3>2. \A x \in Redeemed : MarketQty[x] \in Int
      BY MarketSums DEF Redeemed
    <3>3. SumFunctionOnSet(MarketQty, Redeemed') = SumFunctionOnSet(MarketQty, Redeemed) + MarketQty[k]
      BY <1>3, <3>1, <3>2, MarketSums, SumAdd
    <3>4. RedeemedUnits' = RedeemedUnits + MarketQty[k]
      BY <3>3 DEF RedeemedUnits, Redeemed
    <3> QED
      BY <1>1, <1>3, <1>6, <2>1, <3>4
  <2>2. CASE /\ \A j \in MarketKeys : key # <<"redeem", j>>
             /\ d[Units] >= 0 \/ bal[Units] + d[Units] >= 0
    <3>1. RedeemedUnits' = RedeemedUnits
      <4>1. Redeemed' = Redeemed
        BY <1>1, <2>2 DEF Redeemed, Posted
      <4> QED
        BY <4>1 DEF RedeemedUnits, Redeemed
    <3> QED
      BY <1>1, <1>3, <1>6, <2>2, <3>1
  <2> QED
    BY <2>1, <2>2
<1>8. UnitsShortByRedemptions'
  BY <1>1, <1>7 DEF UnitsShortByRedemptions, MarketInv, Posted
<1> QED
  BY <1>2, <1>5, <1>8 DEF MarketInv

(* A journal of two legs, account by account.                              *)
LEMMA MoveEffects ==
  ASSUME NEW from \in Accounts, NEW to \in Accounts, from # to, NEW n \in Int
  PROVE  /\ Move(from, to, n) \in Effects
         /\ Move(from, to, n)[from] = -n /\ Move(from, to, n)[to] = n
         /\ \A a \in Accounts \ {from, to} : Move(from, to, n)[a] = 0
BY DEF Move, Effects

(* What the journals do to the accounts that count.                        *)
LEMMA TradeEffects ==
  ASSUME NEW k \in MarketKeys, NEW from \in {Subscriber, SubEscrow},
         NEW d, d = Both(Paying(from, k), Move(Treasury, Units, MarketQty[k]))
  PROVE  /\ d \in Effects
         /\ d[from] = -(MarketGross[k] + MarketFee[k])
         /\ \A a \in {Subscriber, SubEscrow} \ {from} : d[a] = 0
         /\ d[Treasury] = -MarketQty[k] /\ d[Units] = MarketQty[k]
<1>1. MarketGross[k] \in Int /\ MarketFee[k] \in Int /\ MarketQty[k] \in Int
  BY MarketAssumption
<1>2. Paying(from, k) \in Effects /\ d \in Effects
  BY <1>1, MoveType, BothType DEF Paying
<1>3. \A a \in Accounts :
        d[a] = (((IF a = Settlement THEN MarketGross[k] ELSE 0) - (IF a = from THEN MarketGross[k] ELSE 0))
             + ((IF a = MarketFees THEN MarketFee[k] ELSE 0) - (IF a = from THEN MarketFee[k] ELSE 0)))
             + ((IF a = Units THEN MarketQty[k] ELSE 0) - (IF a = Treasury THEN MarketQty[k] ELSE 0))
  BY DEF Both, Move, Paying
<1> QED
  BY <1>1, <1>2, <1>3, MarketAssumption

LEMMA SaleEffects ==
  ASSUME NEW k \in MarketKeys, MarketOp[k] = "sell", NEW d,
         d = Both(Both(Move(Settlement, Subscriber, Net(k)), Move(Settlement, MarketFees, MarketFee[k])),
                  Move(Units, Treasury, MarketQty[k]))
  PROVE  /\ d \in Effects
         /\ d[Subscriber] >= 0 /\ d[SubEscrow] = 0
         /\ d[Treasury] = MarketQty[k] /\ d[Units] = -MarketQty[k]
<1>1. Net(k) \in Nat /\ MarketFee[k] \in Int /\ MarketQty[k] \in Int
  BY MarketAssumption, MarketSums
<1>2. d \in Effects
  BY <1>1, MoveType, BothType
<1>3. \A a \in Accounts :
        d[a] = (((IF a = Subscriber THEN Net(k) ELSE 0) - (IF a = Settlement THEN Net(k) ELSE 0))
             + ((IF a = MarketFees THEN MarketFee[k] ELSE 0) - (IF a = Settlement THEN MarketFee[k] ELSE 0)))
             + ((IF a = Treasury THEN MarketQty[k] ELSE 0) - (IF a = Units THEN MarketQty[k] ELSE 0))
  BY DEF Both, Move
<1> QED
  BY <1>1, <1>2, <1>3, MarketAssumption

LEMMA RedeemEffects ==
  ASSUME NEW k \in MarketKeys, NEW d,
         d = Both(Move(Units, Treasury, MarketQty[k]), Move(Settlement, Subscriber, MarketGross[k]))
  PROVE  /\ d \in Effects
         /\ d[Subscriber] >= 0 /\ d[SubEscrow] = 0
         /\ d[Treasury] = MarketQty[k] /\ d[Units] = -MarketQty[k]
<1>1. MarketGross[k] \in Nat /\ MarketQty[k] \in Int
  BY MarketAssumption
<1>2. d \in Effects
  BY <1>1, MoveType, BothType
<1>3. \A a \in Accounts :
        d[a] = ((IF a = Treasury THEN MarketQty[k] ELSE 0) - (IF a = Units THEN MarketQty[k] ELSE 0))
             + ((IF a = Subscriber THEN MarketGross[k] ELSE 0) - (IF a = Settlement THEN MarketGross[k] ELSE 0))
  BY DEF Both, Move
<1> QED
  BY <1>1, <1>2, <1>3, MarketAssumption

LEMMA MarketIdle == Idle \in MarketRequests /\ MarketCall(Idle)
BY DEF MarketRequests, Requests, Idle, Request, MarketCall

LEMMA MarketAccounts ==
  /\ Subscriber \in Accounts /\ SubEscrow \in Accounts /\ Treasury \in Accounts
  /\ Units \in Accounts /\ OtherUnits \in Accounts
  /\ Subscriber # SubEscrow /\ Subscriber # Treasury /\ Subscriber # Units /\ Subscriber # OtherUnits
  /\ SubEscrow # Treasury /\ SubEscrow # Units /\ SubEscrow # OtherUnits
  /\ Treasury # Units /\ Treasury # OtherUnits /\ Units # OtherUnits
BY MarketAssumption

LEMMA MarketFacts ==
  ASSUME MarketInv
  PROVE  /\ bal[Subscriber] \in Nat /\ bal[Treasury] \in Nat /\ bal[Units] \in Int
         /\ \A k \in MarketKeys : MarketQty[k] \in Nat \ {0} /\ MarketGross[k] \in Nat
                                    /\ MarketFee[k] \in Nat /\ Net(k) \in Nat
BY MarketAssumption, MarketSums
   DEF MarketInv, MarketTypeOK, LedgerTypeOK, Effects, SubscriptionsInEscrow

(* The transaction of an order.                                            *)
LEMMA OrderInv ==
  ASSUME MarketInv, NEW s \in Slots, Subscribe(s) \/ Buy(s) \/ Sell(s)
  PROVE  MarketInv'
<1> DEFINE k == call[s].row
<1>1. Leave(s) /\ redemptions' = redemptions /\ call[s].op \in {"subscribe", "buy", "sell"}
  BY DEF Subscribe, Buy, Sell, Order, At
<1>2. k \in MarketKeys /\ MarketOp[k] = call[s].op
  BY <1>1 DEF MarketInv, MarketCalls, MarketCall
<1>3. Becomes(s, Idle)
  BY <1>1 DEF Leave, Becomes
<1>4. PICK q : q = k
  OBVIOUS
<1>5. CASE UNCHANGED <<journals, bal, order>>
  BY <1>1, <1>3, <1>5, MarketIdle, MarketQuietInv DEF MarketInv, MarketTypeOK, UnitsShortByRedemptions
<1>6. ASSUME order[q] = "none", NEW d \in Effects, PostJournal(<<"order", q>>, d),
             NEW st \in {"open", "filled"}, order' = [order EXCEPT ![q] = st],
             d[SubEscrow] = (IF MarketOp[q] = "subscribe" /\ st = "open" THEN Net(q) ELSE 0),
             bal[Subscriber] + d[Subscriber] >= 0, bal[Treasury] + d[Treasury] >= 0,
             d[Units] >= 0 \/ bal[Units] + d[Units] >= 0
      PROVE  MarketInv'
  <2>1. ~Posted(<<"order", q>>) /\ q \in MarketKeys
    BY <1>2, <1>4, <1>6 DEF MarketInv, OrdersPosted
  <2>2. DOMAIN journals' = DOMAIN journals \cup {<<"order", q>>}
    BY <1>6, PostAny DEF MarketInv, MarketTypeOK
  <2>3. order' \in [MarketKeys -> OrderStatuses] /\ order'[q] = st
        /\ \A j \in MarketKeys \ {q} : order'[j] = order[j]
    BY <1>6, <2>1 DEF MarketInv, MarketTypeOK, OrderStatuses
  <2>4. call' \in [Slots -> MarketRequests] /\ call'[s] = Idle
        /\ \A t \in Slots \ {s} : call'[t] = call[t]
    BY <1>3, MarketIdle, BecomesOne DEF MarketInv, MarketTypeOK
  <2>5. MarketCalls'
    BY <2>2, <2>4, MarketIdle DEF MarketInv, MarketCalls, MarketCall, Posted
  <2>6. OrdersPosted'
    <3>1. \A j \in MarketKeys : Posted(<<"order", j>>)' <=> Posted(<<"order", j>>) \/ j = q
      BY <2>2 DEF Posted
    <3>2. \A j \in MarketKeys : /\ Posted(<<"sub-close", j>>)' <=> Posted(<<"sub-close", j>>)
                                /\ Posted(<<"sub-refund", j>>)' <=> Posted(<<"sub-refund", j>>)
      BY <2>2 DEF Posted
    <3> QED
      BY <1>6, <2>3, <3>1, <3>2 DEF MarketInv, OrdersPosted
  <2>7. (OpenSubscription(q)' <=> MarketOp[q] = "subscribe" /\ st = "open") /\ ~OpenSubscription(q)
    BY <1>6, <2>3 DEF OpenSubscription
  <2>8. d[SubEscrow] = (IF OpenSubscription(q)' THEN Net(q) ELSE 0)
                          - (IF OpenSubscription(q) THEN Net(q) ELSE 0)
    BY <1>6, <2>1, <2>7, MarketFacts
  <2>9. \A j \in MarketKeys : <<"order", q>> # <<"redeem", j>>
    OBVIOUS
  <2> QED
    BY <1>1, <1>6, <2>1, <2>3, <2>4, <2>5, <2>6, <2>8, <2>9, MarketPostInv
<1>7. CASE Subscribe(s) /\ ~UNCHANGED <<journals, bal, order>>
  <2> DEFINE d == Move(Subscriber, SubEscrow, Net(q))
  <2>1. /\ bal[Subscriber] >= Net(q) /\ order[q] = "none" /\ PostJournal(<<"order", q>>, d)
        /\ order' = [order EXCEPT ![q] = "open"] /\ MarketOp[q] = "subscribe"
    BY <1>2, <1>4, <1>7 DEF Subscribe, Order, At
  <2>2. /\ d \in Effects /\ d[SubEscrow] = Net(q) /\ d[Subscriber] = -Net(q)
        /\ d[Treasury] = 0 /\ d[Units] = 0
    BY <1>2, <1>4, MarketFacts, MoveEffects, MarketAccounts
  <2> HIDE DEF d
  <2> QED
    BY <1>2, <1>4, <1>6, <2>1, <2>2, MarketFacts
<1>8. CASE Buy(s) /\ ~UNCHANGED <<journals, bal, order>>
  <2> DEFINE d == Both(Paying(Subscriber, q), Move(Treasury, Units, MarketQty[q]))
  <2>1. /\ bal[Subscriber] >= Net(q) /\ bal[Treasury] >= MarketQty[q] /\ order[q] = "none"
        /\ PostJournal(<<"order", q>>, d)
        /\ order' = [order EXCEPT ![q] = "filled"] /\ MarketOp[q] = "buy"
    BY <1>2, <1>4, <1>8 DEF Buy, Order, At
  <2>2. Net(q) = MarketGross[q] + MarketFee[q]
    BY <2>1 DEF Net
  <2>3. /\ d \in Effects /\ d[Subscriber] = -(MarketGross[q] + MarketFee[q]) /\ d[SubEscrow] = 0
        /\ d[Treasury] = -MarketQty[q] /\ d[Units] = MarketQty[q]
    BY <1>2, <1>4, TradeEffects, MarketAssumption
  <2> HIDE DEF d
  <2> QED
    BY <1>2, <1>4, <1>6, <2>1, <2>2, <2>3, MarketFacts
<1>9. CASE Sell(s) /\ ~UNCHANGED <<journals, bal, order>>
  <2> DEFINE d == Both(Both(Move(Settlement, Subscriber, Net(q)), Move(Settlement, MarketFees, MarketFee[q])),
                       Move(Units, Treasury, MarketQty[q]))
  <2>1. /\ bal[Units] >= MarketQty[q] /\ order[q] = "none" /\ PostJournal(<<"order", q>>, d)
        /\ order' = [order EXCEPT ![q] = "filled"] /\ MarketOp[q] = "sell"
    BY <1>2, <1>4, <1>9 DEF Sell, Order, At
  <2>2. /\ d \in Effects /\ d[Subscriber] >= 0 /\ d[SubEscrow] = 0
        /\ d[Treasury] = MarketQty[q] /\ d[Units] = -MarketQty[q]
    BY <1>2, <1>4, <2>1, SaleEffects
  <2> HIDE DEF d
  <2>3. d[Subscriber] \in Int
    BY <2>2, MarketAssumption DEF Effects
  <2> QED
    BY <1>2, <1>4, <1>6, <2>1, <2>2, <2>3, MarketFacts
<1> QED
  BY <1>5, <1>7, <1>8, <1>9

(* What administrators and holders do in one transaction.                  *)
LEMMA SubscriptionEndsInv ==
  ASSUME MarketInv, NEW k \in MarketKeys, CloseSubscription(k) \/ RefundSubscription(k)
  PROVE  MarketInv'
<1>1. ASSUME NEW name \in {"sub-close", "sub-refund"}, NEW d \in Effects,
             OpenSubscription(k), PostJournal(<<name, k>>, d),
             order' = [order EXCEPT ![k] = IF name = "sub-close" THEN "filled" ELSE "refunded"],
             UNCHANGED <<call, redemptions>>,
             d[SubEscrow] = -Net(k),
             bal[Subscriber] + d[Subscriber] >= 0, bal[Treasury] + d[Treasury] >= 0, d[Units] >= 0
      PROVE  MarketInv'
  <2>1. ~Posted(<<name, k>>) /\ order[k] = "open"
    BY <1>1 DEF MarketInv, OrdersPosted, OpenSubscription
  <2>2. DOMAIN journals' = DOMAIN journals \cup {<<name, k>>}
    BY <1>1, PostAny DEF MarketInv, MarketTypeOK
  <2>3. order' \in [MarketKeys -> OrderStatuses]
        /\ order'[k] = (IF name = "sub-close" THEN "filled" ELSE "refunded")
        /\ \A j \in MarketKeys \ {k} : order'[j] = order[j]
    BY <1>1 DEF MarketInv, MarketTypeOK, OrderStatuses
  <2>4. call' \in [Slots -> MarketRequests] /\ MarketCalls'
    BY <1>1, <2>2 DEF MarketInv, MarketTypeOK, MarketCalls, MarketCall, Posted
  <2>5. OrdersPosted'
    <3>1. \A j \in MarketKeys : /\ Posted(<<"order", j>>)' <=> Posted(<<"order", j>>)
                                /\ Posted(<<"sub-close", j>>)' =>
                                     Posted(<<"sub-close", j>>) \/ (j = k /\ name = "sub-close")
                                /\ Posted(<<"sub-refund", j>>)' =>
                                     Posted(<<"sub-refund", j>>) \/ (j = k /\ name = "sub-refund")
      BY <1>1, <2>2 DEF Posted
    <3>2. ASSUME NEW j \in MarketKeys \ {k}
          PROVE  /\ Posted(<<"order", j>>)' <=> order'[j] # "none"
                 /\ Posted(<<"sub-close", j>>)' => order'[j] = "filled"
                 /\ Posted(<<"sub-refund", j>>)' => order'[j] = "refunded"
      BY <2>3, <3>1 DEF MarketInv, OrdersPosted
    <3>3. /\ Posted(<<"order", k>>) /\ ~Posted(<<"sub-close", k>>) /\ ~Posted(<<"sub-refund", k>>)
      BY <2>1 DEF MarketInv, OrdersPosted
    <3>4. /\ Posted(<<"order", k>>)' <=> order'[k] # "none"
          /\ Posted(<<"sub-close", k>>)' => order'[k] = "filled"
          /\ Posted(<<"sub-refund", k>>)' => order'[k] = "refunded"
      <4>1. Posted(<<"order", k>>)'
        BY <3>1, <3>3
      <4>2. CASE name = "sub-close"
        <5>1. ~Posted(<<"sub-refund", k>>)' /\ order'[k] = "filled"
          BY <2>3, <3>1, <3>3, <4>2
        <5> QED
          BY <4>1, <5>1
      <4>3. CASE name = "sub-refund"
        <5>1. ~Posted(<<"sub-close", k>>)' /\ order'[k] = "refunded"
          BY <2>3, <3>1, <3>3, <4>3
        <5> QED
          BY <4>1, <5>1
      <4> QED
        BY <1>1, <4>2, <4>3
    <3> QED
      BY <3>2, <3>4 DEF OrdersPosted
  <2>6. d[SubEscrow] = (IF OpenSubscription(k)' THEN Net(k) ELSE 0)
                          - (IF OpenSubscription(k) THEN Net(k) ELSE 0)
    BY <1>1, <2>3, MarketFacts DEF OpenSubscription
  <2>7. \A j \in MarketKeys : <<name, k>> # <<"redeem", j>>
    BY <1>1
  <2> QED
    BY <1>1, <2>1, <2>3, <2>4, <2>5, <2>6, <2>7, MarketPostInv
<1>2. Net(k) = MarketGross[k] + MarketFee[k] /\ MarketOp[k] = "subscribe"
  BY DEF Net, CloseSubscription, RefundSubscription, OpenSubscription
<1>3. CASE CloseSubscription(k)
  <2> DEFINE d == Both(Paying(SubEscrow, k), Move(Treasury, Units, MarketQty[k]))
  <2>1. /\ d \in Effects /\ d[SubEscrow] = -(MarketGross[k] + MarketFee[k]) /\ d[Subscriber] = 0
        /\ d[Treasury] = -MarketQty[k] /\ d[Units] = MarketQty[k]
    BY TradeEffects, MarketAssumption
  <2>2. /\ OpenSubscription(k) /\ bal[Treasury] >= MarketQty[k] /\ PostJournal(<<"sub-close", k>>, d)
        /\ order' = [order EXCEPT ![k] = IF "sub-close" = "sub-close" THEN "filled" ELSE "refunded"]
        /\ UNCHANGED <<call, redemptions>>
    BY <1>3 DEF CloseSubscription
  <2> HIDE DEF d
  <2> QED
    BY <1>1, <1>2, <2>1, <2>2, MarketFacts
<1>4. CASE RefundSubscription(k)
  <2> DEFINE d == Move(SubEscrow, Subscriber, Net(k))
  <2>1. /\ d \in Effects /\ d[SubEscrow] = -Net(k) /\ d[Subscriber] = Net(k)
        /\ d[Treasury] = 0 /\ d[Units] = 0
    BY MarketFacts, MoveEffects, MarketAccounts
  <2>2. /\ OpenSubscription(k) /\ PostJournal(<<"sub-refund", k>>, d)
        /\ order' = [order EXCEPT ![k] = IF "sub-refund" = "sub-close" THEN "filled" ELSE "refunded"]
        /\ UNCHANGED <<call, redemptions>>
    BY <1>4 DEF RefundSubscription
  <2> HIDE DEF d
  <2> QED
    BY <1>1, <2>1, <2>2, MarketFacts
<1> QED
  BY <1>3, <1>4

LEMMA UnitTransferInv ==
  ASSUME MarketInv, NEW k \in MarketKeys, NEW op \in {"deliver", "transfer"}, NEW from, NEW to,
         (from = Treasury /\ to = Units) \/ (from = Units /\ to = OtherUnits),
         UnitTransfer(k, op, from, to)
  PROVE  MarketInv'
<1> DEFINE d == Move(from, to, MarketQty[k])
<1>1. /\ ~Posted(<<op, k>>) /\ bal[from] >= MarketQty[k] /\ PostJournal(<<op, k>>, d)
      /\ UNCHANGED <<call, order, redemptions>>
  BY DEF UnitTransfer
<1>2. /\ d \in Effects /\ d[SubEscrow] = 0 /\ d[Subscriber] = 0
      /\ d[Treasury] = (IF from = Treasury THEN -MarketQty[k] ELSE 0)
      /\ d[Units] = (IF from = Treasury THEN MarketQty[k] ELSE -MarketQty[k])
  BY MarketFacts, MoveEffects, MarketAccounts
<1> HIDE DEF d
<1>3. DOMAIN journals' = DOMAIN journals \cup {<<op, k>>}
  BY <1>1, <1>2, PostAny DEF MarketInv, MarketTypeOK
<1>4. MarketCalls'
  BY <1>1, <1>3 DEF MarketInv, MarketCalls, MarketCall, Posted
<1>5. OrdersPosted'
  <2>1. \A j \in MarketKeys, name \in {"order", "sub-close", "sub-refund"} :
          Posted(<<name, j>>)' <=> Posted(<<name, j>>)
    BY <1>3 DEF Posted
  <2> QED
    BY <1>1, <2>1 DEF MarketInv, OrdersPosted
<1>6. d[SubEscrow] = (IF OpenSubscription(k)' THEN Net(k) ELSE 0)
                        - (IF OpenSubscription(k) THEN Net(k) ELSE 0)
  BY <1>1, <1>2, MarketFacts DEF OpenSubscription
<1>7. \A j \in MarketKeys : <<op, k>> # <<"redeem", j>>
  OBVIOUS
<1>8. /\ bal[Subscriber] + d[Subscriber] >= 0 /\ bal[Treasury] + d[Treasury] >= 0
      /\ d[Units] >= 0 \/ bal[Units] + d[Units] >= 0
  BY <1>1, <1>2, MarketFacts
<1> QED
  BY <1>1, <1>2, <1>4, <1>5, <1>6, <1>7, <1>8, MarketPostInv DEF MarketInv, MarketTypeOK

(* The journal of a redemption.                                            *)
LEMMA RedeemPostInv ==
  ASSUME MarketInv, NEW s \in Slots, RedeemPost(s)
  PROVE  MarketInv'
<1>1. PICK k \in MarketKeys : k = call[s].row /\ MarketOp[k] = "redeem"
  BY DEF RedeemPost, At, MarketInv, MarketCalls, MarketCall
<1> DEFINE c == Request("redeem", "insert", k, None)
           d == Both(Move(Units, Treasury, MarketQty[k]), Move(Settlement, Subscriber, MarketGross[k]))
<1>2. /\ PostJournal(<<"redeem", k>>, d) /\ Goto(s, "insert") /\ UNCHANGED <<order, redemptions>>
      /\ call[s].op = "redeem"
  BY <1>1 DEF RedeemPost, At
<1>3. /\ d \in Effects /\ d[Subscriber] >= 0 /\ d[SubEscrow] = 0
      /\ d[Treasury] = MarketQty[k] /\ d[Units] = -MarketQty[k]
  BY RedeemEffects
<1> HIDE DEF d
<1>4. call[s].saw = None /\ call[s] \in MarketRequests
  BY DEF MarketInv, MarketTypeOK, MarketRequests, Requests
<1>5. Becomes(s, c)
  BY <1>1, <1>2, <1>4, GotoBecomes DEF MarketInv, MarketTypeOK, MarketRequests
<1>6. c \in MarketRequests /\ c.op = "redeem" /\ c.at = "insert" /\ c.row = k
  BY DEF MarketRequests, Requests, Request
<1> HIDE DEF c
<1>7. call' \in [Slots -> MarketRequests] /\ call'[s] = c
      /\ \A t \in Slots \ {s} : call'[t] = call[t]
  BY <1>5, <1>6, BecomesOne DEF MarketInv, MarketTypeOK
<1>8. CASE Posted(<<"redeem", k>>)
  <2>1. UNCHANGED <<journals, bal, order>>
    BY <1>2, <1>8 DEF PostJournal, ledgerVars
  <2>2. MarketCall(c)
    BY <1>1, <1>6, <1>8 DEF MarketCall
  <2> QED
    BY <1>2, <1>5, <1>6, <2>1, <2>2, MarketQuietInv DEF MarketInv, MarketTypeOK, UnitsShortByRedemptions
<1>9. CASE ~Posted(<<"redeem", k>>)
  <2>1. DOMAIN journals' = DOMAIN journals \cup {<<"redeem", k>>}
    BY <1>2, <1>3, PostAny DEF MarketInv, MarketTypeOK
  <2>2. MarketCalls'
    BY <1>1, <1>6, <1>7, <2>1 DEF MarketInv, MarketCalls, MarketCall, Posted
  <2>3. OrdersPosted'
    <3>1. \A j \in MarketKeys, name \in {"order", "sub-close", "sub-refund"} :
            Posted(<<name, j>>)' <=> Posted(<<name, j>>)
      BY <2>1 DEF Posted
    <3> QED
      BY <1>2, <3>1 DEF MarketInv, OrdersPosted
  <2>4. d[SubEscrow] = (IF OpenSubscription(k)' THEN Net(k) ELSE 0)
                          - (IF OpenSubscription(k) THEN Net(k) ELSE 0)
    BY <1>2, <1>3, MarketFacts DEF OpenSubscription
  <2>5. d[Subscriber] \in Int
    BY <1>3, MarketAssumption DEF Effects
  <2>6. bal[Subscriber] + d[Subscriber] >= 0 /\ bal[Treasury] + d[Treasury] >= 0
    BY <1>3, <2>5, MarketFacts
  <2> QED
    BY <1>2, <1>3, <1>7, <1>9, <2>2, <2>3, <2>4, <2>6, MarketPostInv DEF MarketInv, MarketTypeOK
<1> QED
  BY <1>8, <1>9

LEMMA MarketStepInv == MarketInv /\ [MarketNext]_marketVars => MarketInv'
<1> SUFFICES ASSUME MarketInv, [MarketNext]_marketVars PROVE MarketInv'
  OBVIOUS
<1>1. CASE UNCHANGED marketVars
  BY <1>1 DEF marketVars, MarketInv, MarketTypeOK, LedgerTypeOK, MarketCalls, MarketCall, OrdersPosted,
              SubscriptionsInEscrow, UnitsShortByRedemptions, RedeemedUnits, OpenSubscription, Posted
<1>2. ASSUME NEW s \in Slots, NEW k \in MarketKeys, OrderCall(s, k) \/ RedeemCall(s, k)
      PROVE  MarketInv'
  <2>1. PICK op \in {"subscribe", "buy", "sell", "redeem"}, at \in {"commit", "post"} :
          Becomes(s, Request(op, at, k, None)) /\ MarketOp[k] = op
    BY <1>2 DEF OrderCall, RedeemCall, Begin, Becomes
  <2>2. Request(op, at, k, None) \in MarketRequests /\ MarketCall(Request(op, at, k, None))
    BY <2>1 DEF MarketRequests, Requests, Request, MarketCall
  <2>3. UNCHANGED <<journals, bal, order, redemptions>>
    BY <1>2 DEF OrderCall, RedeemCall
  <2> QED
    BY <2>1, <2>2, <2>3, MarketQuietInv DEF MarketInv, MarketTypeOK, UnitsShortByRedemptions
<1>3. ASSUME NEW s \in Slots, RedeemInsert(s)
      PROVE  MarketInv'
  <2>1. /\ Becomes(s, Idle) /\ UNCHANGED <<journals, bal, order>>
        /\ redemptions' = [redemptions EXCEPT ![call[s].row] = @ + 1]
    BY <1>3 DEF RedeemInsert, Leave, Becomes
  <2>2. call[s].row \in MarketKeys /\ Posted(<<"redeem", call[s].row>>)
    BY <1>3 DEF RedeemInsert, At, MarketInv, MarketCalls, MarketCall
  <2>3. /\ redemptions' \in [MarketKeys -> Nat]
        /\ \A j \in MarketKeys : redemptions'[j] > 0 => Posted(<<"redeem", j>>)
    BY <2>1, <2>2 DEF MarketInv, MarketTypeOK, UnitsShortByRedemptions
  <2> QED
    BY <2>1, <2>3, MarketIdle, MarketQuietInv
<1>4. ASSUME NEW s \in Slots, Dies(s), UNCHANGED <<order, redemptions>>
      PROVE  MarketInv'
  <2>1. Becomes(s, Idle) /\ UNCHANGED <<journals, bal, order>>
    BY <1>4 DEF Dies, Leave, Becomes, ledgerVars
  <2> QED
    BY <1>4, <2>1, MarketIdle, MarketQuietInv DEF MarketInv, MarketTypeOK, UnitsShortByRedemptions
<1>5. ASSUME NEW k \in MarketKeys, DeliverFromTreasury(k) \/ TransferAsset(k)
      PROVE  MarketInv'
  <2>1. CASE DeliverFromTreasury(k)
    <3>1. UnitTransfer(k, "deliver", Treasury, Units)
      BY <2>1 DEF DeliverFromTreasury
    <3> QED
      BY <3>1, UnitTransferInv
  <2>2. CASE TransferAsset(k)
    <3>1. UnitTransfer(k, "transfer", Units, OtherUnits)
      BY <2>2 DEF TransferAsset
    <3> QED
      BY <3>1, UnitTransferInv
  <2> QED
    BY <1>5, <2>1, <2>2
<1> QED
  BY <1>1, <1>2, <1>3, <1>4, <1>5, OrderInv, SubscriptionEndsInv, RedeemPostInv
     DEF MarketNext

-----------------------------------------------------------------------------
(* Equity: units follow vesting.                                           *)

LEMMA DivGrows ==
  ASSUME NEW a \in Nat, NEW b \in Nat, a <= b, NEW d \in Nat \ {0}
  PROVE  a \div d <= b \div d
<1>1. PICK q \in Nat : q = a \div d
  OBVIOUS
<1>2. PICK r \in Nat : r = b \div d
  OBVIOUS
<1>3. d * q <= a
  BY <1>1
<1>4. b < d * (r + 1)
  BY <1>2
<1>5. ASSUME r + 1 <= q PROVE d * (r + 1) <= d * q
  BY <1>5
<1> QED
  BY <1>1, <1>2, <1>3, <1>4, <1>5

(* The schedule never takes back what has vested.                          *)
LEMMA VestingGrows ==
  ASSUME NEW g \in Grants, NEW m \in Nat
  PROVE  /\ VestedUnits(g, m) \in Nat
         /\ VestedUnits(g, m) <= VestedUnits(g, m + 1)
<1>1. UnitsTotal[g] \in Nat /\ DurationMonths \in Nat \ {0} /\ CliffMonths \in Nat
  BY EquityAssumption
<1>2. PICK u \in Nat, d \in Nat \ {0} : u = UnitsTotal[g] /\ d = DurationMonths
  BY <1>1
<1>3. \A n \in Nat : (u * n) \div d \in Nat
  BY <1>2
<1>4. (u * m) \div d <= (u * (m + 1)) \div d
  <2>1. u * m <= u * (m + 1) /\ u * m \in Nat /\ u * (m + 1) \in Nat
    OBVIOUS
  <2> QED
    BY <2>1, DivGrows
<1>5. ASSUME m < d PROVE (u * m) \div d <= u
  <2>1. u * m <= u * d /\ u * m \in Nat /\ u * d \in Nat
    BY <1>5
  <2>2. (u * m) \div d <= (u * d) \div d
    BY <2>1, DivGrows
  <2>3. (u * d) \div d = u
    OBVIOUS
  <2> QED
    BY <2>2, <2>3
<1> QED
  BY <1>1, <1>2, <1>3, <1>4, <1>5 DEF VestedUnits

EquityViews == {None} \cup {<<x>> : x \in Int} \cup {<<x, y>> : x \in Nat, y \in Nat}

EquityRequests ==
  Requests({"idle", "grant", "release", "exercise"}, {"idle", "list", "insert", "post", "mark"},
           Grants \cup Exercises \cup {None}, EquityViews)

EquityTypeOK ==
  /\ LedgerTypeOK
  /\ IsFiniteSet(DOMAIN journals)
  /\ call \in [Slots -> EquityRequests]
  /\ released \in [Grants -> Nat \cup {None}]
  /\ month \in Nat

(* What a request knows: a release or an exercise writes what had vested   *)
(* when it began.                                                          *)
EquityCall(c) ==
  /\ c.op = "idle" => c = Idle
  /\ c.op = "grant" => c.row \in Grants /\ released[c.row] = None
  /\ c.op \in {"release", "exercise"} => c.at \in {"post", "mark"}
  /\ c.op = "release" =>
       /\ c.row \in Granted /\ AwardType[c.row] = "units"
       /\ c.saw[1] \in Nat /\ c.saw[2] \in Nat
       /\ c.saw[1] <= VestedUnits(c.row, month)
  /\ c.op = "exercise" =>
       /\ c.row \in Exercises /\ ExerciseGrant[c.row] \in Granted
       /\ c.saw[1] \in Nat
       /\ c.saw[1] + ExerciseQty[c.row] <= VestedUnits(ExerciseGrant[c.row], month)

EquityCalls == \A s \in Slots : EquityCall(call[s])

(* An id is that of one grant.                                             *)
GrantsAlone ==
  \A s, t \in Slots : call[s].op = "grant" /\ call[t].op = "grant" /\ call[s].row = call[t].row => s = t

Releases(g) == {j \in DOMAIN journals : j[1] = "vest" /\ j[2] = g}
Exercised(g) == {k \in Exercises : ExerciseGrant[k] = g /\ Posted(<<"option", k>>)}
UnitsOf(g) == [j \in Releases(g) |-> journals[j][EmployeeUnits]]

RowsVested ==
  \A g \in Grants :
    /\ g \in Granted => released[g] <= VestedUnits(g, month)
    /\ g \notin Granted => Releases(g) = {} /\ Exercised(g) = {}

(* While calls on a grant follow one another: the row tells what was       *)
(* delivered, and the call under way accounts for the difference.          *)
VestedUpTo(g, n) == \A v \in Nat : Posted(<<"vest", g, v>>) => v <= n

EvenRow(g) ==
  g \in Granted => /\ Delivered(g) <= released[g]
                   /\ AwardType[g] = "units" => Delivered(g) = released[g]
                   /\ VestedUpTo(g, released[g])

EvenCall(g, c) ==
  /\ c.op \in {"release", "exercise"} /\ c.at = "post" => EvenRow(g)
  /\ c.op = "release" /\ c.at = "post" => released[g] < c.saw[1] /\ c.saw[2] = c.saw[1] - released[g]
  /\ c.op = "release" /\ c.at = "mark" => Delivered(g) = c.saw[1] /\ VestedUpTo(g, c.saw[1])
  /\ c.op = "exercise" => c.saw[1] = released[g]
  /\ c.op = "exercise" /\ c.at = "mark" => /\ Delivered(g) <= c.saw[1] + ExerciseQty[c.row]
                                           /\ VestedUpTo(g, released[g])

OnGrant(c, g) == c # Idle /\ g = IF c.op = "exercise" THEN ExerciseGrant[c.row] ELSE c.row

EvenOn(g) ==
  /\ \A s, t \in Slots : OnGrant(call[s], g) /\ OnGrant(call[t], g) => s = t
  /\ \A s \in Slots : OnGrant(call[s], g) => EvenCall(g, call[s])
  /\ (\A s \in Slots : ~OnGrant(call[s], g)) => EvenRow(g)

EquityInv ==
  /\ EquityTypeOK
  /\ EquityCalls
  /\ GrantsAlone
  /\ RowsVested
  /\ \A g \in Grants : g \notin muddled => EvenOn(g)

LEMMA DeliveredIs ==
  ASSUME EquityTypeOK, NEW g \in Grants
  PROVE  /\ Delivered(g) = SumFunctionOnSet(UnitsOf(g), Releases(g))
                             + SumFunctionOnSet(ExerciseQty, Exercised(g))
         /\ Delivered(g) \in Int
         /\ IsFiniteSet(Releases(g)) /\ IsFiniteSet(Exercised(g))
         /\ \A j \in Releases(g) : UnitsOf(g)[j] \in Int
         /\ \A k \in Exercises : ExerciseQty[k] \in Nat
         /\ SumFunctionOnSet(UnitsOf(g), Releases(g)) \in Int
         /\ SumFunctionOnSet(ExerciseQty, Exercised(g)) \in Int
<1>1. Delivered(g) = SumFunctionOnSet(UnitsOf(g), Releases(g)) + SumFunctionOnSet(ExerciseQty, Exercised(g))
  BY DEF Delivered, UnitsOf, Releases, Exercised
<1>2. IsFiniteSet(Releases(g)) /\ IsFiniteSet(Exercised(g))
  <2>1. Releases(g) \subseteq DOMAIN journals /\ Exercised(g) \subseteq Exercises
    BY DEF Releases, Exercised
  <2> QED
    BY <2>1, FS_Subset, EquityAssumption DEF EquityTypeOK
<1>3. \A j \in Releases(g) : UnitsOf(g)[j] \in Int
  BY EquityAssumption DEF UnitsOf, Releases, EquityTypeOK, LedgerTypeOK, Effects
<1>4. \A k \in Exercises : ExerciseQty[k] \in Nat
  BY EquityAssumption
<1>5. SumFunctionOnSet(UnitsOf(g), Releases(g)) \in Int
  BY <1>2, <1>3, SumType
<1>6. SumFunctionOnSet(ExerciseQty, Exercised(g)) \in Int
  <2>1. \A k \in Exercised(g) : ExerciseQty[k] \in Int
    BY <1>4 DEF Exercised
  <2> QED
    BY <1>2, <2>1, SumType
<1> QED
  BY <1>1, <1>2, <1>3, <1>4, <1>5, <1>6

LEMMA NothingDelivered ==
  ASSUME EquityTypeOK, NEW g \in Grants, Releases(g) = {}, Exercised(g) = {}
  PROVE  Delivered(g) = 0 /\ VestedUpTo(g, 0)
<1>1. Delivered(g) = 0
  <2>1. SumFunctionOnSet(UnitsOf(g), Releases(g)) = 0
    <3>1. PICK f : f = UnitsOf(g)
      OBVIOUS
    <3> QED
      BY <3>1, SumEmpty
  <2>2. SumFunctionOnSet(ExerciseQty, Exercised(g)) = 0
    BY SumEmpty
  <2>3. Delivered(g) = SumFunctionOnSet(UnitsOf(g), Releases(g)) + SumFunctionOnSet(ExerciseQty, Exercised(g))
    BY DeliveredIs
  <2>4. Delivered(g) = 0 + 0
    BY <2>1, <2>2, <2>3
  <2> QED
    BY <2>4
<1>2. VestedUpTo(g, 0)
  <2>1. ASSUME NEW v \in Nat, Posted(<<"vest", g, v>>) PROVE FALSE
    <3>1. <<"vest", g, v>> \in Releases(g)
      BY <2>1 DEF Releases, Posted
    <3> QED
      BY <3>1
  <2> QED
    BY <2>1 DEF VestedUpTo
<1> QED
  BY <1>1, <1>2

LEMMA DeliveredStays ==
  ASSUME EquityTypeOK, NEW h \in Grants,
         Releases(h)' = Releases(h), Exercised(h)' = Exercised(h),
         \A j \in Releases(h) : journals'[j] = journals[j]
  PROVE  /\ Delivered(h)' = Delivered(h)
         /\ \A v \in Nat : Posted(<<"vest", h, v>>)' <=> Posted(<<"vest", h, v>>)
<1>1. UnitsOf(h)' = UnitsOf(h)
  BY DEF UnitsOf
<1>2. Delivered(h)' = SumFunctionOnSet(UnitsOf(h)', Releases(h)')
                        + SumFunctionOnSet(ExerciseQty, Exercised(h)')
  BY DEF Delivered, UnitsOf, Releases, Exercised
<1>3. \A v \in Nat : /\ Posted(<<"vest", h, v>>) <=> <<"vest", h, v>> \in Releases(h)
                     /\ Posted(<<"vest", h, v>>)' <=> <<"vest", h, v>> \in Releases(h)'
  BY DEF Releases, Posted
<1> QED
  BY <1>1, <1>2, <1>3, DeliveredIs

(* The journal of a release, and that of an exercise.                      *)
LEMMA ReleasePosted ==
  ASSUME EquityTypeOK, NEW g \in Grants, NEW v \in Nat, NEW u \in Nat, ~Posted(<<"vest", g, v>>),
         PostJournal(<<"vest", g, v>>, Move(GrantPool, EmployeeUnits, u))
  PROVE  /\ LedgerTypeOK' /\ IsFiniteSet(DOMAIN journals)'
         /\ \A h \in Grants \ {g} : /\ Releases(h)' = Releases(h) /\ Exercised(h)' = Exercised(h)
                                    /\ \A j \in Releases(h) : journals'[j] = journals[j]
         /\ Delivered(g)' = Delivered(g) + u
         /\ \A w \in Nat : Posted(<<"vest", g, w>>)' => Posted(<<"vest", g, w>>) \/ w = v
<1> DEFINE key == <<"vest", g, v>>
           d == Move(GrantPool, EmployeeUnits, u)
<1>1. d \in Effects /\ d[EmployeeUnits] = u
  <2>1. GrantPool \in Accounts /\ EmployeeUnits \in Accounts /\ GrantPool # EmployeeUnits
    BY EquityAssumption
  <2> QED
    BY <2>1, MoveEffects
<1>2. /\ LedgerTypeOK' /\ DOMAIN journals' = DOMAIN journals \cup {key} /\ journals'[key] = d
      /\ \A j \in DOMAIN journals : journals'[j] = journals[j]
  BY <1>1, PostFresh DEF EquityTypeOK
<1> HIDE DEF d
<1>3. IsFiniteSet(DOMAIN journals)'
  BY <1>2, FS_AddElement DEF EquityTypeOK
<1>4. key \notin DOMAIN journals /\ key[1] = "vest" /\ key[2] = g /\ \A k : key # <<"option", k>>
  BY DEF Posted
<1>5. \A h \in Grants : Exercised(h)' = Exercised(h)
  BY <1>2, <1>4 DEF Exercised, Posted
<1>6. \A h \in Grants \ {g} : Releases(h)' = Releases(h)
  BY <1>2, <1>4 DEF Releases
<1>7. Releases(g)' = Releases(g) \cup {key} /\ key \notin Releases(g)
  BY <1>2, <1>4 DEF Releases
<1>8. SumFunctionOnSet(UnitsOf(g)', Releases(g)') = SumFunctionOnSet(UnitsOf(g), Releases(g)) + u
  <2>1. /\ \A j \in Releases(g) : UnitsOf(g)'[j] = UnitsOf(g)[j]
        /\ UnitsOf(g)'[key] = u
    BY <1>1, <1>2, <1>7 DEF UnitsOf, Releases
  <2>2. PICK f : f = UnitsOf(g)'
    OBVIOUS
  <2>3. PICK e : e = UnitsOf(g)
    OBVIOUS
  <2>4. PICK S : S = Releases(g)
    OBVIOUS
  <2>5. IsFiniteSet(S) /\ (\A j \in S : f[j] = e[j] /\ e[j] \in Int) /\ f[key] = u /\ key \notin S
    BY <1>7, <2>1, <2>2, <2>3, <2>4, DeliveredIs
  <2>6. SumFunctionOnSet(f, S \cup {key}) = SumFunctionOnSet(f, S) + f[key]
    BY <2>5, SumAdd
  <2>7. SumFunctionOnSet(f, S) = SumFunctionOnSet(e, S)
    BY <2>5, SumSame
  <2> QED
    BY <1>7, <2>2, <2>3, <2>4, <2>5, <2>6, <2>7
<1>9. Delivered(g)' = SumFunctionOnSet(UnitsOf(g)', Releases(g)')
                        + SumFunctionOnSet(ExerciseQty, Exercised(g)')
  BY DEF Delivered, UnitsOf, Releases, Exercised
<1>10. Delivered(g)' = Delivered(g) + u
  BY <1>5, <1>8, <1>9, DeliveredIs
<1>11. \A w \in Nat : Posted(<<"vest", g, w>>)' => Posted(<<"vest", g, w>>) \/ w = v
  BY <1>2 DEF Posted
<1> QED
  BY <1>2, <1>3, <1>5, <1>6, <1>10, <1>11 DEF Releases

LEMMA ExercisePosted ==
  ASSUME EquityTypeOK, NEW k \in Exercises, NEW d \in Effects, ~Posted(<<"option", k>>),
         PostJournal(<<"option", k>>, d), NEW g \in Grants, g = ExerciseGrant[k]
  PROVE  /\ LedgerTypeOK' /\ IsFiniteSet(DOMAIN journals)'
         /\ \A h \in Grants \ {g} : /\ Releases(h)' = Releases(h) /\ Exercised(h)' = Exercised(h)
                                    /\ \A j \in Releases(h) : journals'[j] = journals[j]
         /\ Delivered(g)' = Delivered(g) + ExerciseQty[k]
         /\ \A w \in Nat : Posted(<<"vest", g, w>>)' => Posted(<<"vest", g, w>>)
<1> DEFINE key == <<"option", k>>
<1>1. /\ LedgerTypeOK' /\ DOMAIN journals' = DOMAIN journals \cup {key}
      /\ \A j \in DOMAIN journals : journals'[j] = journals[j]
  BY PostFresh DEF EquityTypeOK
<1>2. IsFiniteSet(DOMAIN journals)'
  <2>1. IsFiniteSet(DOMAIN journals \cup {key})
    BY FS_AddElement DEF EquityTypeOK
  <2> QED
    BY <1>1, <2>1
<1>3. key \notin DOMAIN journals /\ key[1] # "vest"
  BY DEF Posted
<1>4. \A h \in Grants : Releases(h)' = Releases(h) /\ \A j \in Releases(h) : journals'[j] = journals[j]
  BY <1>1, <1>3 DEF Releases
<1>5. \A h \in Grants \ {g} : Exercised(h)' = Exercised(h)
  BY <1>1 DEF Exercised, Posted
<1>6. Exercised(g)' = Exercised(g) \cup {k} /\ k \notin Exercised(g)
  BY <1>1 DEF Exercised, Posted
<1>7. SumFunctionOnSet(ExerciseQty, Exercised(g)') =
        SumFunctionOnSet(ExerciseQty, Exercised(g)) + ExerciseQty[k]
  <2>1. PICK S : S = Exercised(g)
    OBVIOUS
  <2>2. IsFiniteSet(S) /\ (\A j \in S : ExerciseQty[j] \in Int) /\ ExerciseQty[k] \in Int /\ k \notin S
    <3>1. IsFiniteSet(S)
      BY <2>1, DeliveredIs
    <3>2. S \subseteq Exercises /\ k \notin S
      BY <1>6, <2>1 DEF Exercised
    <3>3. \A j \in Exercises : ExerciseQty[j] \in Int
      BY DeliveredIs
    <3> QED
      BY <3>1, <3>2, <3>3
  <2>3. SumFunctionOnSet(ExerciseQty, S \cup {k}) = SumFunctionOnSet(ExerciseQty, S) + ExerciseQty[k]
    BY <2>2, SumAdd
  <2> QED
    BY <1>6, <2>1, <2>3
<1>8. UnitsOf(g)' = UnitsOf(g)
  BY <1>4 DEF UnitsOf
<1>9. Delivered(g)' = SumFunctionOnSet(UnitsOf(g)', Releases(g)')
                        + SumFunctionOnSet(ExerciseQty, Exercised(g)')
  BY DEF Delivered, UnitsOf, Releases, Exercised
<1>10. Delivered(g)' = Delivered(g) + ExerciseQty[k]
  <2>1. ExerciseQty[k] \in Int
    BY DeliveredIs
  <2> QED
    BY <1>4, <1>7, <1>8, <1>9, <2>1, DeliveredIs
<1>11. \A w \in Nat : Posted(<<"vest", g, w>>)' => Posted(<<"vest", g, w>>)
  BY <1>1 DEF Posted
<1> QED
  BY <1>1, <1>2, <1>4, <1>5, <1>10, <1>11

LEMMA EquityInitInv == EquityInit => EquityInv
<1> SUFFICES ASSUME EquityInit PROVE EquityInv
  OBVIOUS
<1> USE DEF EquityInit, ServiceInit, LedgerInit
<1>1. LedgerTypeOK /\ IsFiniteSet(DOMAIN journals)
  BY OpeningAssumption, FS_EmptySet DEF LedgerTypeOK, Effects
<1>2. EquityTypeOK
  BY <1>1 DEF EquityTypeOK, EquityRequests, EquityViews, Requests, Idle, Request
<1>3. EquityCalls /\ GrantsAlone
  BY DEF EquityCalls, EquityCall, GrantsAlone, Idle, Request
<1>4. \A g \in Grants : g \notin Granted /\ Releases(g) = {} /\ Exercised(g) = {}
  BY DEF Granted, Releases, Exercised, Posted
<1>5. \A g \in Grants : EvenOn(g)
  BY <1>4 DEF EvenOn, EvenRow, OnGrant
<1> QED
  BY <1>2, <1>3, <1>4, <1>5 DEF EquityInv, RowsVested

(* One call moves, about g: what has to be shown of g.                     *)
LEMMA EquityMoves ==
  ASSUME EquityInv, NEW s \in Slots, NEW g \in Grants, NEW c \in EquityRequests, Becomes(s, c),
         call[s] # Idle \/ c # Idle, call[s] = Idle \/ OnGrant(call[s], g), c = Idle \/ OnGrant(c, g),
         LedgerTypeOK', IsFiniteSet(DOMAIN journals)', month' = month,
         \A h : h \in muddled => h \in muddled',
         NEW n \in Nat \cup {None}, released' = [released EXCEPT ![g] = n],
         g \in Granted => n # None, n # None => n <= VestedUnits(g, month),
         EquityCall(c)',
         c.op = "grant" \/ (n # None /\ g \notin Granted) =>
           \A t \in Slots \ {s} : call[t].op = "grant" => call[t].row # g,
         \A h \in Grants \ {g} : /\ Releases(h)' = Releases(h) /\ Exercised(h)' = Exercised(h)
                                 /\ \A j \in Releases(h) : journals'[j] = journals[j],
         n = None => Releases(g)' = {} /\ Exercised(g)' = {},
         call[s] = Idle /\ c # Idle /\ g \notin muddled' => \A t \in Slots : ~OnGrant(call[t], g),
         g \notin muddled' => IF c = Idle THEN EvenRow(g)' ELSE EvenCall(g, c)'
  PROVE  EquityInv'
<1>1. /\ call' \in [Slots -> EquityRequests] /\ call'[s] = c
      /\ \A t \in Slots \ {s} : call'[t] = call[t]
  <2>1. call \in [Slots -> EquityRequests]
    BY DEF EquityInv, EquityTypeOK
  <2>2. call' = [call EXCEPT ![s] = c]
    BY DEF Becomes
  <2> QED
    BY <2>1, <2>2
<1>2. /\ released' \in [Grants -> Nat \cup {None}] /\ released'[g] = n
      /\ \A h \in Grants \ {g} : released'[h] = released[h]
  BY DEF EquityInv, EquityTypeOK
<1>3. EquityTypeOK'
  BY <1>1, <1>2 DEF EquityInv, EquityTypeOK
<1>4. /\ \A h \in Granted : h \in Granted'
      /\ g \in Granted' <=> n # None
      /\ \A h \in Grants \ {g} : h \in Granted' <=> h \in Granted
  BY <1>2 DEF Granted
<1>5. EquityCalls'
  <2>1. ASSUME NEW t \in Slots \ {s} PROVE EquityCall(call[t])'
    <3>1. EquityCall(call[t]) /\ call'[t] = call[t]
      BY <1>1 DEF EquityInv, EquityCalls
    <3>2. PICK d : d = call[t]
      OBVIOUS
    <3>3. EquityCall(d)
      BY <3>1, <3>2
    <3>4. d.op = "grant" => released'[d.row] = None
      <4>1. CASE d.row = g
        <5>1. d.op = "grant" => released[g] = None /\ g \notin Granted
          BY <3>3, <4>1 DEF EquityCall, Granted
        <5> QED
          BY <1>2, <3>2, <4>1, <5>1
      <4>2. CASE d.row # g
        BY <1>2, <3>3, <4>2 DEF EquityCall
      <4> QED
        BY <4>1, <4>2
    <3>5. EquityCall(d)'
      BY <1>4, <3>3, <3>4 DEF EquityCall, VestedUnits
    <3> QED
      BY <3>1, <3>2, <3>5
  <2> QED
    BY <1>1, <2>1 DEF EquityCalls
<1>6. GrantsAlone'
  <2>1. c.op = "grant" => c.row = g
    BY DEF OnGrant, Idle, Request
  <2>2. \A t \in Slots \ {s} : call'[t].op = "grant" /\ c.op = "grant" => call'[t].row # c.row
    BY <1>1, <2>1
  <2> QED
    BY <1>1, <2>2 DEF GrantsAlone, EquityInv
<1>7. RowsVested'
  <2>1. ASSUME NEW h \in Grants \ {g}
        PROVE  /\ h \in Granted' => released'[h] <= VestedUnits(h, month')
               /\ h \notin Granted' => Releases(h)' = {} /\ Exercised(h)' = {}
    BY <1>2, <1>4 DEF EquityInv, RowsVested
  <2>2. /\ g \in Granted' => released'[g] <= VestedUnits(g, month')
        /\ g \notin Granted' => Releases(g)' = {} /\ Exercised(g)' = {}
    BY <1>2, <1>4
  <2> QED
    BY <2>1, <2>2 DEF RowsVested, VestedUnits
<1>8. ASSUME NEW h \in Grants \ {g}, h \notin muddled' PROVE EvenOn(h)'
  <2>1. EvenOn(h)
    BY <1>8 DEF EquityInv
  <2>2. /\ ~OnGrant(c, h) /\ ~OnGrant(call[s], h)
    BY DEF OnGrant
  <2>3. \A t \in Slots : OnGrant(call[t], h)' <=> OnGrant(call[t], h)
    BY <1>1, <2>2 DEF OnGrant
  <2>4. Delivered(h)' = Delivered(h)
    BY DeliveredStays DEF EquityInv
  <2>5. \A v \in Nat : Posted(<<"vest", h, v>>)' <=> Posted(<<"vest", h, v>>)
    BY DeliveredStays DEF EquityInv
  <2>6. EvenRow(h)' <=> EvenRow(h)
    BY <1>2, <1>4, <2>4, <2>5 DEF EvenRow, VestedUpTo
  <2>7. ASSUME NEW t \in Slots, OnGrant(call[t], h) PROVE EvenCall(h, call[t])'
    <3>1. PICK d : d = call[t]
      OBVIOUS
    <3>2. call'[t] = d /\ EvenCall(h, d)
      BY <1>1, <2>1, <2>2, <2>7, <3>1 DEF EvenOn
    <3>3. EvenCall(h, d)'
      BY <1>2, <2>4, <2>5, <2>6, <3>2 DEF EvenCall, VestedUpTo
    <3> QED
      BY <3>1, <3>2, <3>3
  <2> QED
    BY <2>1, <2>3, <2>6, <2>7 DEF EvenOn
<1>9. ASSUME g \notin muddled' PROVE EvenOn(g)'
  <2>1. \A t \in Slots \ {s} : ~OnGrant(call[t], g)
    <3>1. CASE call[s] = Idle
      BY <1>9, <3>1
    <3>2. CASE call[s] # Idle
      <4>1. OnGrant(call[s], g) /\ EvenOn(g)
        BY <1>9, <3>2 DEF EquityInv
      <4> QED
        BY <4>1 DEF EvenOn
    <3> QED
      BY <3>1, <3>2
  <2>2. \A t \in Slots \ {s} : ~OnGrant(call[t], g)'
    BY <1>1, <2>1 DEF OnGrant
  <2>3. CASE c = Idle
    <3>1. ~OnGrant(call[s], g)'
      BY <1>1, <2>3 DEF OnGrant
    <3>2. EvenRow(g)'
      BY <1>9, <2>3
    <3> QED
      BY <2>2, <3>1, <3>2 DEF EvenOn
  <2>4. CASE c # Idle
    <3>1. OnGrant(call[s], g)'
      BY <1>1, <2>4 DEF OnGrant
    <3>2. EvenCall(g, c)'
      BY <1>9, <2>4
    <3> QED
      BY <1>1, <2>2, <3>1, <3>2 DEF EvenOn
  <2> QED
    BY <2>3, <2>4
<1> QED
  BY <1>3, <1>5, <1>6, <1>7, <1>8, <1>9 DEF EquityInv

LEMMA EquityIdle == Idle \in EquityRequests /\ EquityCall(Idle) /\ \A g \in Grants : ~OnGrant(Idle, g)
BY DEF EquityRequests, EquityViews, Requests, Idle, Request, EquityCall, OnGrant

(* A step that posts nothing leaves what was delivered.                    *)
LEMMA DeliveredFixed ==
  ASSUME EquityTypeOK, UNCHANGED <<journals, bal>>, NEW h \in Grants
  PROVE  /\ Delivered(h)' = Delivered(h)
         /\ \A v \in Nat : Posted(<<"vest", h, v>>)' <=> Posted(<<"vest", h, v>>)
<1>1. Releases(h)' = Releases(h) /\ Exercised(h)' = Exercised(h) /\ journals' = journals
  BY DEF Releases, Exercised, Posted
<1> QED
  BY <1>1, DeliveredStays

LEMMA DeliveredUnmoved ==
  ASSUME EquityTypeOK, UNCHANGED <<journals, bal>>
  PROVE  /\ LedgerTypeOK' /\ IsFiniteSet(DOMAIN journals)'
         /\ \A h \in Grants : /\ Releases(h)' = Releases(h) /\ Exercised(h)' = Exercised(h)
                             /\ \A j \in Releases(h) : journals'[j] = journals[j]
<1>1. LedgerTypeOK' /\ IsFiniteSet(DOMAIN journals)'
  BY DEF EquityTypeOK, LedgerTypeOK
<1>2. \A h \in Grants : /\ Releases(h)' = Releases(h) /\ Exercised(h)' = Exercised(h)
                        /\ \A j \in Releases(h) : journals'[j] = journals[j]
  BY DEF Releases, Exercised, Posted
<1> QED
  BY <1>1, <1>2

(* The same for a step that posts nothing.                                 *)
LEMMA EquityQuiet ==
  ASSUME EquityInv, NEW s \in Slots, NEW g \in Grants, NEW c \in EquityRequests, Becomes(s, c),
         call[s] # Idle \/ c # Idle, call[s] = Idle \/ OnGrant(call[s], g), c = Idle \/ OnGrant(c, g),
         UNCHANGED <<journals, bal, month>>,
         \A h : h \in muddled => h \in muddled',
         NEW n \in Nat \cup {None}, released' = [released EXCEPT ![g] = n],
         n = None \/ (n # None /\ n <= VestedUnits(g, month)), n = None => g \notin Granted,
         EquityCall(c)',
         c.op = "grant" \/ (n # None /\ g \notin Granted) =>
           \A t \in Slots \ {s} : call[t].op = "grant" => call[t].row # g,
         call[s] = Idle /\ c # Idle /\ g \notin muddled' => \A t \in Slots : ~OnGrant(call[t], g),
         g \notin muddled' => IF c = Idle THEN EvenRow(g)' ELSE EvenCall(g, c)'
  PROVE  EquityInv'
<1>1. EquityTypeOK /\ UNCHANGED <<journals, bal>> /\ month' = month
  BY DEF EquityInv
<1>2. /\ LedgerTypeOK' /\ IsFiniteSet(DOMAIN journals)'
      /\ \A h \in Grants \ {g} : /\ Releases(h)' = Releases(h) /\ Exercised(h)' = Exercised(h)
                                 /\ \A j \in Releases(h) : journals'[j] = journals[j]
  BY <1>1, DeliveredUnmoved
<1>3. n = None => Releases(g)' = {} /\ Exercised(g)' = {}
  BY <1>1, DeliveredUnmoved DEF EquityInv, RowsVested
<1>4. (g \in Granted => n # None) /\ (n # None => n <= VestedUnits(g, month))
  OBVIOUS
<1> QED
  BY <1>1, <1>2, <1>3, <1>4, EquityMoves

(* What a call about g knows when it is the only one.                      *)
LEMMA EvenIs ==
  ASSUME EquityInv, NEW g \in Grants, g \notin muddled
  PROVE  /\ \A s \in Slots : OnGrant(call[s], g) => EvenCall(g, call[s])
         /\ (\A s \in Slots : ~OnGrant(call[s], g)) => EvenRow(g)
BY DEF EquityInv, EvenOn

(* A call on g begins.                                                     *)
LEMMA BeginsOn ==
  ASSUME EquityInv, NEW s \in Slots, NEW g \in Grants, NEW op \in {"grant", "release", "exercise"},
         NEW at, NEW row, NEW saw, BeginOnGrant(s, g, op, at, row, saw)
  PROVE  /\ call[s] = Idle /\ Becomes(s, Request(op, at, row, saw)) /\ Request(op, at, row, saw) # Idle
         /\ \A h : h \in muddled => h \in muddled'
         /\ g \notin muddled' => \A t \in Slots : ~OnGrant(call[t], g)
<1>1. call[s] = Idle /\ Becomes(s, Request(op, at, row, saw))
  BY DEF BeginOnGrant, Begin, Becomes
<1>2. Request(op, at, row, saw) # Idle
  BY DEF Request, Idle
<1>3. muddled' = IF \E t \in Slots : call[t] # Idle /\ GrantOf(t) = g
                   THEN muddled \cup {g} ELSE muddled
  BY DEF BeginOnGrant
<1>4. \A t \in Slots : OnGrant(call[t], g) <=> call[t] # Idle /\ GrantOf(t) = g
  BY DEF OnGrant, GrantOf
<1> QED
  BY <1>1, <1>2, <1>3, <1>4

LEMMA GrantCallInv ==
  ASSUME EquityInv, NEW s \in Slots, NEW g \in Grants, GrantCall(s, g)
  PROVE  EquityInv'
<1>1. bal[GrantPool] \in Int
  BY EquityAssumption DEF EquityInv, EquityTypeOK, LedgerTypeOK, Effects
<1>2. PICK b \in Int : b = bal[GrantPool]
  BY <1>1
<1>c. PICK c : c = Request("grant", "list", g, <<b>>)
  OBVIOUS
<1>3. /\ released[g] = None /\ \A t \in Slots : ~(call[t].op = "grant" /\ call[t].row = g)
      /\ BeginOnGrant(s, g, "grant", "list", g, <<b>>)
      /\ UNCHANGED <<journals, bal, released, month>>
  BY <1>2 DEF GrantCall
<1>4. /\ call[s] = Idle /\ Becomes(s, c) /\ c # Idle
      /\ \A h : h \in muddled => h \in muddled'
      /\ g \notin muddled' => \A t \in Slots : ~OnGrant(call[t], g)
  BY <1>c, <1>3, BeginsOn
<1>5. c \in EquityRequests /\ c.op = "grant" /\ c.row = g
  BY <1>c DEF EquityRequests, EquityViews, Requests, Request
<1>6. OnGrant(c, g) /\ EvenCall(g, c)'
  BY <1>4, <1>5 DEF OnGrant, EvenCall
<1>7. EquityCall(c)'
  BY <1>3, <1>5 DEF EquityCall
<1>8. PICK n : n = None
  OBVIOUS
<1>9. /\ released' = [released EXCEPT ![g] = n] /\ g \notin Granted /\ n \in Nat \cup {None}
      /\ n = None \/ (n # None /\ n <= VestedUnits(g, month))
      /\ n = None => g \notin Granted
  BY <1>3, <1>8 DEF EquityInv, EquityTypeOK, Granted
<1>10. c.op = "grant" \/ (n # None /\ g \notin Granted) =>
         \A t \in Slots \ {s} : call[t].op = "grant" => call[t].row # g
  BY <1>3
<1>11. UNCHANGED <<journals, bal, month>> /\ (call[s] # Idle \/ c # Idle)
       /\ (call[s] = Idle \/ OnGrant(call[s], g)) /\ (c = Idle \/ OnGrant(c, g))
  BY <1>3, <1>4, <1>6
<1>12. call[s] = Idle /\ c # Idle /\ g \notin muddled' => \A t \in Slots : ~OnGrant(call[t], g)
  BY <1>4
<1>13. g \notin muddled' => IF c = Idle THEN EvenRow(g)' ELSE EvenCall(g, c)'
  BY <1>4, <1>6
<1>14. (n = None \/ (n # None /\ n <= VestedUnits(g, month))) /\ (n = None => g \notin Granted)
  BY <1>9
<1>15. n \in Nat \cup {None} /\ released' = [released EXCEPT ![g] = n] /\ Becomes(s, c)
       /\ c \in EquityRequests /\ \A h : h \in muddled => h \in muddled'
  BY <1>4, <1>5, <1>9
<1> QED
  BY <1>7, <1>10, <1>11, <1>12, <1>13, <1>14, <1>15, EquityQuiet

(* A call goes on, or ends.                                                *)
LEMMA EquityCallIs ==
  ASSUME EquityInv, NEW s \in Slots, call[s].op # "idle"
  PROVE  /\ call[s] # Idle /\ call[s] \in EquityRequests /\ EquityCall(call[s])
         /\ \A g \in Grants : OnGrant(call[s], g) /\ g \notin muddled => EvenCall(g, call[s])
BY EvenIs DEF EquityInv, EquityTypeOK, EquityCalls, Idle, Request

LEMMA EquityGoes ==
  ASSUME EquityInv, NEW s \in Slots, NEW at, Goto(s, at)
  PROVE  Becomes(s, Request(call[s].op, at, call[s].row, call[s].saw))
BY GotoBecomes DEF EquityInv, EquityTypeOK, EquityRequests

LEMMA GrantListInv ==
  ASSUME EquityInv, NEW s \in Slots, GrantList(s)
  PROVE  EquityInv'
<1>1. PICK d : d = call[s]
  OBVIOUS
<1>2. /\ d.op = "grant" /\ d.at = "list"
      /\ Goto(s, "insert") \/ Leave(s)
      /\ UNCHANGED <<journals, bal, released, month, muddled>>
  BY <1>1 DEF GrantList, At
<1>3. d # Idle /\ d \in EquityRequests /\ EquityCall(d)
  BY <1>1, <1>2, EquityCallIs
<1>4. PICK g \in Grants : g = d.row
  BY <1>2, <1>3 DEF EquityCall
<1>5. released' = [released EXCEPT ![g] = None] /\ g \notin Granted /\ OnGrant(d, g)
  BY <1>2, <1>3, <1>4 DEF EquityInv, EquityTypeOK, Granted, EquityCall, OnGrant
<1>6. EvenRow(g)'
  BY <1>2, <1>5 DEF EvenRow, Granted
<1>7. \A t \in Slots \ {s} : call[t].op = "grant" => call[t].row # g
  BY <1>1, <1>2, <1>4 DEF EquityInv, GrantsAlone
<1>8. PICK c : (c = Idle \/ c = Request("grant", "insert", g, d.saw)) /\ Becomes(s, c)
  <2>1. CASE Leave(s)
    BY <2>1 DEF Leave, Becomes
  <2>2. CASE Goto(s, "insert")
    <3>1. Becomes(s, Request(call[s].op, "insert", call[s].row, call[s].saw))
      BY <2>2, EquityGoes
    <3> QED
      BY <1>1, <1>2, <1>4, <3>1
  <2> QED
    BY <1>2, <2>1, <2>2
<1>9. c \in EquityRequests /\ (c # Idle => c.op = "grant" /\ c.row = g)
  BY <1>3, <1>4, <1>8, EquityIdle DEF EquityRequests, EquityViews, Requests, Request
<1>10. (c = Idle \/ OnGrant(c, g)) /\ (c # Idle => EvenCall(g, c)')
  BY <1>9 DEF OnGrant, EvenCall
<1>11. EquityCall(c)'
  <2>1. CASE c = Idle
    BY <2>1 DEF EquityCall, Idle, Request
  <2>2. CASE c # Idle
    BY <1>2, <1>5, <1>9, <2>2 DEF EquityCall, EquityInv, EquityTypeOK
  <2> QED
    BY <2>1, <2>2
<1>12. PICK n : n = None
  OBVIOUS
<1>13. /\ released' = [released EXCEPT ![g] = n] /\ n \in Nat \cup {None}
       /\ n = None \/ (n # None /\ n <= VestedUnits(g, month))
       /\ n = None => g \notin Granted
  BY <1>5, <1>12
<1>14. c.op = "grant" \/ (n # None /\ g \notin Granted) =>
         \A t \in Slots \ {s} : call[t].op = "grant" => call[t].row # g
  BY <1>7
<1>15. /\ UNCHANGED <<journals, bal, month>> /\ (call[s] # Idle \/ c # Idle)
       /\ call[s] = Idle \/ OnGrant(call[s], g)
       /\ \A h : h \in muddled => h \in muddled'
  BY <1>1, <1>2, <1>3, <1>5
<1>16. /\ call[s] = Idle /\ c # Idle /\ g \notin muddled' => \A t \in Slots : ~OnGrant(call[t], g)
       /\ g \notin muddled' => IF c = Idle THEN EvenRow(g)' ELSE EvenCall(g, c)'
  BY <1>1, <1>3, <1>6, <1>10
<1> QED
  BY <1>8, <1>9, <1>10, <1>11, <1>13, <1>14, <1>15, <1>16, EquityQuiet

LEMMA GrantInsertInv ==
  ASSUME EquityInv, NEW s \in Slots, GrantInsert(s)
  PROVE  EquityInv'
<1>1. PICK d : d = call[s]
  OBVIOUS
<1>2. /\ d.op = "grant" /\ Becomes(s, Idle) /\ released' = [released EXCEPT ![d.row] = 0]
      /\ UNCHANGED <<journals, bal, month, muddled>>
  BY <1>1 DEF GrantInsert, At, Leave, Becomes
<1>3. d # Idle /\ EquityCall(d)
  BY <1>1, <1>2, EquityCallIs
<1>4. PICK g \in Grants : g = d.row
  BY <1>2, <1>3 DEF EquityCall
<1>5. g \notin Granted /\ OnGrant(d, g)
  BY <1>2, <1>3, <1>4 DEF Granted, EquityCall, OnGrant
<1>6. \A t \in Slots \ {s} : call[t].op = "grant" => call[t].row # g
  BY <1>1, <1>2, <1>4 DEF EquityInv, GrantsAlone
<1>7. released'[g] = 0
  BY <1>2, <1>4 DEF EquityInv, EquityTypeOK
<1>8. EvenRow(g)'
  <2>1. Delivered(g) = 0 /\ VestedUpTo(g, 0)
    BY <1>5, NothingDelivered DEF EquityInv, RowsVested
  <2>2. Delivered(g)' = 0 /\ VestedUpTo(g, 0)'
    <3>1. EquityTypeOK /\ UNCHANGED <<journals, bal>>
      BY <1>2 DEF EquityInv
    <3>2. /\ Delivered(g)' = Delivered(g)
          /\ \A v \in Nat : Posted(<<"vest", g, v>>)' <=> Posted(<<"vest", g, v>>)
      BY <3>1, DeliveredFixed
    <3> QED
      BY <2>1, <3>2 DEF VestedUpTo
  <2> QED
    BY <1>7, <2>2 DEF EvenRow, VestedUpTo
<1>9. 0 # None /\ 0 \in Nat \cup {None} /\ 0 <= VestedUnits(g, month)
  BY EquityAssumption, VestingGrows DEF EquityInv, EquityTypeOK
<1>10. EquityCall(Idle)'
  BY DEF EquityCall, Idle, Request
<1>11. Idle.op # "grant" /\ Idle \in EquityRequests
  BY EquityIdle DEF Idle, Request
<1>12. PICK c : c = Idle
  OBVIOUS
<1>13. PICK n : n = 0
  OBVIOUS
<1>14. /\ c \in EquityRequests /\ Becomes(s, c) /\ EquityCall(c)'
       /\ released' = [released EXCEPT ![g] = n] /\ n \in Nat \cup {None}
       /\ n = None \/ (n # None /\ n <= VestedUnits(g, month))
       /\ n = None => g \notin Granted
  BY <1>2, <1>4, <1>9, <1>10, <1>11, <1>12, <1>13
<1>15. c.op = "grant" \/ (n # None /\ g \notin Granted) =>
         \A t \in Slots \ {s} : call[t].op = "grant" => call[t].row # g
  BY <1>6
<1>16. /\ UNCHANGED <<journals, bal, month>> /\ (call[s] # Idle \/ c # Idle)
       /\ call[s] = Idle \/ OnGrant(call[s], g)
       /\ c = Idle \/ OnGrant(c, g)
       /\ \A h : h \in muddled => h \in muddled'
  BY <1>1, <1>2, <1>3, <1>5, <1>12
<1>17. /\ call[s] = Idle /\ c # Idle /\ g \notin muddled' => \A t \in Slots : ~OnGrant(call[t], g)
       /\ g \notin muddled' => IF c = Idle THEN EvenRow(g)' ELSE EvenCall(g, c)'
  BY <1>8, <1>12
<1> QED
  BY <1>14, <1>15, <1>16, <1>17, EquityQuiet

LEMMA ReleaseCallInv ==
  ASSUME EquityInv, NEW s \in Slots, NEW g \in Grants, ReleaseCall(s, g)
  PROVE  EquityInv'
<1>1. PICK n : n = released[g]
  OBVIOUS
<1>2. month \in Nat /\ VestedUnits(g, month) \in Nat
  BY VestingGrows DEF EquityInv, EquityTypeOK
<1>3. PICK v \in Nat : v = VestedUnits(g, month)
  BY <1>2
<1>4. /\ AwardType[g] = "units" /\ g \in Granted /\ v > n
      /\ BeginOnGrant(s, g, "release", "post", g, <<v, v - n>>)
      /\ UNCHANGED <<journals, bal, released, month>>
  BY <1>1, <1>3 DEF ReleaseCall
<1>5. n # None /\ n \in Nat /\ v - n \in Nat /\ n <= VestedUnits(g, month)
  BY <1>1, <1>3, <1>4 DEF EquityInv, EquityTypeOK, Granted
<1>6. PICK c : c = Request("release", "post", g, <<v, v - n>>)
  OBVIOUS
<1>7. /\ call[s] = Idle /\ Becomes(s, c) /\ c # Idle
      /\ \A h : h \in muddled => h \in muddled'
      /\ g \notin muddled' => \A t \in Slots : ~OnGrant(call[t], g)
  BY <1>4, <1>6, BeginsOn
<1>8. /\ c.op = "release" /\ c.at = "post" /\ c.row = g /\ c.saw = <<v, v - n>>
      /\ c.saw[1] = v /\ c.saw[2] = v - n
  BY <1>6 DEF Request
<1>9. c \in EquityRequests
  BY <1>5, <1>6 DEF EquityRequests, EquityViews, Requests, Request
<1>10. EquityCall(c)'
  BY <1>3, <1>4, <1>5, <1>8 DEF EquityCall, Granted, VestedUnits
<1>11. OnGrant(c, g)
  BY <1>7, <1>8 DEF OnGrant
<1>12. ASSUME g \notin muddled' PROVE EvenCall(g, c)'
  <2>1. g \notin muddled /\ EvenRow(g)
    BY <1>7, <1>12, EvenIs
  <2>2. EvenRow(g)'
    <3>1. EquityTypeOK /\ UNCHANGED <<journals, bal>> /\ released' = released
      BY <1>4 DEF EquityInv
    <3>2. /\ Delivered(g)' = Delivered(g)
          /\ \A w \in Nat : Posted(<<"vest", g, w>>)' <=> Posted(<<"vest", g, w>>)
      BY <3>1, DeliveredFixed
    <3> QED
      BY <2>1, <3>1, <3>2 DEF EvenRow, VestedUpTo, Granted
  <2> QED
    BY <1>1, <1>4, <1>8, <2>2 DEF EvenCall
<1>13. /\ released' = [released EXCEPT ![g] = n] /\ n \in Nat \cup {None}
       /\ n = None \/ (n # None /\ n <= VestedUnits(g, month))
       /\ n = None => g \notin Granted
  BY <1>1, <1>4, <1>5 DEF EquityInv, EquityTypeOK
<1>14. c.op = "grant" \/ (n # None /\ g \notin Granted) =>
         \A t \in Slots \ {s} : call[t].op = "grant" => call[t].row # g
  BY <1>4, <1>8
<1>15. /\ UNCHANGED <<journals, bal, month>> /\ (call[s] # Idle \/ c # Idle)
       /\ call[s] = Idle \/ OnGrant(call[s], g)
       /\ c = Idle \/ OnGrant(c, g)
  BY <1>4, <1>7, <1>11
<1>16. /\ call[s] = Idle /\ c # Idle /\ g \notin muddled' => \A t \in Slots : ~OnGrant(call[t], g)
       /\ g \notin muddled' => IF c = Idle THEN EvenRow(g)' ELSE EvenCall(g, c)'
  BY <1>7, <1>12
<1> QED
  BY <1>7, <1>9, <1>10, <1>13, <1>14, <1>15, <1>16, EquityQuiet

LEMMA ExerciseCallInv ==
  ASSUME EquityInv, NEW s \in Slots, NEW k \in Exercises, ExerciseCall(s, k)
  PROVE  EquityInv'
<1>1. PICK g \in Grants : g = ExerciseGrant[k]
  BY EquityAssumption
<1>2. PICK n : n = released[g]
  OBVIOUS
<1>3. /\ g \in Granted /\ ExerciseQty[k] <= VestedUnits(g, month) - n
      /\ BeginOnGrant(s, g, "exercise", "post", k, <<n>>)
      /\ UNCHANGED <<journals, bal, released, month>>
  BY <1>1, <1>2 DEF ExerciseCall
<1>4. /\ n # None /\ n \in Nat /\ n <= VestedUnits(g, month)
      /\ VestedUnits(g, month) \in Nat /\ ExerciseQty[k] \in Nat
  BY <1>2, <1>3, VestingGrows, EquityAssumption DEF EquityInv, EquityTypeOK, Granted, RowsVested
<1>5. PICK c : c = Request("exercise", "post", k, <<n>>)
  OBVIOUS
<1>6. /\ call[s] = Idle /\ Becomes(s, c) /\ c # Idle
      /\ \A h : h \in muddled => h \in muddled'
      /\ g \notin muddled' => \A t \in Slots : ~OnGrant(call[t], g)
  BY <1>3, <1>5, BeginsOn
<1>7. c.op = "exercise" /\ c.at = "post" /\ c.row = k /\ c.saw = <<n>> /\ c.saw[1] = n
  BY <1>5 DEF Request
<1>8. c \in EquityRequests
  BY <1>4, <1>5 DEF EquityRequests, EquityViews, Requests, Request
<1>9. EquityCall(c)'
  BY <1>1, <1>3, <1>4, <1>7 DEF EquityCall, Granted, VestedUnits
<1>10. OnGrant(c, g)
  BY <1>1, <1>6, <1>7 DEF OnGrant
<1>11. ASSUME g \notin muddled' PROVE EvenCall(g, c)'
  <2>1. g \notin muddled /\ EvenRow(g)
    BY <1>6, <1>11, EvenIs
  <2>2. EvenRow(g)'
    <3>1. EquityTypeOK /\ UNCHANGED <<journals, bal>> /\ released' = released
      BY <1>3 DEF EquityInv
    <3>2. /\ Delivered(g)' = Delivered(g)
          /\ \A w \in Nat : Posted(<<"vest", g, w>>)' <=> Posted(<<"vest", g, w>>)
      BY <3>1, DeliveredFixed
    <3> QED
      BY <2>1, <3>1, <3>2 DEF EvenRow, VestedUpTo, Granted
  <2> QED
    BY <1>2, <1>3, <1>7, <2>2 DEF EvenCall
<1>12. /\ released' = [released EXCEPT ![g] = n] /\ n \in Nat \cup {None}
       /\ n = None \/ (n # None /\ n <= VestedUnits(g, month))
       /\ n = None => g \notin Granted
  BY <1>2, <1>3, <1>4 DEF EquityInv, EquityTypeOK
<1>13. c.op = "grant" \/ (n # None /\ g \notin Granted) =>
         \A t \in Slots \ {s} : call[t].op = "grant" => call[t].row # g
  BY <1>3, <1>7
<1>14. /\ UNCHANGED <<journals, bal, month>> /\ (call[s] # Idle \/ c # Idle)
       /\ call[s] = Idle \/ OnGrant(call[s], g)
       /\ c = Idle \/ OnGrant(c, g)
  BY <1>3, <1>6, <1>10
<1>15. /\ call[s] = Idle /\ c # Idle /\ g \notin muddled' => \A t \in Slots : ~OnGrant(call[t], g)
       /\ g \notin muddled' => IF c = Idle THEN EvenRow(g)' ELSE EvenCall(g, c)'
  BY <1>6, <1>11
<1> QED
  BY <1>6, <1>8, <1>9, <1>12, <1>13, <1>14, <1>15, EquityQuiet

(* What a release or an exercise under way knows.                          *)
LEMMA ReleaseIs ==
  ASSUME EquityInv, NEW s \in Slots, call[s].op = "release"
  PROVE  /\ call[s].row \in Grants /\ call[s].row \in Granted /\ AwardType[call[s].row] = "units"
         /\ call[s].saw[1] \in Nat /\ call[s].saw[2] \in Nat
         /\ call[s].saw[1] <= VestedUnits(call[s].row, month)
         /\ OnGrant(call[s], call[s].row)
         /\ released[call[s].row] \in Nat /\ released[call[s].row] <= VestedUnits(call[s].row, month)
         /\ released[call[s].row] # None
<1>1. call[s] # Idle /\ EquityCall(call[s])
  BY EquityCallIs
<1> QED
  BY <1>1 DEF EquityCall, OnGrant, EquityInv, EquityTypeOK, RowsVested, Granted

LEMMA ExerciseIs ==
  ASSUME EquityInv, NEW s \in Slots, call[s].op = "exercise"
  PROVE  /\ call[s].row \in Exercises /\ ExerciseGrant[call[s].row] \in Grants
         /\ ExerciseGrant[call[s].row] \in Granted
         /\ AwardType[ExerciseGrant[call[s].row]] = "option"
         /\ call[s].saw[1] \in Nat /\ ExerciseQty[call[s].row] \in Nat
         /\ call[s].saw[1] + ExerciseQty[call[s].row] <= VestedUnits(ExerciseGrant[call[s].row], month)
         /\ OnGrant(call[s], ExerciseGrant[call[s].row])
         /\ released[ExerciseGrant[call[s].row]] \in Nat
         /\ released[ExerciseGrant[call[s].row]] <= VestedUnits(ExerciseGrant[call[s].row], month)
         /\ released[ExerciseGrant[call[s].row]] # None
<1>1. call[s] # Idle /\ EquityCall(call[s])
  BY EquityCallIs
<1>2. call[s].row \in Exercises /\ ExerciseGrant[call[s].row] \in Granted
      /\ call[s].saw[1] \in Nat
      /\ call[s].saw[1] + ExerciseQty[call[s].row] <= VestedUnits(ExerciseGrant[call[s].row], month)
  BY <1>1 DEF EquityCall
<1>3. /\ ExerciseGrant[call[s].row] \in Grants /\ AwardType[ExerciseGrant[call[s].row]] = "option"
      /\ ExerciseQty[call[s].row] \in Nat
  BY <1>2, EquityAssumption
<1> QED
  BY <1>1, <1>2, <1>3 DEF OnGrant, EquityInv, EquityTypeOK, RowsVested, Granted

LEMMA ReleasePostInv ==
  ASSUME EquityInv, NEW s \in Slots, ReleasePost(s)
  PROVE  EquityInv'
<1>1. PICK d : d = call[s]
  OBVIOUS
<1>2. d.op = "release" /\ d.at = "post" /\ Goto(s, "mark") /\ UNCHANGED <<released, month, muddled>>
  BY <1>1 DEF ReleasePost, At
<1>3. PICK g \in Grants : g = d.row
  BY <1>1, <1>2, ReleaseIs
<1>4. PICK v \in Nat, u \in Nat : v = d.saw[1] /\ u = d.saw[2]
  BY <1>1, <1>2, ReleaseIs
<1>5. PICK n : n = released[g]
  OBVIOUS
<1>6. /\ g \in Granted /\ AwardType[g] = "units" /\ v <= VestedUnits(g, month) /\ OnGrant(d, g)
      /\ n \in Nat /\ n # None /\ n <= VestedUnits(g, month)
  BY <1>1, <1>2, <1>3, <1>4, <1>5, ReleaseIs
<1>7. PostJournal(<<"vest", g, v>>, Move(GrantPool, EmployeeUnits, u))
  BY <1>1, <1>3, <1>4 DEF ReleasePost
<1>8. PICK c : c = Request("release", "mark", g, d.saw)
  OBVIOUS
<1>9. Becomes(s, c)
  <2>1. Becomes(s, Request(call[s].op, "mark", call[s].row, call[s].saw))
    BY <1>2, EquityGoes
  <2> QED
    BY <1>1, <1>2, <1>3, <1>8, <2>1
<1>10. c.op = "release" /\ c.at = "mark" /\ c.row = g /\ c.saw = d.saw /\ c # Idle
  BY <1>8 DEF Request, Idle
<1>11. d # Idle /\ d \in EquityRequests /\ EquityCall(d)
  BY <1>1, <1>2, EquityCallIs
<1>12. c \in EquityRequests
  BY <1>3, <1>8, <1>11 DEF EquityRequests, EquityViews, Requests, Request
<1>13. EquityCall(c)'
  BY <1>2, <1>4, <1>6, <1>10 DEF EquityCall, Granted, VestedUnits
<1>14. OnGrant(c, g)
  BY <1>10 DEF OnGrant
<1>15. released' = [released EXCEPT ![g] = n] /\ n \in Nat \cup {None}
  BY <1>2, <1>5, <1>6 DEF EquityInv, EquityTypeOK
<1>16. c.op = "grant" \/ (n # None /\ g \notin Granted) =>
         \A t \in Slots \ {s} : call[t].op = "grant" => call[t].row # g
  BY <1>6, <1>10
<1>17. /\ call[s] # Idle \/ c # Idle
       /\ call[s] = Idle \/ OnGrant(call[s], g)
       /\ c = Idle \/ OnGrant(c, g)
       /\ \A h : h \in muddled => h \in muddled'
       /\ month' = month
  BY <1>1, <1>2, <1>6, <1>10, <1>14
<1>18. call[s] = Idle /\ c # Idle /\ g \notin muddled' => \A t \in Slots : ~OnGrant(call[t], g)
  BY <1>1, <1>11
<1>19. g \notin muddled => EvenRow(g) /\ n < v /\ u = v - n
  BY <1>1, <1>2, <1>4, <1>5, <1>6, EvenIs DEF EvenCall
<1>20. CASE Posted(<<"vest", g, v>>)
  <2>1. UNCHANGED <<journals, bal>>
    BY <1>7, <1>20 DEF PostJournal, ledgerVars
  <2>2. g \in muddled
    BY <1>5, <1>6, <1>19, <1>20 DEF EvenRow, VestedUpTo
  <2>3. g \notin muddled' => IF c = Idle THEN EvenRow(g)' ELSE EvenCall(g, c)'
    BY <1>2, <2>2
  <2>4. (n = None \/ (n # None /\ n <= VestedUnits(g, month))) /\ (n = None => g \notin Granted)
    BY <1>6
  <2>5. UNCHANGED <<journals, bal, month>>
    BY <1>2, <2>1
  <2> QED
    BY <1>9, <1>12, <1>13, <1>15, <1>16, <1>17, <1>18, <2>3, <2>4, <2>5, EquityQuiet
<1>21. CASE ~Posted(<<"vest", g, v>>)
  <2>1. EquityTypeOK
    BY DEF EquityInv
  <2>2. /\ LedgerTypeOK' /\ IsFiniteSet(DOMAIN journals)'
        /\ \A h \in Grants \ {g} : /\ Releases(h)' = Releases(h) /\ Exercised(h)' = Exercised(h)
                                   /\ \A j \in Releases(h) : journals'[j] = journals[j]
        /\ Delivered(g)' = Delivered(g) + u
        /\ \A w \in Nat : Posted(<<"vest", g, w>>)' => Posted(<<"vest", g, w>>) \/ w = v
    BY <1>7, <1>21, <2>1, ReleasePosted
  <2>3. ASSUME g \notin muddled PROVE EvenCall(g, c)'
    <3>1. Delivered(g) = n /\ VestedUpTo(g, n) /\ n < v /\ u = v - n
      BY <1>5, <1>6, <1>19, <2>3 DEF EvenRow
    <3>2. Delivered(g)' = v
      BY <1>6, <2>2, <3>1
    <3>3. VestedUpTo(g, v)'
      BY <1>6, <2>2, <3>1 DEF VestedUpTo
    <3> QED
      BY <1>4, <1>10, <3>2, <3>3 DEF EvenCall, VestedUpTo
  <2>4. g \notin muddled' => IF c = Idle THEN EvenRow(g)' ELSE EvenCall(g, c)'
    BY <1>2, <1>10, <2>3
  <2>5. /\ g \in Granted => n # None
        /\ n # None => n <= VestedUnits(g, month)
        /\ n = None => Releases(g)' = {} /\ Exercised(g)' = {}
    BY <1>6
  <2> QED
    BY <1>9, <1>12, <1>13, <1>15, <1>16, <1>17, <1>18, <2>2, <2>4, <2>5, EquityMoves
<1> QED
  BY <1>20, <1>21

LEMMA ReleaseMarkInv ==
  ASSUME EquityInv, NEW s \in Slots, ReleaseMark(s)
  PROVE  EquityInv'
<1>1. PICK d : d = call[s]
  OBVIOUS
<1>2. /\ d.op = "release" /\ d.at = "mark" /\ Becomes(s, Idle)
      /\ released' = [released EXCEPT ![d.row] = d.saw[1]]
      /\ UNCHANGED <<journals, bal, month, muddled>>
  BY <1>1 DEF ReleaseMark, At, Leave, Becomes
<1>3. PICK g \in Grants : g = d.row
  BY <1>1, <1>2, ReleaseIs
<1>4. PICK v \in Nat : v = d.saw[1]
  BY <1>1, <1>2, ReleaseIs
<1>5. g \in Granted /\ v <= VestedUnits(g, month) /\ OnGrant(d, g) /\ v # None
  BY <1>1, <1>2, <1>3, <1>4, ReleaseIs, EquityAssumption
<1>6. released'[g] = v
  BY <1>2, <1>3, <1>4 DEF EquityInv, EquityTypeOK
<1>7. ASSUME g \notin muddled PROVE EvenRow(g)'
  <2>1. Delivered(g) = v /\ VestedUpTo(g, v)
    BY <1>1, <1>2, <1>4, <1>5, <1>7, EvenIs DEF EvenCall
  <2>2. /\ Delivered(g)' = Delivered(g)
        /\ \A w \in Nat : Posted(<<"vest", g, w>>)' <=> Posted(<<"vest", g, w>>)
    <3>1. EquityTypeOK /\ UNCHANGED <<journals, bal>>
      BY <1>2 DEF EquityInv
    <3> QED
      BY <3>1, DeliveredFixed
  <2> QED
    BY <1>6, <2>1, <2>2 DEF EvenRow, VestedUpTo
<1>8. PICK c : c = Idle
  OBVIOUS
<1>9. c \in EquityRequests /\ Becomes(s, c) /\ EquityCall(c)' /\ c.op = "idle"
  BY <1>2, <1>8, EquityIdle DEF EquityCall, Idle, Request
<1>10. /\ released' = [released EXCEPT ![g] = v] /\ v \in Nat \cup {None}
       /\ v = None \/ (v # None /\ v <= VestedUnits(g, month))
       /\ v = None => g \notin Granted
  BY <1>2, <1>3, <1>4, <1>5
<1>11. c.op = "grant" \/ (v # None /\ g \notin Granted) =>
         \A t \in Slots \ {s} : call[t].op = "grant" => call[t].row # g
  BY <1>5, <1>9
<1>12. /\ UNCHANGED <<journals, bal, month>> /\ (call[s] # Idle \/ c # Idle)
       /\ call[s] = Idle \/ OnGrant(call[s], g)
       /\ c = Idle \/ OnGrant(c, g)
       /\ \A h : h \in muddled => h \in muddled'
  BY <1>1, <1>2, <1>5, <1>8 DEF OnGrant
<1>13. /\ call[s] = Idle /\ c # Idle /\ g \notin muddled' => \A t \in Slots : ~OnGrant(call[t], g)
       /\ g \notin muddled' => IF c = Idle THEN EvenRow(g)' ELSE EvenCall(g, c)'
  BY <1>2, <1>7, <1>8
<1> QED
  BY <1>9, <1>10, <1>11, <1>12, <1>13, EquityQuiet

LEMMA ExercisePostInv ==
  ASSUME EquityInv, NEW s \in Slots, ExercisePost(s)
  PROVE  EquityInv'
<1>1. PICK e : e = call[s]
  OBVIOUS
<1>2. e.op = "exercise" /\ e.at = "post" /\ Goto(s, "mark") /\ UNCHANGED <<released, month, muddled>>
  BY <1>1 DEF ExercisePost, At
<1>3. PICK k \in Exercises : k = e.row
  BY <1>1, <1>2, ExerciseIs
<1>4. PICK g \in Grants : g = ExerciseGrant[k]
  BY <1>1, <1>2, <1>3, ExerciseIs
<1>5. PICK n : n = released[g]
  OBVIOUS
<1>6. PICK v \in Nat, q \in Nat : v = e.saw[1] /\ q = ExerciseQty[k]
  BY <1>1, <1>2, <1>3, ExerciseIs
<1>7. /\ g \in Granted /\ AwardType[g] = "option" /\ v + q <= VestedUnits(g, month) /\ OnGrant(e, g)
      /\ n \in Nat /\ n # None /\ n <= VestedUnits(g, month)
  BY <1>1, <1>2, <1>3, <1>4, <1>5, <1>6, ExerciseIs
<1>8. PICK d : d = Both(Move(Employee, Company, Cost(k)), Move(GrantPool, EmployeeUnits, ExerciseQty[k]))
  OBVIOUS
<1>9. d \in Effects /\ PostJournal(<<"option", k>>, d)
  <2>1. Cost(k) \in Int /\ ExerciseQty[k] \in Int
    BY EquityAssumption DEF Cost
  <2>2. d \in Effects
    BY <1>8, <2>1 DEF Both, Move, Effects
  <2> QED
    BY <1>1, <1>3, <1>8, <2>2 DEF ExercisePost
<1>10. PICK c : c = Request("exercise", "mark", k, e.saw)
  OBVIOUS
<1>11. Becomes(s, c)
  <2>1. Becomes(s, Request(call[s].op, "mark", call[s].row, call[s].saw))
    BY <1>2, EquityGoes
  <2> QED
    BY <1>1, <1>2, <1>3, <1>10, <2>1
<1>12. c.op = "exercise" /\ c.at = "mark" /\ c.row = k /\ c.saw = e.saw /\ c # Idle
  BY <1>10 DEF Request, Idle
<1>13. e # Idle /\ e \in EquityRequests /\ EquityCall(e)
  BY <1>1, <1>2, EquityCallIs
<1>14. c \in EquityRequests
  BY <1>3, <1>10, <1>13 DEF EquityRequests, EquityViews, Requests, Request
<1>15. EquityCall(c)'
  BY <1>2, <1>4, <1>6, <1>7, <1>12 DEF EquityCall, Granted, VestedUnits
<1>16. OnGrant(c, g)
  BY <1>4, <1>12 DEF OnGrant
<1>17. released' = [released EXCEPT ![g] = n] /\ n \in Nat \cup {None}
  BY <1>2, <1>5, <1>7 DEF EquityInv, EquityTypeOK
<1>18. c.op = "grant" \/ (n # None /\ g \notin Granted) =>
         \A t \in Slots \ {s} : call[t].op = "grant" => call[t].row # g
  BY <1>7, <1>12
<1>19. /\ call[s] # Idle \/ c # Idle
       /\ call[s] = Idle \/ OnGrant(call[s], g)
       /\ c = Idle \/ OnGrant(c, g)
       /\ \A h : h \in muddled => h \in muddled'
       /\ month' = month
  BY <1>1, <1>2, <1>7, <1>12, <1>16
<1>20. call[s] = Idle /\ c # Idle /\ g \notin muddled' => \A t \in Slots : ~OnGrant(call[t], g)
  BY <1>1, <1>13
<1>21. g \notin muddled => EvenRow(g) /\ v = n
  BY <1>1, <1>2, <1>5, <1>6, <1>7, EvenIs DEF EvenCall
<1>22. EquityTypeOK
  BY DEF EquityInv
<1>23. CASE Posted(<<"option", k>>)
  <2>1. UNCHANGED <<journals, bal>>
    BY <1>9, <1>23 DEF PostJournal, ledgerVars
  <2>2. ASSUME g \notin muddled PROVE EvenCall(g, c)'
    <3>1. Delivered(g) <= n /\ VestedUpTo(g, n) /\ v = n
      BY <1>5, <1>7, <1>21, <2>2 DEF EvenRow
    <3>2. /\ Delivered(g)' = Delivered(g) /\ Delivered(g) \in Int
          /\ \A w \in Nat : Posted(<<"vest", g, w>>)' <=> Posted(<<"vest", g, w>>)
      BY <1>22, <2>1, DeliveredFixed, DeliveredIs
    <3>3. Delivered(g)' <= v + q /\ VestedUpTo(g, n)' /\ released'[g] = n
      BY <1>2, <1>5, <1>7, <3>1, <3>2 DEF VestedUpTo
    <3> QED
      BY <1>6, <1>12, <3>1, <3>3 DEF EvenCall, VestedUpTo
  <2>3. g \notin muddled' => IF c = Idle THEN EvenRow(g)' ELSE EvenCall(g, c)'
    BY <1>2, <1>12, <2>2
  <2>4. (n = None \/ (n # None /\ n <= VestedUnits(g, month))) /\ (n = None => g \notin Granted)
    BY <1>7
  <2>5. UNCHANGED <<journals, bal, month>>
    BY <1>2, <2>1
  <2> QED
    BY <1>11, <1>14, <1>15, <1>17, <1>18, <1>19, <1>20, <2>3, <2>4, <2>5, EquityQuiet
<1>24. CASE ~Posted(<<"option", k>>)
  <2>1. /\ LedgerTypeOK' /\ IsFiniteSet(DOMAIN journals)'
        /\ \A h \in Grants \ {g} : /\ Releases(h)' = Releases(h) /\ Exercised(h)' = Exercised(h)
                                   /\ \A j \in Releases(h) : journals'[j] = journals[j]
        /\ Delivered(g)' = Delivered(g) + ExerciseQty[k]
        /\ \A w \in Nat : Posted(<<"vest", g, w>>)' => Posted(<<"vest", g, w>>)
    BY <1>4, <1>9, <1>22, <1>24, ExercisePosted
  <2>2. ASSUME g \notin muddled PROVE EvenCall(g, c)'
    <3>1. Delivered(g) <= n /\ VestedUpTo(g, n) /\ v = n
      BY <1>5, <1>7, <1>21, <2>2 DEF EvenRow
    <3>2. Delivered(g) \in Int
      BY <1>22, DeliveredIs
    <3>3. Delivered(g)' <= v + q /\ VestedUpTo(g, n)' /\ released'[g] = n
      BY <1>2, <1>5, <1>6, <1>7, <2>1, <3>1, <3>2 DEF VestedUpTo
    <3> QED
      BY <1>6, <1>12, <3>1, <3>3 DEF EvenCall, VestedUpTo
  <2>3. g \notin muddled' => IF c = Idle THEN EvenRow(g)' ELSE EvenCall(g, c)'
    BY <1>2, <1>12, <2>2
  <2>4. /\ g \in Granted => n # None
        /\ n # None => n <= VestedUnits(g, month)
        /\ n = None => Releases(g)' = {} /\ Exercised(g)' = {}
    BY <1>7
  <2> QED
    BY <1>11, <1>14, <1>15, <1>17, <1>18, <1>19, <1>20, <2>1, <2>3, <2>4, EquityMoves
<1> QED
  BY <1>23, <1>24

LEMMA ExerciseMarkInv ==
  ASSUME EquityInv, NEW s \in Slots, ExerciseMark(s)
  PROVE  EquityInv'
<1>1. PICK d : d = call[s]
  OBVIOUS
<1>2. /\ d.op = "exercise" /\ d.at = "mark" /\ Becomes(s, Idle)
      /\ released' = [released EXCEPT ![ExerciseGrant[d.row]] = d.saw[1] + ExerciseQty[d.row]]
      /\ UNCHANGED <<journals, bal, month, muddled>>
  BY <1>1 DEF ExerciseMark, At, Leave, Becomes
<1>3. PICK g \in Grants : g = ExerciseGrant[d.row]
  BY <1>1, <1>2, ExerciseIs
<1>4. PICK v \in Nat : v = d.saw[1] + ExerciseQty[d.row]
  BY <1>1, <1>2, ExerciseIs
<1>5. /\ g \in Granted /\ AwardType[g] = "option" /\ v <= VestedUnits(g, month) /\ OnGrant(d, g)
      /\ v # None /\ d.saw[1] = v - ExerciseQty[d.row] /\ ExerciseQty[d.row] \in Nat
      /\ d.saw[1] \in Nat
  BY <1>1, <1>2, <1>3, <1>4, ExerciseIs, EquityAssumption
<1>6. released'[g] = v
  BY <1>2, <1>3, <1>4 DEF EquityInv, EquityTypeOK
<1>7. ASSUME g \notin muddled PROVE EvenRow(g)'
  <2>1. Delivered(g) <= v /\ VestedUpTo(g, released[g]) /\ d.saw[1] = released[g]
    BY <1>1, <1>2, <1>4, <1>5, <1>7, EvenIs DEF EvenCall
  <2>2. /\ Delivered(g)' = Delivered(g)
        /\ \A w \in Nat : Posted(<<"vest", g, w>>)' <=> Posted(<<"vest", g, w>>)
    <3>1. EquityTypeOK /\ UNCHANGED <<journals, bal>>
      BY <1>2 DEF EquityInv
    <3> QED
      BY <3>1, DeliveredFixed
  <2>3. VestedUpTo(g, v)
    BY <1>5, <2>1 DEF VestedUpTo
  <2> QED
    BY <1>5, <1>6, <2>1, <2>2, <2>3 DEF EvenRow, VestedUpTo
<1>8. PICK c : c = Idle
  OBVIOUS
<1>9. c \in EquityRequests /\ Becomes(s, c) /\ EquityCall(c)' /\ c.op = "idle"
  BY <1>2, <1>8, EquityIdle DEF EquityCall, Idle, Request
<1>10. /\ released' = [released EXCEPT ![g] = v] /\ v \in Nat \cup {None}
       /\ v = None \/ (v # None /\ v <= VestedUnits(g, month))
       /\ v = None => g \notin Granted
  BY <1>2, <1>3, <1>4, <1>5
<1>11. c.op = "grant" \/ (v # None /\ g \notin Granted) =>
         \A t \in Slots \ {s} : call[t].op = "grant" => call[t].row # g
  BY <1>5, <1>9
<1>12. /\ UNCHANGED <<journals, bal, month>> /\ (call[s] # Idle \/ c # Idle)
       /\ call[s] = Idle \/ OnGrant(call[s], g)
       /\ c = Idle \/ OnGrant(c, g)
       /\ \A h : h \in muddled => h \in muddled'
  BY <1>1, <1>2, <1>5, <1>8 DEF OnGrant
<1>13. /\ call[s] = Idle /\ c # Idle /\ g \notin muddled' => \A t \in Slots : ~OnGrant(call[t], g)
       /\ g \notin muddled' => IF c = Idle THEN EvenRow(g)' ELSE EvenCall(g, c)'
  BY <1>2, <1>7, <1>8
<1> QED
  BY <1>9, <1>10, <1>11, <1>12, <1>13, EquityQuiet

(* A call that dies muddles its grant.                                     *)
EquityDies(s) == Dies(s) /\ muddled' = muddled \cup {GrantOf(s)} /\ UNCHANGED <<released, month>>

LEMMA EquityDiesInv ==
  ASSUME EquityInv, NEW s \in Slots, EquityDies(s)
  PROVE  EquityInv'
<1>1. /\ call[s] # Idle /\ Becomes(s, Idle) /\ UNCHANGED <<journals, bal, month, released>>
      /\ muddled' = muddled \cup {GrantOf(s)}
  BY DEF EquityDies, Dies, Leave, Becomes, ledgerVars
<1>2. call[s].op \in {"grant", "release", "exercise"} /\ EquityCall(call[s])
  BY <1>1 DEF EquityInv, EquityTypeOK, EquityCalls, EquityCall, EquityRequests, EquityViews, Requests
<1>3. PICK g \in Grants : g = GrantOf(s) /\ OnGrant(call[s], g)
  <2>1. CASE call[s].op = "grant"
    BY <1>1, <1>2, <2>1 DEF EquityCall, GrantOf, OnGrant
  <2>2. CASE call[s].op = "release"
    BY <2>2, ReleaseIs DEF GrantOf, OnGrant
  <2>3. CASE call[s].op = "exercise"
    BY <2>3, ExerciseIs DEF GrantOf, OnGrant
  <2> QED
    BY <1>2, <2>1, <2>2, <2>3
<1>4. PICK n : n = released[g]
  OBVIOUS
<1>5. PICK c : c = Idle
  OBVIOUS
<1>6. c \in EquityRequests /\ Becomes(s, c) /\ EquityCall(c)' /\ c.op = "idle"
  BY <1>1, <1>5, EquityIdle DEF EquityCall, Idle, Request
<1>7. /\ released' = [released EXCEPT ![g] = n] /\ n \in Nat \cup {None}
      /\ n = None \/ (n # None /\ n <= VestedUnits(g, month))
      /\ n = None => g \notin Granted
  BY <1>1, <1>4 DEF EquityInv, EquityTypeOK, RowsVested, Granted
<1>8. c.op = "grant" \/ (n # None /\ g \notin Granted) =>
        \A t \in Slots \ {s} : call[t].op = "grant" => call[t].row # g
  BY <1>4, <1>6 DEF Granted
<1>9. /\ UNCHANGED <<journals, bal, month>> /\ (call[s] # Idle \/ c # Idle)
      /\ call[s] = Idle \/ OnGrant(call[s], g)
      /\ c = Idle \/ OnGrant(c, g)
      /\ \A h : h \in muddled => h \in muddled'
  BY <1>1, <1>3, <1>5
<1>10. /\ call[s] = Idle /\ c # Idle /\ g \notin muddled' => \A t \in Slots : ~OnGrant(call[t], g)
       /\ g \notin muddled' => IF c = Idle THEN EvenRow(g)' ELSE EvenCall(g, c)'
  BY <1>1, <1>3
<1> QED
  BY <1>6, <1>7, <1>8, <1>9, <1>10, EquityQuiet

(* Nothing but the month moves, or nothing at all.                         *)
LEMMA EquityMonthInv ==
  ASSUME EquityInv, UNCHANGED <<journals, bal, call, released, muddled>>,
         month' = month \/ month' = month + 1
  PROVE  EquityInv'
<1>1. EquityTypeOK /\ month \in Nat
  BY DEF EquityInv, EquityTypeOK
<1>2. EquityTypeOK'
  BY <1>1, DeliveredUnmoved DEF EquityTypeOK
<1>3. ASSUME NEW g \in Grants PROVE VestedUnits(g, month) \in Nat /\ VestedUnits(g, month)' \in Nat
                                   /\ VestedUnits(g, month) <= VestedUnits(g, month)'
  <2>1. CASE month' = month + 1
    <3>1. PICK m \in Nat : m = month
      BY <1>1
    <3>2. VestedUnits(g, m) <= VestedUnits(g, m + 1) /\ VestedUnits(g, m) \in Nat
          /\ VestedUnits(g, m + 1) \in Nat
      BY VestingGrows
    <3>3. VestedUnits(g, month)' = VestedUnits(g, m + 1)
      BY <2>1, <3>1 DEF VestedUnits
    <3> QED
      BY <3>1, <3>2, <3>3
  <2>2. CASE month' = month
    BY <1>1, <2>2, VestingGrows DEF VestedUnits
  <2> QED
    BY <2>1, <2>2
<1>4. Granted' = Granted /\ Granted \subseteq Grants
  BY DEF Granted
<1>5. EquityCalls'
  <2>1. ASSUME NEW s \in Slots PROVE EquityCall(call[s])'
    <3>1. PICK c : c = call[s]
      OBVIOUS
    <3>2. EquityCall(c) /\ call'[s] = c
      BY <3>1 DEF EquityInv, EquityCalls
    <3>3. EquityCall(c)'
      <4>1. c.op = "release" => c.saw[1] <= VestedUnits(c.row, month)'
        BY <1>3, <1>4, <3>2 DEF EquityCall
      <4>2. c.op = "exercise" =>
              c.saw[1] + ExerciseQty[c.row] <= VestedUnits(ExerciseGrant[c.row], month)'
        <5>1. c.op = "exercise" => ExerciseQty[c.row] \in Nat /\ ExerciseGrant[c.row] \in Grants
          BY <3>2, EquityAssumption DEF EquityCall
        <5> QED
          BY <1>3, <3>2, <5>1 DEF EquityCall
      <4> QED
        BY <1>4, <3>2, <4>1, <4>2 DEF EquityCall
    <3> QED
      BY <3>1, <3>2, <3>3
  <2> QED
    BY <2>1 DEF EquityCalls
<1>6. GrantsAlone'
  BY DEF EquityInv, GrantsAlone
<1>7. \A h \in Grants : /\ Delivered(h)' = Delivered(h)
                       /\ \A v \in Nat : Posted(<<"vest", h, v>>)' <=> Posted(<<"vest", h, v>>)
  BY <1>1, DeliveredFixed
<1>8. \A h \in Grants : Releases(h)' = Releases(h) /\ Exercised(h)' = Exercised(h)
  BY <1>1, DeliveredUnmoved
<1>9. RowsVested'
  <2>1. ASSUME NEW g \in Grants PROVE g \in Granted => released[g] <= VestedUnits(g, month)'
    BY <1>1, <1>3 DEF EquityInv, RowsVested, EquityTypeOK, Granted
  <2> QED
    BY <1>4, <1>8, <2>1 DEF EquityInv, RowsVested
<1>10. ASSUME NEW g \in Grants, g \notin muddled' PROVE EvenOn(g)'
  <2>1. EvenOn(g)
    BY <1>10 DEF EquityInv
  <2>2. EvenRow(g)' <=> EvenRow(g)
    BY <1>4, <1>7 DEF EvenRow, VestedUpTo
  <2>3. ASSUME NEW s \in Slots, OnGrant(call[s], g) PROVE EvenCall(g, call[s])'
    <3>1. PICK c : c = call[s]
      OBVIOUS
    <3>2. EvenCall(g, c) /\ call'[s] = c
      BY <2>1, <2>3, <3>1 DEF EvenOn
    <3>3. EvenCall(g, c)'
      BY <1>7, <2>2, <3>2 DEF EvenCall, VestedUpTo
    <3> QED
      BY <3>1, <3>2, <3>3
  <2>4. \A s \in Slots : OnGrant(call[s], g)' <=> OnGrant(call[s], g)
    BY DEF OnGrant
  <2> QED
    BY <2>1, <2>2, <2>3, <2>4 DEF EvenOn
<1> QED
  BY <1>2, <1>5, <1>6, <1>9, <1>10 DEF EquityInv

LEMMA EquityStepInv ==
  ASSUME EquityInv, EquityNext \/ UNCHANGED equityVars
  PROVE  EquityInv'
<1>1. CASE NextMonth
  <2>1. UNCHANGED <<journals, bal, call, released, muddled>> /\ month' = month + 1
    BY <1>1 DEF NextMonth
  <2> QED
    BY <2>1, EquityMonthInv
<1>2. ASSUME NEW s \in Slots,
             \/ \E g \in Grants : GrantCall(s, g) \/ ReleaseCall(s, g)
             \/ \E k \in Exercises : ExerciseCall(s, k)
             \/ GrantList(s) \/ GrantInsert(s)
             \/ ReleasePost(s) \/ ReleaseMark(s)
             \/ ExercisePost(s) \/ ExerciseMark(s)
             \/ Dies(s) /\ muddled' = muddled \cup {GrantOf(s)} /\ UNCHANGED <<released, month>>
      PROVE  EquityInv'
  BY <1>2, GrantCallInv, ReleaseCallInv, ExerciseCallInv, GrantListInv, GrantInsertInv, ReleasePostInv,
     ReleaseMarkInv, ExercisePostInv, ExerciseMarkInv, EquityDiesInv DEF EquityDies
<1>3. CASE UNCHANGED equityVars
  <2>1. UNCHANGED <<journals, bal, call, released, muddled>> /\ month' = month
    BY <1>3 DEF equityVars
  <2> QED
    BY <2>1, EquityMonthInv
<1> QED
  BY <1>1, <1>2, <1>3 DEF EquityNext

LEMMA EquityVests ==
  ASSUME EquityInv
  PROVE  UnitsFollowVesting
<1>1. ASSUME NEW g \in Granted PROVE released[g] <= VestedUnits(g, month) /\ g \in Grants
                                     /\ released[g] \in Nat /\ VestedUnits(g, month) \in Nat
  <2>1. g \in Grants /\ month \in Nat
    BY DEF Granted, EquityInv, EquityTypeOK
  <2> QED
    BY <1>1, <2>1, VestingGrows DEF Granted, EquityInv, EquityTypeOK, RowsVested
<1>2. ASSUME NEW g \in Granted, EvenRow(g) PROVE Delivered(g) <= VestedUnits(g, month)
  <2>1. Delivered(g) \in Int
    BY <1>1, DeliveredIs DEF EquityInv
  <2> QED
    BY <1>1, <1>2, <2>1 DEF EvenRow
<1>3. ASSUME NEW g \in Granted, g \notin muddled PROVE Delivered(g) <= VestedUnits(g, month)
  <2>1. CASE \A s \in Slots : ~OnGrant(call[s], g)
    BY <1>1, <1>2, <1>3, <2>1, EvenIs
  <2>2. CASE \E s \in Slots : OnGrant(call[s], g)
    <3>1. PICK s \in Slots : OnGrant(call[s], g)
      BY <2>2
    <3>2. PICK c : c = call[s]
      OBVIOUS
    <3>3. EvenCall(g, c) /\ EquityCall(c) /\ c # Idle /\ c.op \in {"idle", "grant", "release", "exercise"}
      BY <1>1, <1>3, <3>1, <3>2, EvenIs
      DEF EquityInv, EquityCalls, OnGrant, EquityTypeOK, EquityRequests, EquityViews, Requests
    <3>4. g = IF c.op = "exercise" THEN ExerciseGrant[c.row] ELSE c.row
      BY <3>1, <3>2 DEF OnGrant
    <3>5. c.op # "grant"
      BY <3>3, <3>4 DEF EquityCall, Granted
    <3>6. CASE c.at = "post"
      BY <1>2, <3>3, <3>5, <3>6 DEF EvenCall, EquityCall
    <3>7. CASE c.op = "release" /\ c.at = "mark"
      BY <3>3, <3>4, <3>7 DEF EvenCall, EquityCall
    <3>8. CASE c.op = "exercise" /\ c.at = "mark"
      <4>1. Delivered(g) \in Int /\ ExerciseQty[c.row] \in Nat
        BY <1>1, <3>3, <3>8, DeliveredIs, EquityAssumption DEF EquityInv, EquityCall
      <4>2. Delivered(g) <= c.saw[1] + ExerciseQty[c.row]
        BY <3>3, <3>8 DEF EvenCall
      <4>3. c.saw[1] + ExerciseQty[c.row] <= VestedUnits(g, month) /\ c.saw[1] \in Nat
        BY <3>3, <3>4, <3>8 DEF EquityCall
      <4> QED
        BY <1>1, <4>1, <4>2, <4>3
    <3> QED
      BY <3>3, <3>5, <3>6, <3>7, <3>8 DEF EquityCall
  <2> QED
    BY <2>1, <2>2
<1>4. ASSUME NEW g \in Granted, g \notin muddled, \A s \in Slots : call[s] = Idle
      PROVE  /\ Delivered(g) <= released[g]
             /\ AwardType[g] = "units" => Delivered(g) = released[g]
  <2>1. \A s \in Slots : ~OnGrant(call[s], g)
    BY <1>4 DEF OnGrant
  <2>2. EvenRow(g)
    BY <1>1, <1>4, <2>1, EvenIs
  <2> QED
    BY <2>2 DEF EvenRow
<1> QED
  BY <1>1, <1>3, <1>4 DEF UnitsFollowVesting

-----------------------------------------------------------------------------
(* Listings: the versions of a listing, and one asset for each slab.       *)

Statuses == DOMAIN Allowed
VersionRows == [status : Statuses, price : Nat]

ListingViews == {None, <<None>>} \cup {<<a>> : a \in Assets} \cup (Assets \X Nat \X Statuses \X Nat)

ListingRequests ==
  Requests({"idle", "approve", "reject", "issue", "admin"},
           {"idle", "insert", "mint", "list", "soft", "public", "write", "row"},
           Submissions \cup {"issued", None}, ListingViews)

ListingsTypeOK ==
  /\ call \in [Slots -> ListingRequests]
  /\ asset \in [Assets -> Submissions \cup {"issued", None}]
  /\ versions \in [Assets -> Seq(VersionRows)]
  /\ submission \in [Submissions -> [status : {"pending_human", "approved", "rejected"},
                                     asset : Assets \cup {None}]]

(* What may come after the versions v of a listing.                        *)
Follows(v, status, price) ==
  IF v = <<>> THEN status = "staging"
  ELSE \/ status = v[Len(v)].status
       \/ status \in Allowed[v[Len(v)].status] /\ price = v[Len(v)].price

Shown(a) == \E i \in 1..Len(versions[a]) : versions[a][i].status = "public"
AssetMinted(a) == Posted(<<"mint", a>>)

(* What a request knows of the asset it works on: its own for one that     *)
(* makes it, and a version number that still follows or is taken.          *)
ListingCall(c) ==
  /\ c.op = "idle" => c = Idle
  /\ c.op \in {"approve", "reject"} => c.row \in Submissions
  /\ c.op = "issue" => c.row = "issued" /\ c.at # "row"
  /\ c.op = "reject" => c.at = "row"
  /\ c.op = "admin" => c.at = "write"
  /\ c.at \in {"mint", "list", "soft", "public"} => c.saw[1] \in Assets /\ asset[c.saw[1]] = c.row
  /\ c.at \in {"list", "soft", "public"} => AssetMinted(c.saw[1])
  /\ c.at = "write" =>
       /\ c.saw \in Assets \X Nat \X Statuses \X Nat
       /\ asset[c.saw[1]] # None
       /\ c.saw[2] <= Len(versions[c.saw[1]])
       /\ c.saw[2] = Len(versions[c.saw[1]]) => Follows(versions[c.saw[1]], c.saw[3], c.saw[4])
       /\ c.op # "admin" => /\ asset[c.saw[1]] = c.row /\ AssetMinted(c.saw[1])
                            /\ c.saw[3] \in {"staging", "soft", "public"}
  /\ c.at = "row" /\ c.op = "approve" =>
       c.saw[1] \in Assets /\ asset[c.saw[1]] = c.row /\ AssetMinted(c.saw[1]) /\ Shown(c.saw[1])

ListingCalls == \A s \in Slots : ListingCall(call[s])

SlabOf(k) ==
  submission[k].asset # None =>
    /\ submission[k].asset \in Assets
    /\ asset[submission[k].asset] = k
    /\ AssetMinted(submission[k].asset) /\ Shown(submission[k].asset)

(* Decisions on a submission that follow one another: while nobody has     *)
(* taken the slab there is no asset of it.                                 *)
Decides(k, c) == c.op \in {"approve", "reject"} /\ c.row = k

NoAsset(k) == \A a \in Assets : asset[a] # k

Decided(k) ==
  /\ \A s, t \in Slots : Decides(k, call[s]) /\ Decides(k, call[t]) => s = t
  /\ \A a, b \in Assets : asset[a] = k /\ asset[b] = k => a = b
  /\ \A s \in Slots : Decides(k, call[s]) =>
       /\ submission[k].status = "pending_human"
       /\ call[s].op = "reject" \/ call[s].at = "insert" => NoAsset(k)
  /\ (\A s \in Slots : ~Decides(k, call[s])) /\ submission[k].status = "pending_human" => NoAsset(k)
  /\ submission[k].status = "rejected" => NoAsset(k)

ListingsInv ==
  /\ ListingsTypeOK
  /\ ListingCalls
  /\ VersionsFollowDiagram
  /\ \A k \in Submissions : SlabOf(k)
  /\ \A k \in Submissions : k \notin split => Decided(k)

LEMMA ListingsHold == ListingsInv => VersionsFollowDiagram /\ OneAssetPerSlab
BY DEF ListingsInv, OneAssetPerSlab, SlabOf, Decided, NoAsset, AssetMinted, Shown

LEMMA AllowedIs ==
  /\ Statuses = {"staging", "soft", "public", "paused", "delisted"}
  /\ \A st \in Statuses : Allowed[st] \subseteq Statuses /\ "list" \notin Allowed[st]
BY DEF Statuses, Allowed

LEMMA AppendIs ==
  ASSUME NEW V, NEW v \in Seq(V), NEW e \in V
  PROVE  /\ Append(v, e) \in Seq(V) /\ Len(v) \in Nat /\ Len(Append(v, e)) = Len(v) + 1
         /\ Append(v, e) # <<>>
         /\ Append(v, e)[Len(v) + 1] = e
         /\ \A i \in 1..Len(v) : Append(v, e)[i] = v[i] /\ v[i] \in V
OBVIOUS

LEMMA NextVersionIs ==
  ASSUME ListingsTypeOK, NEW a \in Assets, NEW op, NEW v \in NextVersion(a, op)
  PROVE  /\ v \in VersionRows /\ Follows(versions[a], v.status, v.price)
         /\ op = "list" => v.status = "staging"
         /\ op \in {"soft", "public"} => v.status = op
         /\ Len(versions[a]) \in Nat
<1>1. PICK w \in Seq(VersionRows) : w = versions[a]
  BY DEF ListingsTypeOK
<1>2. AskPrice \in Nat /\ ListPrices \subseteq Nat
  BY ListingsAssumption
<1>3. CASE w = <<>>
  BY <1>1, <1>2, <1>3, AllowedIs DEF NextVersion, Follows, VersionRows
<1>4. CASE w # <<>>
  <2>1. PICK last \in VersionRows : last = w[Len(w)]
    BY <1>4
  <2>2. last.status \in Statuses /\ last.price \in Nat
    BY DEF VersionRows
  <2>3. CASE op = "reprice"
    <3>1. PICK p \in Nat : v = [last EXCEPT !.price = p]
      <4>1. v \in {[last EXCEPT !.price = p] : p \in ListPrices}
        <5>1. versions[a] # <<>> /\ versions[a][Len(versions[a])] = last
          BY <1>1, <1>4, <2>1
        <5>2. PICK X : X = {[last EXCEPT !.price = p] : p \in ListPrices}
          BY Zenon
        <5>3. PICK Y : Y = {[last EXCEPT !.status = op]}
          BY Zenon
        <5>4. NextVersion(a, op) =
                CASE op = "reprice" -> {[last EXCEPT !.price = p] : p \in ListPrices}
                  [] op \in Allowed[last.status] -> {[last EXCEPT !.status = op]}
                  [] OTHER -> {}
          BY <5>1, Zenon DEF NextVersion
        <5>5. NextVersion(a, op) = CASE op = "reprice" -> X [] op \in Allowed[last.status] -> Y [] OTHER -> {}
          BY <5>2, <5>3, <5>4, Zenon
        <5>6. op \notin Allowed[last.status]
          BY <2>2, <2>3, AllowedIs
        <5>7. NextVersion(a, op) = X
          BY <2>3, <5>5, <5>6
        <5> QED
          BY <5>2, <5>7, Zenon
      <4>2. PICK p \in ListPrices : v = [last EXCEPT !.price = p]
        BY <4>1
      <4> QED
        BY <1>2, <4>2
    <3>2. v \in VersionRows /\ v.status = last.status
      BY <3>1 DEF VersionRows
    <3> QED
      BY <1>1, <1>4, <2>1, <2>3, <3>2 DEF Follows
  <2>4. CASE op # "reprice"
    <3>1. op \in Allowed[last.status] /\ v = [last EXCEPT !.status = op]
      BY <1>1, <1>4, <2>1, <2>4 DEF NextVersion
    <3>2. op \in Statuses /\ op # "list"
      BY <2>2, <3>1, AllowedIs
    <3>3. v \in VersionRows /\ v.status = op /\ v.price = last.price
      BY <3>1, <3>2 DEF VersionRows
    <3> QED
      BY <1>1, <1>4, <2>1, <3>1, <3>2, <3>3 DEF Follows
  <2> QED
    BY <2>3, <2>4
<1> QED
  BY <1>1, <1>3, <1>4

LEMMA ListingsInitInv == ListingsInit => ListingsInv
<1> SUFFICES ASSUME ListingsInit PROVE ListingsInv
  OBVIOUS
<1> USE DEF ListingsInit, ServiceInit
<1>1. ListingsTypeOK
  <2>1. Idle \in ListingRequests
    BY DEF ListingRequests, ListingViews, Requests, Idle, Request
  <2>2. <<>> \in Seq(VersionRows)
    OBVIOUS
  <2> QED
    BY <2>1, <2>2 DEF ListingsTypeOK
<1>2. ListingCalls
  BY DEF ListingCalls, ListingCall, Idle, Request
<1>3. VersionsFollowDiagram
  BY DEF VersionsFollowDiagram
<1>4. \A k \in Submissions : SlabOf(k)
  BY DEF SlabOf
<1>5. \A k \in Submissions : Decided(k)
  BY ListingsAssumption DEF Decided, Decides, NoAsset, Idle, Request
<1> QED
  BY <1>1, <1>2, <1>3, <1>4, <1>5 DEF ListingsInv

(* No step takes back an asset, a version or a mint.                       *)
ListingsGrow ==
  \A a \in Assets :
    /\ asset[a] # None => asset'[a] = asset[a]
    /\ versions'[a] = versions[a] \/ Len(versions'[a]) > Len(versions[a])
    /\ Shown(a) => Shown(a)'
    /\ AssetMinted(a) => AssetMinted(a)'

LEMMA ListingStays ==
  ASSUME ListingsTypeOK, ListingsGrow, NEW c \in ListingRequests, ListingCall(c)
  PROVE  ListingCall(c)'
<1>1. \A a \in Assets : Len(versions[a]) \in Nat
  BY DEF ListingsTypeOK
<1>2. c.op \in {"approve", "reject"} => c.row # None
  BY ListingsAssumption DEF ListingCall
<1>3. c.op = "issue" => c.row # None
  BY ListingsAssumption DEF ListingCall
<1>4. c.op \in {"idle", "approve", "reject", "issue", "admin"}
  BY DEF ListingRequests, Requests
<1>5. c.at \notin {"idle", "insert"} /\ c.op # "admin" => c.row # None
  BY <1>2, <1>3, <1>4 DEF ListingCall, Idle, Request
<1>6. c.op = "admin" => c.at = "write"
  BY DEF ListingCall
<1>7. c.at \in {"mint", "list", "soft", "public"} => c.saw[1] \in Assets /\ asset'[c.saw[1]] = c.row
  BY <1>5, <1>6 DEF ListingCall, ListingsGrow
<1>8. c.at \in {"list", "soft", "public"} => AssetMinted(c.saw[1])'
  BY DEF ListingCall, ListingsGrow
<1>9. ASSUME c.at = "write"
      PROVE  /\ c.saw \in Assets \X Nat \X Statuses \X Nat
             /\ asset'[c.saw[1]] # None
             /\ c.saw[2] <= Len(versions'[c.saw[1]])
             /\ c.saw[2] = Len(versions'[c.saw[1]]) => Follows(versions'[c.saw[1]], c.saw[3], c.saw[4])
             /\ c.op # "admin" => /\ asset'[c.saw[1]] = c.row /\ AssetMinted(c.saw[1])'
                                  /\ c.saw[3] \in {"staging", "soft", "public"}
  <2>1. PICK a \in Assets, n \in Nat : a = c.saw[1] /\ n = c.saw[2]
    BY <1>9 DEF ListingCall
  <2>2. asset[a] # None /\ n <= Len(versions[a])
        /\ (n = Len(versions[a]) => Follows(versions[a], c.saw[3], c.saw[4]))
    BY <1>9, <2>1 DEF ListingCall
  <2>3. asset'[a] = asset[a] /\ (AssetMinted(a) => AssetMinted(a)')
    BY <2>2 DEF ListingsGrow
  <2>4. CASE versions'[a] = versions[a]
    BY <1>9, <2>1, <2>2, <2>3, <2>4 DEF ListingCall
  <2>5. CASE versions'[a] # versions[a]
    <3>1. PICK m \in Nat : m = Len(versions[a])
      BY <1>1
    <3>2. Len(versions'[a]) > m /\ n <= m
      BY <2>2, <2>5, <3>1 DEF ListingsGrow
    <3>3. Len(versions'[a]) # n /\ n <= Len(versions'[a])
      BY <3>2
    <3> QED
      BY <1>9, <2>1, <2>2, <2>3, <3>3 DEF ListingCall
  <2> QED
    BY <2>4, <2>5
<1>10. c.at = "row" /\ c.op = "approve" =>
         c.saw[1] \in Assets /\ asset'[c.saw[1]] = c.row /\ AssetMinted(c.saw[1])' /\ Shown(c.saw[1])'
  BY <1>2 DEF ListingCall, ListingsGrow
<1>11. /\ c.op = "idle" => c = Idle
       /\ c.op \in {"approve", "reject"} => c.row \in Submissions
       /\ c.op = "issue" => c.row = "issued" /\ c.at # "row"
       /\ c.op = "reject" => c.at = "row"
       /\ c.op = "admin" => c.at = "write"
  BY DEF ListingCall
<1> QED
  BY <1>7, <1>8, <1>9, <1>10, <1>11 DEF ListingCall

(* The request of s becomes c; the rows may grow.                          *)
LEMMA ListingsMove ==
  ASSUME ListingsInv, NEW s \in Slots, NEW c \in ListingRequests, Becomes(s, c),
         asset' \in [Assets -> Submissions \cup {"issued", None}],
         versions' \in [Assets -> Seq(VersionRows)],
         submission' \in [Submissions -> [status : {"pending_human", "approved", "rejected"},
                                          asset : Assets \cup {None}]],
         ListingsGrow, ListingCall(c)', VersionsFollowDiagram',
         \A k \in Submissions : SlabOf(k)',
         \A k \in Submissions : k \notin split' => Decided(k)'
  PROVE  ListingsInv'
<1>1. call \in [Slots -> ListingRequests]
  BY DEF ListingsInv, ListingsTypeOK
<1>2. /\ call' \in [Slots -> ListingRequests] /\ call'[s] = c
      /\ \A t \in Slots \ {s} : call'[t] = call[t]
  BY <1>1, BecomesOne
<1>3. ListingsTypeOK'
  BY <1>2 DEF ListingsTypeOK
<1>4. ListingCalls'
  <2>1. ASSUME NEW t \in Slots \ {s} PROVE ListingCall(call[t])'
    <3>1. PICK d \in ListingRequests : d = call[t]
      BY <1>1
    <3>2. ListingCall(d) /\ ListingsTypeOK
      BY <3>1 DEF ListingsInv, ListingCalls
    <3>3. ListingCall(d)'
      BY <3>2, ListingStays
    <3> QED
      BY <1>2, <3>1, <3>3
  <2> QED
    BY <1>2, <2>1 DEF ListingCalls
<1> QED
  BY <1>3, <1>4 DEF ListingsInv

(* Nothing but mints and requests move.                                    *)
LEMMA ListingsQuiet ==
  ASSUME ListingsInv, NEW s \in Slots, NEW c \in ListingRequests, Becomes(s, c),
         UNCHANGED <<asset, versions, submission>>,
         \A a \in Assets : AssetMinted(a) => AssetMinted(a)',
         ListingCall(c)',
         \A k \in Submissions : k \in split => k \in split',
         \A k \in Submissions : k \notin split' =>
           /\ Decides(k, call[s]) => Decides(k, c) /\ c.op = call[s].op /\ c.at # "insert"
           /\ ~Decides(k, call[s]) /\ Decides(k, c) =>
                submission[k].status = "pending_human" /\ \A t \in Slots : ~Decides(k, call[t])
  PROVE  ListingsInv'
<1>1. /\ call' \in [Slots -> ListingRequests] /\ call'[s] = c
      /\ \A t \in Slots \ {s} : call'[t] = call[t]
  <2>1. call \in [Slots -> ListingRequests]
    BY DEF ListingsInv, ListingsTypeOK
  <2> QED
    BY <2>1, BecomesOne
<1>2. \A a \in Assets : Shown(a)' <=> Shown(a)
  BY DEF Shown
<1>3. ListingsGrow
  BY <1>2 DEF ListingsGrow
<1>4. \A k \in Submissions : SlabOf(k)'
  BY <1>2 DEF ListingsInv, SlabOf
<1>5. VersionsFollowDiagram'
  BY DEF ListingsInv, VersionsFollowDiagram
<1>6. \A k : NoAsset(k)' <=> NoAsset(k)
  BY DEF NoAsset
<1>7. ASSUME NEW k \in Submissions, k \notin split' PROVE Decided(k)'
  <2>1. Decided(k)
    BY <1>7 DEF ListingsInv
  <2>2. CASE Decides(k, call[s])
    <3>1. Decides(k, c) /\ c.op = call[s].op /\ c.at # "insert"
      BY <1>7, <2>2
    <3>2. \A t \in Slots : Decides(k, call'[t]) <=> Decides(k, call[t])
      BY <1>1, <2>2, <3>1
    <3>3. \A t \in Slots : Decides(k, call[t]) <=> t = s
      BY <2>1, <2>2 DEF Decided
    <3>4. submission[k].status = "pending_human" /\ (call[s].op = "reject" => NoAsset(k))
      BY <2>1, <2>2 DEF Decided
    <3>5. \A t \in Slots : Decides(k, call'[t]) =>
            (call'[t].op = "reject" \/ call'[t].at = "insert" => NoAsset(k))
      BY <1>1, <3>1, <3>2, <3>3, <3>4
    <3> QED
      BY <1>6, <2>1, <3>2, <3>3, <3>4, <3>5 DEF Decided, Decides
  <2>3. CASE ~Decides(k, call[s]) /\ Decides(k, c)
    <3>1. submission[k].status = "pending_human" /\ \A t \in Slots : ~Decides(k, call[t])
      BY <1>7, <2>3
    <3>2. NoAsset(k)
      BY <2>1, <3>1 DEF Decided
    <3>3. \A t \in Slots : Decides(k, call'[t]) <=> t = s
      BY <1>1, <2>3, <3>1
    <3> QED
      BY <1>6, <2>1, <3>1, <3>2, <3>3 DEF Decided, Decides
  <2>4. CASE ~Decides(k, call[s]) /\ ~Decides(k, c)
    <3>1. \A t \in Slots : Decides(k, call'[t]) <=> Decides(k, call[t])
      BY <1>1, <2>4
    <3>2. \A t \in Slots : Decides(k, call[t]) => call'[t] = call[t]
      BY <1>1, <2>4
    <3> QED
      BY <1>6, <2>1, <3>1, <3>2 DEF Decided, Decides
  <2> QED
    BY <2>2, <2>3, <2>4
<1>8. /\ asset' \in [Assets -> Submissions \cup {"issued", None}]
      /\ versions' \in [Assets -> Seq(VersionRows)]
      /\ submission' \in [Submissions -> [status : {"pending_human", "approved", "rejected"},
                                          asset : Assets \cup {None}]]
  BY DEF ListingsInv, ListingsTypeOK
<1> QED
  BY <1>3, <1>4, <1>5, <1>7, <1>8, ListingsMove

LEMMA ListingIdle == Idle \in ListingRequests /\ \A k : ~Decides(k, Idle)
BY DEF ListingRequests, ListingViews, Requests, Idle, Request, Decides

(* A request that goes wrong spoils the decision it was.                   *)
LEMMA SpoiledInv ==
  ASSUME ListingsInv, NEW s \in Slots, Leave(s), Spoil(s),
         UNCHANGED <<journals, bal, asset, versions, submission>>
  PROVE  ListingsInv'
<1>1. PICK c : c = Idle
  OBVIOUS
<1>2. c \in ListingRequests /\ Becomes(s, c) /\ \A k : ~Decides(k, c)
  BY <1>1, ListingIdle DEF Leave, Becomes
<1>3. ListingCall(c)'
  BY <1>1 DEF ListingCall, Idle, Request
<1>4. \A k \in Submissions : k \in split => k \in split'
  BY DEF Spoil
<1>5. \A k \in Submissions : k \notin split' => ~Decides(k, call[s])
  BY DEF Spoil, Decides
<1>6. \A a \in Assets : AssetMinted(a) => AssetMinted(a)'
  BY DEF AssetMinted, Posted
<1>7. \A k \in Submissions : k \notin split' =>
        /\ Decides(k, call[s]) => Decides(k, c) /\ c.op = call[s].op /\ c.at # "insert"
        /\ ~Decides(k, call[s]) /\ Decides(k, c) =>
             submission[k].status = "pending_human" /\ \A t \in Slots : ~Decides(k, call[t])
  BY <1>2, <1>5
<1>8. UNCHANGED <<asset, versions, submission>>
  OBVIOUS
<1> QED
  BY <1>2, <1>3, <1>4, <1>6, <1>7, <1>8, ListingsQuiet

LEMMA DecideInv ==
  ASSUME ListingsInv, NEW s \in Slots, NEW k \in Submissions, ApproveCall(s, k) \/ RejectCall(s, k)
  PROVE  ListingsInv'
<1>1. PICK op \in {"approve", "reject"}, at \in {"insert", "row"} :
        DecideSubmission(s, op, at, k) /\ (op = "reject" <=> at = "row")
  BY DEF ApproveCall, RejectCall
<1>2. PICK c : c = Request(op, at, k, <<None>>)
  OBVIOUS
<1>3. c.op = op /\ c.at = at /\ c.row = k
  BY <1>2 DEF Request
<1>4. c \in ListingRequests
  BY <1>2 DEF ListingRequests, ListingViews, Requests, Request
<1>5. call[s] = Idle /\ Becomes(s, c) /\ submission[k].status = "pending_human"
      /\ UNCHANGED <<journals, bal, asset, versions, submission>>
  BY <1>1, <1>2 DEF DecideSubmission, Begin, Becomes
<1>6. ListingCall(c)'
  BY <1>1, <1>3 DEF ListingCall
<1>7. split' = IF \E t \in Slots : Decides(k, call[t]) THEN split \cup {k} ELSE split
  BY <1>1 DEF DecideSubmission, Decides
<1>8. \A j \in Submissions : j \in split => j \in split'
  BY <1>7
<1>9. \A j \in Submissions : j \notin split' =>
        /\ Decides(j, call[s]) => Decides(j, c) /\ c.op = call[s].op /\ c.at # "insert"
        /\ ~Decides(j, call[s]) /\ Decides(j, c) =>
             submission[j].status = "pending_human" /\ \A t \in Slots : ~Decides(j, call[t])
  <2>1. ASSUME NEW j \in Submissions, j \notin split', Decides(j, c)
        PROVE  submission[j].status = "pending_human" /\ \A t \in Slots : ~Decides(j, call[t])
    <3>1. j = k
      BY <1>3, <2>1 DEF Decides
    <3> QED
      BY <1>5, <1>7, <2>1, <3>1
  <2> QED
    BY <1>5, <2>1, ListingIdle
<1>10. \A a \in Assets : AssetMinted(a) => AssetMinted(a)'
  BY <1>5 DEF AssetMinted, Posted
<1>11. UNCHANGED <<asset, versions, submission>>
  BY <1>5
<1> QED
  BY <1>4, <1>5, <1>6, <1>8, <1>9, <1>10, <1>11, ListingsQuiet

(* A request that decides nothing begins.                                  *)
LEMMA OtherBeginsInv ==
  ASSUME ListingsInv, NEW s \in Slots, NEW c \in ListingRequests, Becomes(s, c), call[s] = Idle,
         c.op \notin {"approve", "reject"}, ListingCall(c),
         UNCHANGED <<journals, bal, asset, versions, submission, split>>
  PROVE  ListingsInv'
<1>1. \A k : ~Decides(k, c) /\ ~Decides(k, call[s])
  BY ListingIdle DEF Decides
<1>2. \A a \in Assets : (AssetMinted(a)' <=> AssetMinted(a)) /\ (Shown(a)' <=> Shown(a))
  BY DEF AssetMinted, Posted, Shown
<1>3. ListingCall(c)'
  <2>1. ListingsGrow
    BY <1>2 DEF ListingsGrow
  <2> QED
    BY <2>1, ListingStays DEF ListingsInv
<1>4. \A k \in Submissions : k \in split => k \in split'
  OBVIOUS
<1>5. \A k \in Submissions : k \notin split' =>
        /\ Decides(k, call[s]) => Decides(k, c) /\ c.op = call[s].op /\ c.at # "insert"
        /\ ~Decides(k, call[s]) /\ Decides(k, c) =>
             submission[k].status = "pending_human" /\ \A t \in Slots : ~Decides(k, call[t])
  BY <1>1
<1>6. UNCHANGED <<asset, versions, submission>> /\ \A a \in Assets : AssetMinted(a) => AssetMinted(a)'
  BY <1>2
<1> QED
  BY <1>3, <1>4, <1>5, <1>6, ListingsQuiet

LEMMA IssueCallInv ==
  ASSUME ListingsInv, NEW s \in Slots, IssueCall(s)
  PROVE  ListingsInv'
<1>1. PICK c : c = Request("issue", "insert", "issued", <<None>>)
  OBVIOUS
<1>2. c \in ListingRequests /\ c.op = "issue" /\ c.at = "insert" /\ c.row = "issued"
  BY <1>1 DEF ListingRequests, ListingViews, Requests, Request
<1>3. ListingCall(c)
  BY <1>2 DEF ListingCall
<1>4. Becomes(s, c) /\ call[s] = Idle /\ UNCHANGED <<journals, bal, asset, versions, submission, split>>
  BY <1>1 DEF IssueCall, Begin, Becomes
<1> QED
  BY <1>2, <1>3, <1>4, OtherBeginsInv

(* What a writer takes along of the version it makes.                      *)
LEMMA SawIs ==
  ASSUME ListingsTypeOK, NEW a \in Assets, NEW v \in VersionRows
  PROVE  /\ Saw(a, v) \in Assets \X Nat \X Statuses \X Nat
         /\ Saw(a, v)[1] = a /\ Saw(a, v)[2] = Len(versions[a])
         /\ Saw(a, v)[3] = v.status /\ Saw(a, v)[4] = v.price
<1>1. Len(versions[a]) \in Nat /\ v.status \in Statuses /\ v.price \in Nat
  BY DEF ListingsTypeOK, VersionRows
<1> QED
  BY <1>1 DEF Saw

LEMMA AdminCallInv ==
  ASSUME ListingsInv, NEW s \in Slots, NEW a \in Assets, NEW op, AdminCall(s, a, op)
  PROVE  ListingsInv'
<1>1. ListingsTypeOK
  BY DEF ListingsInv
<1>2. PICK v \in NextVersion(a, op) : Begin(s, "admin", "write", None, Saw(a, v))
  BY DEF AdminCall
<1>3. v \in VersionRows /\ Follows(versions[a], v.status, v.price) /\ Len(versions[a]) \in Nat
  BY <1>1, NextVersionIs
<1>4. PICK w : w = Saw(a, v)
  OBVIOUS
<1>5. /\ w \in Assets \X Nat \X Statuses \X Nat
      /\ w[1] = a /\ w[2] = Len(versions[a]) /\ w[3] = v.status /\ w[4] = v.price
  BY <1>1, <1>3, <1>4, SawIs
<1>6. PICK c : c = Request("admin", "write", None, w)
  OBVIOUS
<1>7. c.op = "admin" /\ c.at = "write" /\ c.saw = w
  BY <1>6 DEF Request
<1>8. c \in ListingRequests
  BY <1>5, <1>6 DEF ListingRequests, ListingViews, Requests, Request
<1>9. asset[a] # None /\ UNCHANGED <<journals, bal, asset, versions, submission, split>>
  BY DEF AdminCall
<1>10. ListingCall(c)
  BY <1>3, <1>5, <1>7, <1>9 DEF ListingCall
<1>11. Becomes(s, c) /\ call[s] = Idle
  BY <1>2, <1>4, <1>6 DEF Begin, Becomes
<1>12. c.op \notin {"approve", "reject"}
  BY <1>7
<1> QED
  BY <1>8, <1>9, <1>10, <1>11, <1>12, OtherBeginsInv

(* createAsset, its row.                                                   *)
LEMMA AssetInsertInv ==
  ASSUME ListingsInv, NEW s \in Slots, NEW a \in Assets, AssetInsert(s, a)
  PROVE  ListingsInv'
<1>1. PICK d \in ListingRequests : d = call[s]
  BY DEF ListingsInv, ListingsTypeOK
<1>2. PICK k : k = d.row
  OBVIOUS
<1>3. /\ d.at = "insert" /\ asset[a] = None /\ asset' = [asset EXCEPT ![a] = k]
      /\ call' = [call EXCEPT ![s].at = "mint", ![s].saw = <<a>>]
      /\ UNCHANGED <<journals, bal, versions, submission, split>>
  BY <1>1, <1>2 DEF AssetInsert
<1>4. /\ d.op \in {"approve", "issue"} /\ (d.op = "approve" => k \in Submissions)
      /\ (d.op = "issue" => k = "issued")
  <2>1. ListingCall(d)
    BY <1>1 DEF ListingsInv, ListingCalls
  <2>2. d.op # "idle"
    BY <1>3, <2>1 DEF ListingCall, Idle, Request
  <2> QED
    BY <1>2, <1>3, <2>1, <2>2 DEF ListingCall, ListingRequests, Requests
<1>5. k # None /\ k \in Submissions \cup {"issued", None} /\ (d.op = "issue" => k \notin Submissions)
  BY <1>4, ListingsAssumption
<1>6. PICK c : c = Request(d.op, "mint", k, <<a>>)
  OBVIOUS
<1>7. c.op = d.op /\ c.at = "mint" /\ c.row = k /\ c.saw = <<a>> /\ c.saw[1] = a
  BY <1>6 DEF Request
<1>8. c \in ListingRequests
  BY <1>1, <1>5, <1>6 DEF ListingRequests, ListingViews, Requests, Request
<1>9. Becomes(s, c)
  <2>1. Becomes(s, Request(call[s].op, "mint", call[s].row, <<a>>))
    BY <1>3, SeesBecomes DEF ListingsInv, ListingsTypeOK, ListingRequests
  <2> QED
    BY <1>1, <1>2, <1>6, <2>1
<1>10. /\ asset' \in [Assets -> Submissions \cup {"issued", None}] /\ asset'[a] = k
       /\ \A b \in Assets \ {a} : asset'[b] = asset[b]
  BY <1>3, <1>5 DEF ListingsInv, ListingsTypeOK
<1>11. \A b \in Assets : (AssetMinted(b)' <=> AssetMinted(b)) /\ (Shown(b)' <=> Shown(b))
  BY <1>3 DEF AssetMinted, Posted, Shown
<1>12. ListingsGrow
  BY <1>3, <1>10, <1>11 DEF ListingsGrow
<1>13. ListingCall(c)'
  BY <1>4, <1>7, <1>10 DEF ListingCall
<1>14. VersionsFollowDiagram'
  <2>1. ASSUME NEW b \in Assets, asset[b] # None PROVE asset'[b] # None
    BY <1>3, <1>10, <2>1
  <2> QED
    BY <1>3, <2>1 DEF ListingsInv, VersionsFollowDiagram
<1>15. ASSUME NEW j \in Submissions PROVE SlabOf(j)'
  <2>1. SlabOf(j) /\ submission' = submission
    BY <1>3 DEF ListingsInv
  <2>2. j # None
    BY ListingsAssumption
  <2>3. \A b \in Assets : asset[b] = j => asset'[b] = j
    BY <1>3, <1>10, <2>2
  <2> QED
    BY <1>11, <2>1, <2>3 DEF SlabOf
<1>16. ASSUME NEW j \in Submissions, j \notin split' PROVE Decided(j)'
  <2>1. Decided(j) /\ submission' = submission
    BY <1>3, <1>16 DEF ListingsInv
  <2>2. /\ call'[s] = c /\ \A t \in Slots \ {s} : call'[t] = call[t]
    BY <1>8, <1>9, BecomesOne DEF ListingsInv, ListingsTypeOK
  <2>3. \A t \in Slots : Decides(j, call'[t]) <=> Decides(j, call[t])
    BY <1>1, <1>2, <1>7, <2>2 DEF Decides
  <2>4. CASE j = k
    <3>1. d.op = "approve" /\ Decides(j, call[s])
      BY <1>1, <1>2, <1>4, <1>5, <2>4 DEF Decides
    <3>2. NoAsset(j) /\ submission[j].status = "pending_human"
      BY <1>1, <1>3, <2>1, <3>1 DEF Decided
    <3>3. \A t \in Slots : Decides(j, call[t]) <=> t = s
      BY <2>1, <3>1 DEF Decided
    <3>4. \A b \in Assets : asset'[b] = j => b = a
      BY <1>10, <3>2 DEF NoAsset
    <3>5. \A t \in Slots : Decides(j, call'[t]) => call'[t].op # "reject" /\ call'[t].at # "insert"
      BY <1>7, <2>2, <2>3, <3>1, <3>3
    <3> QED
      BY <2>1, <2>3, <3>2, <3>3, <3>4, <3>5 DEF Decided, Decides
  <2>5. CASE j # k
    <3>1. \A b \in Assets : asset'[b] = j <=> asset[b] = j
      BY <1>3, <1>10, <2>5, ListingsAssumption
    <3>2. NoAsset(j)' <=> NoAsset(j)
      BY <3>1 DEF NoAsset
    <3>3. ~Decides(j, call[s])
      BY <1>1, <1>2, <2>5 DEF Decides
    <3>4. \A t \in Slots : Decides(j, call[t]) => call'[t] = call[t]
      BY <2>2, <3>3
    <3> QED
      BY <2>1, <2>3, <3>1, <3>2, <3>4 DEF Decided, Decides
  <2> QED
    BY <2>4, <2>5
<1>17. /\ versions' \in [Assets -> Seq(VersionRows)]
       /\ submission' \in [Submissions -> [status : {"pending_human", "approved", "rejected"},
                                           asset : Assets \cup {None}]]
  BY <1>3 DEF ListingsInv, ListingsTypeOK
<1> QED
  BY <1>8, <1>9, <1>10, <1>12, <1>13, <1>14, <1>15, <1>16, <1>17, ListingsMove

(* A request that decides or issues goes on with the same row.             *)
LEMMA ListingGoesOnInv ==
  ASSUME ListingsInv, NEW s \in Slots, NEW c \in ListingRequests, Becomes(s, c),
         c.op = call[s].op, c.row = call[s].row, c.at # "insert",
         UNCHANGED <<asset, versions, submission, split>>,
         \A a \in Assets : AssetMinted(a) => AssetMinted(a)',
         ListingCall(c)'
  PROVE  ListingsInv'
<1>1. \A k : Decides(k, c) <=> Decides(k, call[s])
  BY DEF Decides
<1>2. \A k \in Submissions : k \in split => k \in split'
  OBVIOUS
<1>3. \A k \in Submissions : k \notin split' =>
        /\ Decides(k, call[s]) => Decides(k, c) /\ c.op = call[s].op /\ c.at # "insert"
        /\ ~Decides(k, call[s]) /\ Decides(k, c) =>
             submission[k].status = "pending_human" /\ \A t \in Slots : ~Decides(k, call[t])
  BY <1>1
<1>4. UNCHANGED <<asset, versions, submission>>
  OBVIOUS
<1> QED
  BY <1>2, <1>3, <1>4, ListingsQuiet

LEMMA AssetMintInv ==
  ASSUME ListingsInv, NEW s \in Slots, AssetMint(s)
  PROVE  ListingsInv'
<1>1. PICK d \in ListingRequests : d = call[s]
  BY DEF ListingsInv, ListingsTypeOK
<1>2. PICK a : a = d.saw[1]
  OBVIOUS
<1>3. PICK f : f = Move(AssetEquity, AssetTreasury, 1)
  OBVIOUS
<1>4. /\ d.at = "mint" /\ PostJournal(<<"mint", a>>, f) /\ Goto(s, "list")
      /\ UNCHANGED <<asset, versions, submission, split>>
  BY <1>1, <1>2, <1>3 DEF AssetMint
<1>5. ListingCall(d) /\ d.op \in {"approve", "issue"} /\ a \in Assets /\ asset[a] = d.row
  <2>1. ListingCall(d)
    BY <1>1 DEF ListingsInv, ListingCalls
  <2>2. d.op # "idle"
    BY <1>4, <2>1 DEF ListingCall, Idle, Request
  <2> QED
    BY <1>2, <1>4, <2>1, <2>2 DEF ListingCall, ListingRequests, Requests
<1>6. DOMAIN journals \subseteq DOMAIN journals' /\ <<"mint", a>> \in DOMAIN journals'
  BY <1>4 DEF PostJournal, Posted, ledgerVars
<1>7. AssetMinted(a)' /\ \A b \in Assets : AssetMinted(b) => AssetMinted(b)'
  BY <1>6 DEF AssetMinted, Posted
<1>8. PICK c : c = Request(d.op, "list", d.row, d.saw)
  OBVIOUS
<1>9. c.op = d.op /\ c.at = "list" /\ c.row = d.row /\ c.saw = d.saw
  BY <1>8 DEF Request
<1>10. c \in ListingRequests
  BY <1>1, <1>8 DEF ListingRequests, Requests, Request
<1>11. Becomes(s, c)
  BY <1>1, <1>4, <1>8, GotoBecomes DEF ListingsInv, ListingsTypeOK, ListingRequests
<1>12. ListingCall(c)'
  BY <1>2, <1>4, <1>5, <1>7, <1>9 DEF ListingCall
<1>13. c.op = call[s].op /\ c.row = call[s].row /\ c.at # "insert"
  BY <1>1, <1>9
<1> QED
  BY <1>4, <1>7, <1>10, <1>11, <1>12, <1>13, ListingGoesOnInv

(* createListing and transitionListing read the version they build on.     *)
LEMMA CurrentReadInv ==
  ASSUME ListingsInv, NEW s \in Slots, CurrentRead(s)
  PROVE  ListingsInv'
<1>1. PICK d \in ListingRequests : d = call[s]
  BY DEF ListingsInv, ListingsTypeOK
<1>2. PICK a : a = d.saw[1]
  OBVIOUS
<1>3. PICK op \in {"list", "soft", "public"} : op = d.at
  BY <1>1 DEF CurrentRead
<1>4. ListingCall(d) /\ d.op \in {"approve", "issue"} /\ a \in Assets /\ asset[a] = d.row /\ AssetMinted(a)
      /\ d.row # None
  <2>1. ListingCall(d)
    BY <1>1 DEF ListingsInv, ListingCalls
  <2>2. d.op # "idle"
    BY <1>3, <2>1 DEF ListingCall, Idle, Request
  <2> QED
    BY <1>2, <1>3, <2>1, <2>2, ListingsAssumption DEF ListingCall, ListingRequests, Requests
<1>5. CASE NextVersion(a, op) = {}
  <2>1. Refused(s)
    BY <1>1, <1>2, <1>3, <1>5 DEF CurrentRead
  <2> QED
    BY <2>1, SpoiledInv DEF Refused
<1>6. CASE NextVersion(a, op) # {}
  <2>1. /\ \E v \in NextVersion(a, op) : call' = [call EXCEPT ![s].at = "write", ![s].saw = Saw(a, v)]
        /\ UNCHANGED <<journals, bal, asset, versions, submission, split>>
    BY <1>1, <1>2, <1>3, <1>6 DEF CurrentRead
  <2>2. PICK v \in NextVersion(a, op) : call' = [call EXCEPT ![s].at = "write", ![s].saw = Saw(a, v)]
    BY <2>1
  <2>3. /\ v \in VersionRows /\ Follows(versions[a], v.status, v.price)
        /\ v.status \in {"staging", "soft", "public"} /\ Len(versions[a]) \in Nat
    BY <1>4, NextVersionIs DEF ListingsInv
  <2>4. PICK w : w = Saw(a, v)
    OBVIOUS
  <2>5. /\ w \in Assets \X Nat \X Statuses \X Nat
        /\ w[1] = a /\ w[2] = Len(versions[a]) /\ w[3] = v.status /\ w[4] = v.price
    BY <1>4, <2>3, <2>4, SawIs DEF ListingsInv
  <2>6. PICK c : c = Request(d.op, "write", d.row, w)
    OBVIOUS
  <2>7. c.op = d.op /\ c.at = "write" /\ c.row = d.row /\ c.saw = w
    BY <2>6 DEF Request
  <2>8. c \in ListingRequests
    BY <1>1, <2>5, <2>6 DEF ListingRequests, ListingViews, Requests, Request
  <2>9. Becomes(s, c)
    <3>1. Becomes(s, Request(call[s].op, "write", call[s].row, w))
      BY <2>2, <2>4, SeesBecomes DEF ListingsInv, ListingsTypeOK, ListingRequests
    <3> QED
      BY <1>1, <2>6, <3>1
  <2>10. \A b \in Assets : AssetMinted(b)' <=> AssetMinted(b)
    BY <2>1 DEF AssetMinted, Posted
  <2>11. ListingCall(c)'
    <3>1. ListingCall(c)
      BY <1>4, <2>3, <2>5, <2>7 DEF ListingCall
    <3>2. ListingsGrow
      BY <2>1, <2>10 DEF ListingsGrow, Shown
    <3> QED
      BY <2>8, <3>1, <3>2, ListingStays DEF ListingsInv
  <2>12. c.op = call[s].op /\ c.row = call[s].row /\ c.at # "insert"
    BY <1>1, <2>7
  <2> QED
    BY <2>1, <2>8, <2>9, <2>10, <2>11, <2>12, ListingGoesOnInv
<1> QED
  BY <1>5, <1>6

(* The version that follows goes in, by the number that was read.          *)
LEMMA InsertVersionInv ==
  ASSUME ListingsInv, NEW s \in Slots, InsertVersion(s)
  PROVE  ListingsInv'
<1>1. PICK d \in ListingRequests : d = call[s]
  BY DEF ListingsInv, ListingsTypeOK
<1>2. d.at = "write" /\ ListingCall(d)
  BY <1>1 DEF InsertVersion, ListingsInv, ListingCalls
<1>3. PICK a \in Assets, n \in Nat, st \in Statuses, p \in Nat :
        a = d.saw[1] /\ n = d.saw[2] /\ st = d.saw[3] /\ p = d.saw[4]
  BY <1>2 DEF ListingCall
<1>4. /\ asset[a] # None
      /\ n = Len(versions[a]) => Follows(versions[a], st, p)
      /\ d.op # "admin" => asset[a] = d.row /\ AssetMinted(a) /\ st \in {"staging", "soft", "public"}
  BY <1>2, <1>3 DEF ListingCall
<1>5. d.op \in {"approve", "issue", "admin"}
  BY <1>2 DEF ListingCall, ListingRequests, Requests, Idle, Request
<1>6. CASE Len(versions[a]) # n
  <2>1. Refused(s)
    BY <1>1, <1>3, <1>6 DEF InsertVersion
  <2> QED
    BY <2>1, SpoiledInv DEF Refused
<1>7. CASE Len(versions[a]) = n
  <2>1. PICK e : e = [status |-> st, price |-> p]
    OBVIOUS
  <2>2. e \in VersionRows /\ e.status = st /\ e.price = p
    BY <2>1 DEF VersionRows
  <2>3. PICK v \in Seq(VersionRows) : v = versions[a]
    BY DEF ListingsInv, ListingsTypeOK
  <2>4. PICK w : w = Append(v, e)
    OBVIOUS
  <2>5. /\ w \in Seq(VersionRows) /\ Len(v) = n /\ Len(w) = n + 1 /\ w # <<>> /\ w[n + 1] = e
        /\ \A i \in 1..n : w[i] = v[i] /\ v[i] \in VersionRows
    BY <1>7, <2>2, <2>3, <2>4, AppendIs
  <2>6. /\ versions' = [versions EXCEPT ![a] = w]
        /\ IF AfterVersion(s) = "done" THEN Leave(s)
           ELSE call' = [call EXCEPT ![s].at = AfterVersion(s), ![s].saw = <<a>>]
        /\ UNCHANGED <<journals, bal, asset, submission, split>>
    BY <1>1, <1>3, <1>7, <2>1, <2>3, <2>4 DEF InsertVersion
  <2>7. /\ versions' \in [Assets -> Seq(VersionRows)] /\ versions'[a] = w
        /\ \A b \in Assets \ {a} : versions'[b] = versions[b]
    BY <2>5, <2>6 DEF ListingsInv, ListingsTypeOK
  <2>8. \A b \in Assets : AssetMinted(b)' <=> AssetMinted(b)
    BY <2>6 DEF AssetMinted, Posted
  <2>9. /\ \A b \in Assets : Shown(b) => Shown(b)'
        /\ st = "public" => Shown(a)'
    <3>1. ASSUME NEW b \in Assets, Shown(b) PROVE Shown(b)'
      <4>1. CASE b = a
        <5>1. PICK i \in 1..n : v[i].status = "public"
          BY <2>3, <2>5, <3>1, <4>1 DEF Shown
        <5>2. i \in 1..Len(w) /\ w[i].status = "public"
          BY <2>5, <5>1
        <5> QED
          BY <2>7, <4>1, <5>2 DEF Shown
      <4>2. CASE b # a
        BY <2>7, <3>1, <4>2 DEF Shown
      <4> QED
        BY <4>1, <4>2
    <3>2. ASSUME st = "public" PROVE Shown(a)'
      <4>1. n + 1 \in 1..Len(w) /\ w[n + 1].status = "public"
        BY <2>2, <2>5, <3>2
      <4> QED
        BY <2>7, <4>1 DEF Shown
    <3> QED
      BY <3>1, <3>2
  <2>10. ListingsGrow
    <3>1. Len(versions'[a]) > Len(versions[a])
      BY <1>7, <2>5, <2>7
    <3> QED
      BY <2>6, <2>7, <2>8, <2>9, <3>1 DEF ListingsGrow
  <2>11. VersionsFollowDiagram'
    <3>1. VersionsFollowDiagram
      BY DEF ListingsInv
    <3>2. w[1].status = "staging"
      <4>1. CASE v = <<>>
        BY <1>4, <1>7, <2>2, <2>3, <2>5, <4>1 DEF Follows
      <4>2. CASE v # <<>>
        <5>1. 1 \in 1..n /\ v[1].status = "staging"
          BY <2>3, <2>5, <3>1, <4>2 DEF VersionsFollowDiagram
        <5> QED
          BY <2>5, <5>1
      <4> QED
        BY <4>1, <4>2
    <3>3. ASSUME NEW i \in 1..Len(w) - 1
          PROVE  \/ w[i + 1].status = w[i].status
                 \/ w[i + 1].status \in Allowed[w[i].status] /\ w[i + 1].price = w[i].price
      <4>1. CASE i = n
        <5>1. v # <<>> /\ v[Len(v)] = v[n] /\ w[n] = v[n] /\ Follows(v, st, p)
          BY <1>4, <1>7, <2>3, <2>5, <4>1
        <5> QED
          BY <2>2, <2>5, <4>1, <5>1 DEF Follows
      <4>2. CASE i # n
        <5>1. i \in 1..Len(v) - 1 /\ i \in 1..n /\ i + 1 \in 1..n
          BY <2>5, <4>2
        <5>2. w[i] = v[i] /\ w[i + 1] = v[i + 1]
          BY <2>5, <5>1
        <5> QED
          BY <2>3, <3>1, <5>1, <5>2 DEF VersionsFollowDiagram
      <4> QED
        BY <4>1, <4>2
    <3>4. ASSUME NEW b \in Assets
          PROVE  /\ versions'[b] # <<>> => versions'[b][1].status = "staging" /\ asset'[b] # None
                 /\ \A i \in 1..Len(versions'[b]) - 1 :
                      \/ versions'[b][i + 1].status = versions'[b][i].status
                      \/ /\ versions'[b][i + 1].status \in Allowed[versions'[b][i].status]
                         /\ versions'[b][i + 1].price = versions'[b][i].price
      <4>1. CASE b = a
        BY <1>4, <2>6, <2>7, <3>2, <3>3, <4>1
      <4>2. CASE b # a
        BY <2>6, <2>7, <3>1, <4>2 DEF VersionsFollowDiagram
      <4> QED
        BY <4>1, <4>2
    <3> QED
      BY <3>4 DEF VersionsFollowDiagram
  <2>12. ASSUME NEW k \in Submissions PROVE SlabOf(k)'
    BY <2>6, <2>8, <2>9 DEF ListingsInv, SlabOf
  <2>13. \A k : NoAsset(k)' <=> NoAsset(k)
    BY <2>6 DEF NoAsset
  <2>14. PICK after : after = AfterVersion(s)
    OBVIOUS
  <2>15. /\ d.op = "approve" => after \in {"soft", "public", "row"}
         /\ after = "row" => st = "public"
         /\ d.op = "issue" => after \in {"soft", "done"}
         /\ d.op = "admin" => after = "done"
    <3>1. after = CASE d.op # "admin" /\ st = "staging" -> "soft"
                    [] d.op = "approve" /\ st = "soft" -> "public"
                    [] d.op = "approve" /\ st = "public" -> "row"
                    [] OTHER -> "done"
      BY <1>1, <1>3, <2>14 DEF AfterVersion
    <3> QED
      BY <1>4, <3>1
  <2>16. PICK c : c = IF after = "done" THEN Idle ELSE Request(d.op, after, d.row, <<a>>)
    OBVIOUS
  <2>17. Becomes(s, c)
    <3>1. CASE after = "done"
      BY <2>6, <2>14, <2>16, <3>1 DEF Leave, Becomes
    <3>2. CASE after # "done"
      <4>1. Becomes(s, Request(call[s].op, after, call[s].row, <<a>>))
        BY <2>6, <2>14, <3>2, SeesBecomes DEF ListingsInv, ListingsTypeOK, ListingRequests
      <4> QED
        BY <1>1, <2>16, <3>2, <4>1
    <3> QED
      BY <3>1, <3>2
  <2>18. c = Idle \/ (c.op = d.op /\ c.at = after /\ c.row = d.row /\ c.saw = <<a>> /\ c.saw[1] = a)
    BY <2>16 DEF Request
  <2>19. c \in ListingRequests
    <3>1. CASE after = "done"
      BY <2>16, <3>1, ListingIdle
    <3>2. CASE after # "done"
      <4>1. after \in {"soft", "public", "row"}
        BY <1>5, <2>15, <3>2
      <4> QED
        BY <1>1, <2>16, <3>2, <4>1 DEF ListingRequests, ListingViews, Requests, Request
    <3> QED
      BY <3>1, <3>2
  <2>20. ListingCall(c)'
    <3>1. CASE after = "done"
      BY <2>16, <3>1 DEF ListingCall, Idle, Request
    <3>2. CASE after # "done"
      <4>1. c.op = d.op /\ c.at = after /\ c.row = d.row /\ c.saw[1] = a
        BY <2>16, <3>2 DEF Request
      <4>2. d.op \in {"approve", "issue"} /\ after \in {"soft", "public", "row"}
            /\ (after = "row" => d.op = "approve" /\ st = "public")
        BY <1>5, <2>15, <3>2
      <4>3. asset'[a] = d.row /\ AssetMinted(a)' /\ (st = "public" => Shown(a)')
        BY <1>4, <2>6, <2>8, <2>9, <4>2
      <4>4. (d.op = "approve" => d.row \in Submissions) /\ (d.op = "issue" => d.row = "issued")
        BY <1>2 DEF ListingCall
      <4> QED
        BY <4>1, <4>2, <4>3, <4>4 DEF ListingCall
    <3> QED
      BY <3>1, <3>2
  <2>21. ASSUME NEW k \in Submissions, k \notin split' PROVE Decided(k)'
    <3>1. Decided(k) /\ submission' = submission
      BY <2>6, <2>21 DEF ListingsInv
    <3>2. /\ call'[s] = c /\ \A t \in Slots \ {s} : call'[t] = call[t]
      BY <2>17, <2>19, BecomesOne DEF ListingsInv, ListingsTypeOK
    <3>3. Decides(k, c) <=> Decides(k, d)
      BY <1>5, <2>15, <2>16, <2>18, ListingIdle DEF Decides, Request
    <3>4. \A t \in Slots : Decides(k, call'[t]) <=> Decides(k, call[t])
      BY <1>1, <3>2, <3>3
    <3>5. Decides(k, d) => c.op = "approve" /\ c.at # "insert"
      <4>1. ASSUME Decides(k, d) PROVE c.op = "approve" /\ c.at # "insert"
        <5>1. d.op = "approve" /\ after # "done" /\ after # "insert"
          BY <1>5, <2>15, <4>1 DEF Decides
        <5> QED
          BY <2>16, <5>1 DEF Request
      <4> QED
        BY <4>1
    <3>6. \A t \in Slots : Decides(k, call'[t]) =>
            (call'[t].op = "reject" \/ call'[t].at = "insert" => NoAsset(k))
      BY <1>1, <3>1, <3>2, <3>4, <3>5 DEF Decided
    <3>7. \A b \in Assets : asset'[b] = asset[b]
      BY <2>6
    <3> QED
      BY <2>13, <3>1, <3>4, <3>6, <3>7 DEF Decided, Decides
  <2>22. /\ asset' \in [Assets -> Submissions \cup {"issued", None}]
         /\ submission' \in [Submissions -> [status : {"pending_human", "approved", "rejected"},
                                             asset : Assets \cup {None}]]
    BY <2>6 DEF ListingsInv, ListingsTypeOK
  <2> QED
    BY <2>7, <2>10, <2>11, <2>12, <2>17, <2>19, <2>20, <2>21, <2>22, ListingsMove
<1> QED
  BY <1>6, <1>7

(* The submission's row, last.                                             *)
LEMMA SubmissionRowInv ==
  ASSUME ListingsInv, NEW s \in Slots, SubmissionRow(s)
  PROVE  ListingsInv'
<1>1. PICK d \in ListingRequests : d = call[s]
  BY DEF ListingsInv, ListingsTypeOK
<1>2. d.at = "row" /\ ListingCall(d)
  BY <1>1 DEF SubmissionRow, ListingsInv, ListingCalls
<1>3. d.op \in {"approve", "reject"}
  BY <1>2 DEF ListingCall, ListingRequests, Requests, Idle, Request
<1>4. PICK k \in Submissions : k = d.row
  BY <1>2, <1>3 DEF ListingCall
<1>5. PICK r : r = submission[k]
  OBVIOUS
<1>6. r.status \in {"pending_human", "approved", "rejected"} /\ r.asset \in Assets \cup {None}
      /\ r = [status |-> r.status, asset |-> r.asset]
  BY <1>5 DEF ListingsInv, ListingsTypeOK
<1>7. PICK q : q = IF d.op = "approve" THEN [status |-> "approved", asset |-> d.saw[1]]
                                       ELSE [status |-> "rejected", asset |-> r.asset]
  OBVIOUS
<1>8. /\ submission' = [submission EXCEPT ![k] = q]
      /\ Becomes(s, Idle) /\ UNCHANGED <<journals, bal, asset, versions, split>>
  <2>1. [r EXCEPT !.status = "rejected"] = [status |-> "rejected", asset |-> r.asset]
    BY <1>6
  <2> QED
    BY <1>1, <1>4, <1>5, <1>7, <2>1 DEF SubmissionRow, Leave, Becomes
<1>9. /\ d.op = "approve" => d.saw[1] \in Assets /\ asset[d.saw[1]] = k /\ AssetMinted(d.saw[1])
                              /\ Shown(d.saw[1])
  BY <1>2, <1>4 DEF ListingCall
<1>10. q \in [status : {"pending_human", "approved", "rejected"}, asset : Assets \cup {None}]
  BY <1>6, <1>7, <1>9
<1>11. /\ submission' \in [Submissions -> [status : {"pending_human", "approved", "rejected"},
                                           asset : Assets \cup {None}]]
       /\ submission'[k] = q /\ \A j \in Submissions \ {k} : submission'[j] = submission[j]
  BY <1>8, <1>10 DEF ListingsInv, ListingsTypeOK
<1>12. \A b \in Assets : (AssetMinted(b)' <=> AssetMinted(b)) /\ (Shown(b)' <=> Shown(b))
  BY <1>8 DEF AssetMinted, Posted, Shown
<1>13. ListingsGrow
  BY <1>8, <1>12 DEF ListingsGrow
<1>14. VersionsFollowDiagram'
  BY <1>8 DEF ListingsInv, VersionsFollowDiagram
<1>15. ASSUME NEW j \in Submissions PROVE SlabOf(j)'
  <2>1. SlabOf(j)
    BY DEF ListingsInv
  <2>2. CASE j # k
    BY <1>8, <1>11, <1>12, <2>1, <2>2 DEF SlabOf
  <2>3. CASE j = k /\ d.op = "approve"
    <3>1. submission'[j].asset = d.saw[1]
      BY <1>7, <1>11, <2>3
    <3> QED
      BY <1>8, <1>9, <1>12, <2>3, <3>1 DEF SlabOf
  <2>4. CASE j = k /\ d.op # "approve"
    <3>1. submission'[j].asset = submission[j].asset
      BY <1>5, <1>7, <1>11, <2>4
    <3> QED
      BY <1>8, <1>12, <2>1, <3>1 DEF SlabOf
  <2> QED
    BY <2>2, <2>3, <2>4
<1>16. PICK c : c = Idle
  OBVIOUS
<1>17. c \in ListingRequests /\ Becomes(s, c) /\ ListingCall(c)'
  BY <1>8, <1>16, ListingIdle DEF ListingCall, Idle, Request
<1>18. ASSUME NEW j \in Submissions, j \notin split' PROVE Decided(j)'
  <2>1. Decided(j)
    BY <1>8, <1>18 DEF ListingsInv
  <2>2. /\ call'[s] = c /\ \A t \in Slots \ {s} : call'[t] = call[t]
    BY <1>17, BecomesOne DEF ListingsInv, ListingsTypeOK
  <2>3. /\ NoAsset(j)' <=> NoAsset(j)
        /\ \A b \in Assets : asset'[b] = asset[b]
    BY <1>8 DEF NoAsset
  <2>4. ~Decides(j, call'[s])
    BY <1>16, <2>2, ListingIdle
  <2>5. CASE j = k
    <3>1. Decides(j, call[s])
      BY <1>1, <1>3, <1>4, <2>5 DEF Decides
    <3>2. \A t \in Slots : ~Decides(j, call'[t])
      BY <2>1, <2>2, <2>4, <3>1 DEF Decided
    <3>3. d.op = "reject" => NoAsset(j)
      BY <1>1, <2>1, <3>1 DEF Decided
    <3>4. submission'[j].status = IF d.op = "approve" THEN "approved" ELSE "rejected"
      BY <1>7, <1>11, <2>5
    <3> QED
      BY <1>3, <2>1, <2>3, <3>2, <3>3, <3>4 DEF Decided, Decides
  <2>6. CASE j # k
    <3>1. ~Decides(j, call[s])
      BY <1>1, <1>4, <2>6 DEF Decides
    <3>2. \A t \in Slots : (Decides(j, call'[t]) <=> Decides(j, call[t]))
                           /\ (Decides(j, call[t]) => call'[t] = call[t])
      BY <2>2, <2>4, <3>1
    <3>3. submission'[j] = submission[j]
      BY <1>11, <2>6
    <3> QED
      BY <2>1, <2>3, <3>2, <3>3 DEF Decided, Decides
  <2> QED
    BY <2>5, <2>6
<1>19. /\ asset' \in [Assets -> Submissions \cup {"issued", None}]
       /\ versions' \in [Assets -> Seq(VersionRows)]
  BY <1>8 DEF ListingsInv, ListingsTypeOK
<1> QED
  BY <1>11, <1>13, <1>14, <1>15, <1>17, <1>18, <1>19, ListingsMove

LEMMA ListingsStepInv ==
  ASSUME ListingsInv, ListingsNext \/ UNCHANGED listingsVars
  PROVE  ListingsInv'
<1>1. ASSUME NEW s \in Slots,
             \/ \E k \in Submissions : ApproveCall(s, k) \/ RejectCall(s, k)
             \/ IssueCall(s)
             \/ \E a \in Assets : \/ AssetInsert(s, a)
                                  \/ \E op \in {"list", "reprice"} \cup DOMAIN Allowed : AdminCall(s, a, op)
             \/ AssetMint(s) \/ CurrentRead(s) \/ InsertVersion(s) \/ SubmissionRow(s)
      PROVE  ListingsInv'
  BY <1>1, DecideInv, IssueCallInv, AssetInsertInv, AdminCallInv, AssetMintInv, CurrentReadInv,
     InsertVersionInv, SubmissionRowInv
<1>2. ASSUME NEW s \in Slots, Dies(s), Spoil(s), UNCHANGED <<asset, versions, submission>>
      PROVE  ListingsInv'
  <2>1. Leave(s) /\ Spoil(s) /\ UNCHANGED <<journals, bal, asset, versions, submission>>
    BY <1>2 DEF Dies, ledgerVars
  <2> QED
    BY <2>1, SpoiledInv
<1>3. CASE UNCHANGED listingsVars
  <2>1. UNCHANGED <<journals, bal, call, asset, versions, submission, split>>
    BY <1>3 DEF listingsVars
  <2>2. ListingsTypeOK'
    BY <2>1 DEF ListingsInv, ListingsTypeOK
  <2>3. ListingCalls'
    BY <2>1 DEF ListingsInv, ListingCalls, ListingCall, AssetMinted, Posted, Shown
  <2>4. VersionsFollowDiagram'
    BY <2>1 DEF ListingsInv, VersionsFollowDiagram
  <2>5. \A k \in Submissions : SlabOf(k)'
    BY <2>1 DEF ListingsInv, SlabOf, AssetMinted, Posted, Shown
  <2>6. \A k \in Submissions : k \notin split' => Decided(k)'
    BY <2>1 DEF ListingsInv, Decided, Decides, NoAsset
  <2> QED
    BY <2>2, <2>3, <2>4, <2>5, <2>6 DEF ListingsInv
<1> QED
  BY <1>1, <1>2, <1>3 DEF ListingsNext

-----------------------------------------------------------------------------
(* TeenSpend: the gate, the guardian's approvals, the holds and what is    *)
(* rounded up beside them.                                                 *)

TeenRequests ==
  Requests({"idle", "buy", "guardian", "deny"},
           {"idle", "authorize", "ask", "approve-review", "approve-request", "deny-review",
            "deny-request"},
           Buys \cup {None}, {"gate", "guardian", None})

TeenTypeOK ==
  /\ LedgerTypeOK
  /\ call \in [Slots -> TeenRequests]
  /\ allowed \in [Buys -> {"none", "gate", "guardian"}]
  /\ asked \in [Buys -> [review : {"none", "pending", "approved", "rejected"},
                         request : {"none", "pending", "approved", "denied"}]]

(* What a request knows: a purchase that passed the gate is within the     *)
(* limit, and one whose approval is written was authorized.                *)
Passing(c) == c.op = "buy" /\ c.at = "authorize" /\ c.saw = "gate"

TeenCallOK(c) ==
  /\ c.op # "idle" => c.row \in Buys
  /\ c.op = "buy" /\ c.at = "authorize" => c.saw \in {"gate", "guardian"}
  /\ Passing(c) => BuyAmount[c.row] <= SpendLimit
  /\ c.at \in {"approve-review", "approve-request"} => c.row \in Buys /\ allowed[c.row] # "none"

TeenCallsOK == \A s \in Slots : TeenCallOK(call[s])

Passed(k) ==
  /\ allowed[k] = "gate" => BuyAmount[k] <= SpendLimit
  /\ asked[k].request = "approved" => allowed[k] # "none"
  /\ allowed[k] # "none" <=> Posted(<<"hold", k>>)

(* What is left of the limit covers all but those that can overlap.        *)
AtGate == {s \in Slots : Passing(call[s])}
Buying == [s \in Slots |-> BuyAmount[call[s].row]]
Ungated == AllowedBy({"gate"})
GateCovers == RoomCovers(SpendLimit - Sum(Ungated), AtGate, Buying, SpendLimit)

TeenInv ==
  /\ TeenTypeOK
  /\ TeenCallsOK
  /\ \A k \in Buys : Passed(k)
  /\ GateCovers
  /\ TeenShortByRoundUps

LEMMA TeenSums ==
  ASSUME NEW K \in SUBSET Buys
  PROVE  /\ IsFiniteSet(K)
         /\ Sum(K) \in Nat /\ SumFunctionOnSet(SpareChange, K) \in Nat
         /\ \A k \in K : BuyAmount[k] \in Int /\ SpareChange[k] \in Int
<1>1. IsFiniteSet(K) /\ \A k \in K : BuyAmount[k] \in Nat /\ SpareChange[k] \in Nat
  BY TeenSpendAssumption, FS_Subset
<1>2. SumFunctionOnSet(BuyAmount, K) \in Nat
  BY <1>1, SumNat
<1>3. SumFunctionOnSet(SpareChange, K) \in Nat
  BY <1>1, SumNat
<1> QED
  BY <1>1, <1>2, <1>3 DEF Sum

LEMMA TeenInitInv == TeenSpendInit => TeenInv
<1> SUFFICES ASSUME TeenSpendInit PROVE TeenInv
  OBVIOUS
<1> USE OpeningAssumption DEF TeenSpendInit, ServiceInit, LedgerInit
<1>1. LedgerTypeOK
  BY DEF LedgerTypeOK, Effects
<1>2. TeenTypeOK
  BY <1>1 DEF TeenTypeOK, TeenRequests, Requests, Idle, Request
<1>3. TeenCallsOK
  BY DEF TeenCallsOK, TeenCallOK, Passing, Idle, Request
<1>4. \A key : ~Posted(key)
  BY DEF Posted
<1>5. \A k \in Buys : Passed(k)
  BY <1>4 DEF Passed
<1>6. GateCovers
  <2>1. AtGate = {} /\ Ungated = {}
    BY DEF AtGate, Passing, Idle, Request, Ungated, AllowedBy
  <2>2. Sum({}) = 0 /\ SpendLimit \in Nat
    BY SumEmpty, TeenSpendAssumption DEF Sum
  <2>3. SpendLimit - Sum(Ungated) = SpendLimit
    BY <2>1, <2>2
  <2> QED
    BY <2>1, <2>2, <2>3, CoverStart DEF GateCovers
<1>7. TeenShortByRoundUps
  <2>1. {k \in Buys : Posted(<<"round-up", k>>)} = {}
    BY <1>4
  <2>2. bal[TeenCash] \in Int /\ bal[TeenCash] >= 0
    BY TeenSpendAssumption
  <2>3. SumFunctionOnSet(SpareChange, {}) = 0
    BY SumEmpty
  <2>4. SumFunctionOnSet(SpareChange, {k \in Buys : Posted(<<"round-up", k>>)}) = 0
    BY <2>1, <2>3
  <2> QED
    BY <2>2, <2>4 DEF TeenShortByRoundUps
<1> QED
  BY <1>2, <1>3, <1>5, <1>6, <1>7 DEF TeenInv

LEMMA GateTakes ==
  ASSUME TeenTypeOK, TeenCallsOK
  PROVE  /\ AtGate \in SUBSET Slots
         /\ \A s \in AtGate : Buying[s] \in 0..SpendLimit
         /\ Sum(Ungated) \in Nat /\ SpendLimit \in Nat /\ SpendLimit - Sum(Ungated) \in Int
<1>1. Ungated \in SUBSET Buys
  BY DEF Ungated, AllowedBy
<1>2. ASSUME NEW s \in AtGate PROVE Buying[s] \in 0..SpendLimit
  <2>1. s \in Slots /\ Passing(call[s]) /\ TeenCallOK(call[s])
    BY <1>2 DEF AtGate, TeenCallsOK
  <2>2. call[s].row \in Buys /\ BuyAmount[call[s].row] <= SpendLimit
    BY <2>1 DEF TeenCallOK, Passing
  <2> QED
    BY <2>1, <2>2, TeenSpendAssumption DEF Buying
<1>3. Sum(Ungated) \in Nat /\ SpendLimit \in Nat
  BY <1>1, TeenSums, TeenSpendAssumption
<1> QED
  BY <1>2, <1>3 DEF AtGate

LEMMA TeenInvBounds == TeenInv => AllowanceHolds /\ TeenShortByRoundUps
<1> SUFFICES ASSUME TeenInv PROVE AllowanceHolds
  BY DEF TeenInv
<1>1. PICK n \in Nat : n = Cardinality(Slots)
  BY SlotsFinite
<1>2. PICK g \in Nat, l \in Nat : g = Sum(Ungated) /\ l = SpendLimit
  BY GateTakes DEF TeenInv
<1>3. l - g >= -(n - 1) * l
  BY <1>1, <1>2, GateTakes, CoverBound DEF TeenInv, GateCovers
<1>4. n * l = (n - 1) * l + l /\ (n - 1) * l \in Int /\ -(n - 1) * l = -((n - 1) * l)
  OBVIOUS
<1>5. g <= n * l
  BY <1>3, <1>4
<1> QED
  BY <1>1, <1>2, <1>5 DEF AllowanceHolds, Ungated, TeenInv, Passed, AllowedBy

(* The request of s goes on, and is not, or no longer, one that passed the *)
(* gate: at most its own amount was let through.                           *)
LEMMA GateMoves ==
  ASSUME TeenInv, NEW s \in Slots, NEW c \in TeenRequests, Becomes(s, c), ~Passing(c),
         Sum(Ungated)' \in Nat,
         Sum(Ungated)' <= Sum(Ungated) + (IF s \in AtGate THEN BuyAmount[call[s].row] ELSE 0)
  PROVE  GateCovers'
<1>1. call' \in [Slots -> TeenRequests] /\ call'[s] = c /\ \A t \in Slots \ {s} : call'[t] = call[t]
  BY BecomesOne DEF TeenInv, TeenTypeOK
<1>2. PICK l \in Nat : l = SpendLimit
  BY TeenSpendAssumption
<1>3. PICK b \in Int, d \in Int : b = l - Sum(Ungated) /\ d = l - Sum(Ungated)'
  BY <1>2, GateTakes DEF TeenInv
<1>4. /\ AtGate \in SUBSET Slots /\ \A t \in AtGate : Buying[t] \in 0..l
      /\ RoomCovers(b, AtGate, Buying, l)
  BY <1>2, <1>3, GateTakes DEF TeenInv, GateCovers
<1>5. PICK S \in SUBSET Slots : S = AtGate
  BY <1>4
<1>6. PICK x, y : x = Buying /\ y = Buying'
  OBVIOUS
<1>7. AtGate' = S \ {s}
  BY <1>1, <1>5 DEF AtGate, Passing
<1>8. \A t \in S \ {s} : y[t] = x[t]
  BY <1>1, <1>5, <1>6 DEF Buying
<1>9. Sum(Ungated) \in Nat
  BY GateTakes DEF TeenInv
<1>10. RoomCovers(d, S \ {s}, y, l)
  <2>1. CASE s \in S
    <3>1. x[s] = BuyAmount[call[s].row] /\ x[s] \in Nat
      <4>1. Buying[s] \in 0..l /\ Buying[s] = BuyAmount[call[s].row]
        BY <1>4, <1>5, <2>1 DEF Buying
      <4> QED
        BY <1>2, <1>6, <4>1
    <3>2. d >= b - x[s]
      BY <1>2, <1>3, <1>5, <1>9, <2>1, <3>1
    <3> QED
      BY <1>4, <1>5, <1>6, <1>8, <2>1, <3>2, CoverEnds
  <2>2. CASE s \notin S
    <3>1. S \ {s} = S /\ d >= b
      BY <1>2, <1>3, <1>5, <1>9, <2>2
    <3> QED
      BY <1>4, <1>5, <1>6, <1>8, <3>1, CoverStays
  <2> QED
    BY <2>1, <2>2
<1> QED
  BY <1>2, <1>3, <1>6, <1>7, <1>10 DEF GateCovers

(* One passes the gate.                                                    *)
LEMMA GatePassed ==
  ASSUME TeenInv, NEW s \in Slots, call[s] = Idle, NEW c \in TeenRequests, Becomes(s, c),
         Passing(c), c.row \in Buys, Sum(Ungated) + BuyAmount[c.row] <= SpendLimit,
         Sum(Ungated)' = Sum(Ungated)
  PROVE  GateCovers'
<1>1. call' \in [Slots -> TeenRequests] /\ call'[s] = c /\ \A t \in Slots \ {s} : call'[t] = call[t]
  BY BecomesOne DEF TeenInv, TeenTypeOK
<1>2. PICK l \in Nat : l = SpendLimit
  BY TeenSpendAssumption
<1>3. PICK b \in Int : b = l - Sum(Ungated)
  BY <1>2, GateTakes DEF TeenInv
<1>4. PICK S \in SUBSET Slots : S = AtGate
  BY DEF AtGate
<1>5. s \notin S
  BY <1>4 DEF AtGate, Passing, Idle, Request
<1>6. AtGate' = S \cup {s}
  BY <1>1, <1>4 DEF AtGate, Passing
<1>7. PICK y : y = Buying'
  OBVIOUS
<1>8. y[s] = BuyAmount[c.row] /\ y[s] \in Nat
  BY <1>1, <1>7, TeenSpendAssumption DEF Buying
<1>9. b >= y[s]
  BY <1>2, <1>3, <1>8, GateTakes DEF TeenInv
<1>10. RoomCovers(b, S \cup {s}, y, l)
  BY <1>5, <1>8, <1>9, CoverBegins
<1> QED
  BY <1>2, <1>3, <1>6, <1>7, <1>10 DEF GateCovers

(* Who was let through stays so.                                           *)
TeenKept ==
  /\ LedgerTypeOK'
  /\ allowed' \in [Buys -> {"none", "gate", "guardian"}]
  /\ \A k \in Buys : allowed[k] # "none" => allowed'[k] # "none"

LEMMA TeenMoves ==
  ASSUME TeenInv, TeenKept, NEW s \in Slots, NEW c \in TeenRequests, Becomes(s, c), TeenCallOK(c)',
         asked' \in [Buys -> [review : {"none", "pending", "approved", "rejected"},
                              request : {"none", "pending", "approved", "denied"}]],
         \A k \in Buys : Passed(k)', GateCovers', TeenShortByRoundUps'
  PROVE  TeenInv'
<1>1. call' \in [Slots -> TeenRequests] /\ call'[s] = c /\ \A t \in Slots \ {s} : call'[t] = call[t]
  BY BecomesOne DEF TeenInv, TeenTypeOK
<1>2. TeenTypeOK'
  BY <1>1 DEF TeenTypeOK, TeenKept
<1>3. ASSUME NEW t \in Slots PROVE TeenCallOK(call[t])'
  <2>1. CASE t = s
    BY <1>1, <2>1 DEF TeenCallOK, Passing
  <2>2. CASE t # s
    <3>1. PICK d \in TeenRequests : d = call[t] /\ TeenCallOK(d)
      BY DEF TeenInv, TeenTypeOK, TeenCallsOK
    <3>2. d.at \in {"approve-review", "approve-request"} => d.row \in Buys /\ allowed'[d.row] # "none"
      BY <3>1 DEF TeenCallOK, TeenKept
    <3>3. TeenCallOK(d)'
      BY <3>1, <3>2 DEF TeenCallOK, Passing
    <3> QED
      BY <1>1, <2>2, <3>1, <3>3 DEF TeenCallOK, Passing
  <2> QED
    BY <2>1, <2>2
<1> QED
  BY <1>2, <1>3 DEF TeenInv, TeenCallsOK

(* A step that leaves journals, balances and who was let through.          *)
LEMMA TeenQuiet ==
  ASSUME TeenInv, NEW s \in Slots, NEW c \in TeenRequests, Becomes(s, c), TeenCallOK(c),
         UNCHANGED <<journals, bal, allowed>>,
         asked' \in [Buys -> [review : {"none", "pending", "approved", "rejected"},
                              request : {"none", "pending", "approved", "denied"}]],
         \A k \in Buys : asked'[k].request = "approved" => allowed[k] # "none",
         Passing(c) => call[s] = Idle /\ c.row \in Buys /\ ~OverLimit(c.row)
  PROVE  TeenInv'
<1>1. TeenKept
  BY DEF TeenInv, TeenTypeOK, TeenKept, LedgerTypeOK
<1>2. TeenCallOK(c)'
  BY DEF TeenCallOK, Passing
<1>3. \A k \in Buys : Passed(k)'
  BY DEF TeenInv, Passed, Posted
<1>4. TeenShortByRoundUps'
  BY DEF TeenInv, TeenShortByRoundUps, Posted
<1>5. Ungated' = Ungated /\ Sum(Ungated)' = Sum(Ungated) /\ Sum(Ungated) \in Nat
  BY GateTakes DEF Ungated, AllowedBy, Sum, TeenInv
<1>6. GateCovers'
  <2>1. CASE Passing(c)
    <3>1. Sum(Ungated) + BuyAmount[c.row] <= SpendLimit
      <4>1. PICK G \in SUBSET Buys, A \in SUBSET Buys :
              G = Ungated /\ A = AllowedBy({"gate", "guardian"}) /\ G \subseteq A
        <5>1. Ungated \subseteq AllowedBy({"gate", "guardian"})
          BY DEF Ungated, AllowedBy
        <5>2. AllowedBy({"gate", "guardian"}) \subseteq Buys
          BY DEF AllowedBy
        <5> QED
          BY <5>1, <5>2
      <4>2. Sum(G) \in Nat /\ Sum(A) \in Nat /\ IsFiniteSet(A) /\ \A k \in A : BuyAmount[k] \in Nat
        BY TeenSums, TeenSpendAssumption
      <4>3. Sum(G) <= Sum(A)
        BY <4>1, <4>2, SumGrows DEF Sum
      <4>4. BuyAmount[c.row] \in Nat /\ SpendLimit \in Nat
        BY <2>1, TeenSpendAssumption
      <4> QED
        BY <2>1, <4>1, <4>2, <4>3, <4>4 DEF OverLimit
    <3> QED
      BY <1>5, <2>1, <3>1, GatePassed
  <2>2. CASE ~Passing(c)
    <3>1. s \in AtGate => BuyAmount[call[s].row] \in Nat
      BY TeenSpendAssumption DEF TeenInv, TeenCallsOK, TeenCallOK, AtGate, Passing
    <3> QED
      BY <1>5, <2>2, <3>1, GateMoves
  <2> QED
    BY <2>1, <2>2
<1> QED
  BY <1>1, <1>2, <1>3, <1>4, <1>6, TeenMoves

LEMMA TeenHas ==
  ASSUME TeenInv, NEW s \in Slots
  PROVE  call[s] \in TeenRequests /\ TeenCallOK(call[s])
BY DEF TeenInv, TeenTypeOK, TeenCallsOK

LEMMA TeenIdle == Idle \in TeenRequests /\ ~Passing(Idle) /\ TeenCallOK(Idle) /\ TeenCallOK(Idle)'
BY DEF Idle, Request, TeenRequests, Requests, Passing, TeenCallOK

LEMMA TeenGoto ==
  ASSUME TeenInv, NEW s \in Slots,
         NEW at \in {"approve-review", "approve-request", "deny-review", "deny-request"}, Goto(s, at)
  PROVE  \E c \in TeenRequests : /\ Becomes(s, c) /\ c.op = call[s].op /\ c.at = at
                                 /\ c.row = call[s].row /\ c.saw = call[s].saw
<1>1. call \in [Slots -> TeenRequests]
  BY DEF TeenInv, TeenTypeOK
<1>2. Becomes(s, Request(call[s].op, at, call[s].row, call[s].saw))
  BY <1>1, GotoBecomes DEF TeenRequests
<1>3. Request(call[s].op, at, call[s].row, call[s].saw) \in TeenRequests
  BY <1>1 DEF TeenRequests, Requests, Request
<1>4. PICK c \in TeenRequests : c = Request(call[s].op, at, call[s].row, call[s].saw)
  BY <1>3
<1> QED
  BY <1>2, <1>4, RequestHas

(* authorize, up to its transaction.                                       *)
LEMMA TeenCallInv ==
  ASSUME TeenInv, NEW s \in Slots, NEW k \in Buys, TeenCall(s, k)
  PROVE  TeenInv'
<1>1. UNCHANGED <<journals, bal, allowed, asked>> /\ call[s] = Idle
  BY DEF TeenCall, Begin
<1>2. PICK at \in {"authorize", "ask"}, saw \in {"gate", "guardian", None} :
        /\ Begin(s, "buy", at, k, saw)
        /\ at = "authorize" => saw \in {"gate", "guardian"}
        /\ at = "authorize" /\ saw = "gate" => ~OverLimit(k)
  <2>1. CASE ~OverLimit(k) /\ Begin(s, "buy", "authorize", k, "gate")
    BY <2>1
  <2>2. CASE Begin(s, "buy", "authorize", k, "guardian")
    BY <2>2
  <2>3. CASE Begin(s, "buy", "ask", k, None)
    BY <2>3
  <2> QED
    BY <2>1, <2>2, <2>3 DEF TeenCall
<1>3. PICK c \in TeenRequests : c = Request("buy", at, k, saw)
  BY RequestIn DEF TeenRequests
<1>4. c.op = "buy" /\ c.at = at /\ c.row = k /\ c.saw = saw /\ Becomes(s, c)
  BY <1>2, <1>3, RequestHas DEF Begin, Becomes
<1>5. ~OverLimit(k) => BuyAmount[k] <= SpendLimit
  <2>1. PICK A \in SUBSET Buys : A = AllowedBy({"gate", "guardian"})
    BY DEF AllowedBy
  <2>2. Sum(A) \in Nat
    BY TeenSums
  <2> QED
    BY <2>1, <2>2, TeenSpendAssumption DEF OverLimit
<1>6. TeenCallOK(c)
  BY <1>2, <1>4, <1>5 DEF TeenCallOK, Passing
<1>7. \A i \in Buys : asked'[i].request = "approved" => allowed[i] # "none"
  BY <1>1 DEF TeenInv, Passed
<1>8. Passing(c) => ~OverLimit(c.row)
  BY <1>2, <1>4 DEF Passing
<1>9. asked' \in [Buys -> [review : {"none", "pending", "approved", "rejected"},
                           request : {"none", "pending", "approved", "denied"}]]
  BY <1>1 DEF TeenInv, TeenTypeOK
<1> QED
  BY <1>1, <1>4, <1>6, <1>7, <1>8, <1>9, TeenQuiet

LEMMA GuardianCallInv ==
  ASSUME TeenInv, NEW s \in Slots, NEW k \in Buys, NEW decision \in {"guardian", "deny"},
         GuardianCall(s, k, decision)
  PROVE  TeenInv'
<1>1. UNCHANGED <<journals, bal, allowed, asked>>
  BY DEF GuardianCall
<1>2. PICK at \in {"authorize", "deny-review"} : Begin(s, decision, at, k, None)
  BY DEF GuardianCall
<1>3. PICK c \in TeenRequests : c = Request(decision, at, k, None)
  BY RequestIn DEF TeenRequests
<1>4. c.op = decision /\ c.at = at /\ c.row = k /\ Becomes(s, c)
  BY <1>2, <1>3, RequestHas DEF Begin, Becomes
<1>5. TeenCallOK(c) /\ ~Passing(c)
  BY <1>4 DEF TeenCallOK, Passing
<1>6. \A i \in Buys : asked'[i].request = "approved" => allowed[i] # "none"
  BY <1>1 DEF TeenInv, Passed
<1>7. asked' \in [Buys -> [review : {"none", "pending", "approved", "rejected"},
                           request : {"none", "pending", "approved", "denied"}]]
  BY <1>1 DEF TeenInv, TeenTypeOK
<1> QED
  BY <1>1, <1>4, <1>5, <1>6, <1>7, TeenQuiet

(* A request ends, or the key is known and its review is written next.     *)
LEMMA TeenEnds ==
  ASSUME TeenInv, NEW s \in Slots, Leave(s), UNCHANGED <<journals, bal, allowed, asked>>
  PROVE  TeenInv'
<1>1. Becomes(s, Idle)
  BY DEF Leave, Becomes
<1>2. \A i \in Buys : asked'[i].request = "approved" => allowed[i] # "none"
  BY DEF TeenInv, Passed
<1>3. asked' \in [Buys -> [review : {"none", "pending", "approved", "rejected"},
                           request : {"none", "pending", "approved", "denied"}]]
  BY DEF TeenInv, TeenTypeOK
<1> QED
  BY <1>1, <1>2, <1>3, TeenIdle, TeenQuiet

LEMMA AfterGoes ==
  ASSUME TeenInv, NEW s \in Slots, call[s].op \in {"buy", "guardian"}, After(s)
  PROVE  \E c \in TeenRequests :
           /\ Becomes(s, c) /\ ~Passing(c)
           /\ c = Idle \/ (c.op = "guardian" /\ c.at = "approve-review" /\ c.row = call[s].row)
<1>1. CASE Leave(s)
  BY <1>1, TeenIdle DEF Leave, Becomes
<1>2. CASE call[s].op = "guardian" /\ Goto(s, "approve-review")
  <2>1. PICK c \in TeenRequests : /\ Becomes(s, c) /\ c.op = "guardian" /\ c.at = "approve-review"
                                  /\ c.row = call[s].row
    BY <1>2, TeenGoto
  <2> QED
    BY <2>1 DEF Passing
<1> QED
  BY <1>1, <1>2 DEF After

LEMMA KnownInv ==
  ASSUME TeenInv, NEW s \in Slots, Known(s)
  PROVE  TeenInv'
<1>1. /\ call[s].op \in {"buy", "guardian"} /\ allowed[call[s].row] # "none" /\ After(s)
      /\ UNCHANGED <<journals, bal, allowed, asked>>
  BY DEF Known, Authorizing
<1>2. call[s].row \in Buys
  BY <1>1, TeenHas DEF TeenCallOK
<1>3. PICK c \in TeenRequests :
        /\ Becomes(s, c) /\ ~Passing(c)
        /\ c = Idle \/ (c.op = "guardian" /\ c.at = "approve-review" /\ c.row = call[s].row)
  BY <1>1, AfterGoes
<1>4. TeenCallOK(c)
  <2>1. CASE c = Idle
    BY <2>1, TeenIdle
  <2>2. CASE c # Idle
    BY <1>1, <1>2, <1>3, <2>2 DEF TeenCallOK
  <2> QED
    BY <2>1, <2>2
<1>5. \A i \in Buys : asked'[i].request = "approved" => allowed[i] # "none"
  BY <1>1 DEF TeenInv, Passed
<1>6. asked' \in [Buys -> [review : {"none", "pending", "approved", "rejected"},
                           request : {"none", "pending", "approved", "denied"}]]
  BY <1>1 DEF TeenInv, TeenTypeOK
<1> QED
  BY <1>1, <1>3, <1>4, <1>5, <1>6, TeenQuiet

(* The request of an approval, and the answer of the guardian.             *)
LEMMA TeenAskInv ==
  ASSUME TeenInv, NEW s \in Slots, TeenAsk(s)
  PROVE  TeenInv'
<1>1. call[s].op = "buy" /\ Becomes(s, Idle) /\ UNCHANGED <<journals, bal, allowed>>
  BY DEF TeenAsk, At, Leave, Becomes
<1>2. PICK k \in Buys : k = call[s].row
  BY <1>1, TeenHas DEF TeenCallOK
<1>3. asked \in [Buys -> [review : {"none", "pending", "approved", "rejected"},
                          request : {"none", "pending", "approved", "denied"}]]
  BY DEF TeenInv, TeenTypeOK
<1>4. asked' = [asked EXCEPT ![k] =
        IF asked[k].request = "none" THEN [review |-> "pending", request |-> "pending"] ELSE asked[k]]
  BY <1>2, <1>3 DEF TeenAsk
<1>5. asked' \in [Buys -> [review : {"none", "pending", "approved", "rejected"},
                           request : {"none", "pending", "approved", "denied"}]]
  BY <1>3, <1>4
<1>6. \A i \in Buys : asked'[i].request = "approved" => asked[i].request = "approved"
  BY <1>3, <1>4
<1>7. \A i \in Buys : asked'[i].request = "approved" => allowed[i] # "none"
  BY <1>6 DEF TeenInv, Passed
<1> QED
  BY <1>1, <1>5, <1>7, TeenIdle, TeenQuiet

LEMMA ReviewWriteInv ==
  ASSUME TeenInv, NEW s \in Slots, NEW at \in {"approve-review", "approve-request", "deny-review", "deny-request"},
         NEW field \in {"review", "request"}, NEW status \in {"approved", "rejected", "denied"},
         NEW next \in {"approve-request", "deny-request", "done"},
         field = "review" => status \in {"approved", "rejected"},
         field = "request" => status \in {"approved", "denied"},
         field = "request" /\ status = "approved" => at = "approve-request",
         next = "approve-request" => at = "approve-review",
         ReviewWrite(s, at, field, status, next)
  PROVE  TeenInv'
<1>1. /\ call[s].op \in {"guardian", "deny"} /\ call[s].at = at
      /\ UNCHANGED <<journals, bal, allowed>>
  BY DEF ReviewWrite
<1>2. PICK k \in Buys : /\ k = call[s].row
                        /\ at \in {"approve-review", "approve-request"} => allowed[k] # "none"
  BY <1>1, TeenHas DEF TeenCallOK
<1>3. asked \in [Buys -> [review : {"none", "pending", "approved", "rejected"},
                          request : {"none", "pending", "approved", "denied"}]]
  BY DEF TeenInv, TeenTypeOK
<1>4. PICK was \in {"none", "pending", "approved", "rejected"},
           answer \in {"none", "pending", "approved", "denied"} :
        asked[k] = [review |-> was, request |-> answer]
  BY <1>3
<1>5. PICK row : /\ row = IF field = "review" THEN [review |-> status, request |-> answer]
                                              ELSE [review |-> was, request |-> status]
                 /\ asked' = [asked EXCEPT ![k] = row]
  <2>1. CASE field = "review"
    <3>1. asked' = [asked EXCEPT ![k] = [asked[k] EXCEPT !.review = status]]
      BY <1>2, <1>3, <2>1 DEF ReviewWrite
    <3>2. [asked[k] EXCEPT !.review = status] = [review |-> status, request |-> answer]
      BY <1>4
    <3> QED
      BY <2>1, <3>1, <3>2
  <2>2. CASE field = "request"
    <3>1. asked' = [asked EXCEPT ![k] = [asked[k] EXCEPT !.request = status]]
      BY <1>2, <1>3, <2>2 DEF ReviewWrite
    <3>2. [asked[k] EXCEPT !.request = status] = [review |-> was, request |-> status]
      BY <1>4
    <3> QED
      BY <2>2, <3>1, <3>2
  <2> QED
    BY <2>1, <2>2
<1>6. asked' \in [Buys -> [review : {"none", "pending", "approved", "rejected"},
                           request : {"none", "pending", "approved", "denied"}]]
  <2>1. row \in [review : {"none", "pending", "approved", "rejected"},
                 request : {"none", "pending", "approved", "denied"}]
    BY <1>5
  <2> QED
    BY <1>3, <1>5, <2>1
<1>7. ASSUME NEW i \in Buys, asked'[i].request = "approved" PROVE allowed[i] # "none"
  <2>1. CASE i = k /\ field = "request"
    BY <1>2, <1>3, <1>5, <1>7, <2>1
  <2>2. CASE i # k \/ field # "request"
    <3>1. asked[i].request = "approved"
      BY <1>3, <1>4, <1>5, <1>7, <2>2
    <3> QED
      BY <3>1 DEF TeenInv, Passed
  <2> QED
    BY <2>1, <2>2
<1>8. PICK c \in TeenRequests : Becomes(s, c) /\ ~Passing(c) /\ TeenCallOK(c)
  <2>1. CASE next = "done"
    BY <2>1, TeenIdle DEF ReviewWrite, Leave, Becomes
  <2>2. CASE next # "done"
    <3>1. Goto(s, next) /\ next \in {"approve-request", "deny-request"}
      BY <2>2 DEF ReviewWrite
    <3>2. PICK c \in TeenRequests :
            Becomes(s, c) /\ c.op = call[s].op /\ c.at = next /\ c.row = call[s].row
      BY <3>1, TeenGoto
    <3>3. ~Passing(c) /\ TeenCallOK(c)
      BY <1>1, <1>2, <3>1, <3>2 DEF Passing, TeenCallOK
    <3> QED
      BY <3>2, <3>3
  <2> QED
    BY <2>1, <2>2
<1> QED
  BY <1>1, <1>6, <1>7, <1>8, TeenQuiet

(* authorizeCardTransaction and the round-up inside it: the hold commits   *)
(* with the row, the change by itself.                                     *)
RoundedUp == {k \in Buys : Posted(<<"round-up", k>>)}

LEMMA PostBothDoes ==
  ASSUME LedgerTypeOK, NEW k \in Buys, NEW hold \in BOOLEAN, NEW change \in BOOLEAN,
         PostBoth(k, hold, change)
  PROVE  /\ LedgerTypeOK'
         /\ \A i \in Buys : Posted(<<"hold", i>>)' <=> Posted(<<"hold", i>>) \/ (i = k /\ hold)
         /\ \A i \in Buys : Posted(<<"round-up", i>>)' <=> Posted(<<"round-up", i>>) \/ (i = k /\ change)
         /\ bal'[TeenCash] = bal[TeenCash]
              + (IF hold /\ ~Posted(<<"hold", k>>) THEN HoldOf(k)[TeenCash] ELSE 0)
              + (IF change /\ ~Posted(<<"round-up", k>>) THEN ChangeOf(k)[TeenCash] ELSE 0)
<1> DEFINE holds == hold /\ ~Posted(<<"hold", k>>)
           rounds == change /\ ~Posted(<<"round-up", k>>)
           new == {x \in {<<"hold", k>>, <<"round-up", k>>} : IF x[1] = "hold" THEN holds ELSE rounds}
<1>1. HoldOf(k) \in Effects /\ ChangeOf(k) \in Effects
  <2>1. BuyAmount[k] \in Int /\ SpareChange[k] \in Int
    BY TeenSpendAssumption
  <2> QED
    BY <2>1, MoveType DEF HoldOf, ChangeOf
<1>2. /\ journals' = [x \in DOMAIN journals \cup new |->
                        IF x \notin new THEN journals[x]
                        ELSE IF x[1] = "hold" THEN HoldOf(k) ELSE ChangeOf(k)]
      /\ bal' = [a \in Accounts |-> bal[a] + (IF holds THEN HoldOf(k)[a] ELSE 0)
                                           + (IF rounds THEN ChangeOf(k)[a] ELSE 0)]
  BY DEF PostBoth
<1>3. \A x : x \in new <=> \/ x = <<"hold", k>> /\ holds
                           \/ x = <<"round-up", k>> /\ rounds
  OBVIOUS
<1>4. DOMAIN journals' = DOMAIN journals \cup new
  BY <1>2
<1> HIDE DEF holds, rounds, new
<1>5. journals' \in [DOMAIN journals' -> Effects]
  <2>1. journals \in [DOMAIN journals -> Effects]
    BY DEF LedgerTypeOK
  <2>2. \A x \in DOMAIN journals \cup new :
          (IF x \notin new THEN journals[x]
           ELSE IF x[1] = "hold" THEN HoldOf(k) ELSE ChangeOf(k)) \in Effects
    BY <1>1, <2>1
  <2> QED
    BY <1>2, <1>4, <2>2
<1>6. bal' \in Effects
  <2>1. \A a \in Accounts : bal[a] \in Int /\ HoldOf(k)[a] \in Int /\ ChangeOf(k)[a] \in Int
    BY <1>1 DEF LedgerTypeOK, Effects
  <2> QED
    BY <1>2, <2>1 DEF Effects
<1>7. \A i \in Buys : Posted(<<"hold", i>>)' <=> Posted(<<"hold", i>>) \/ (i = k /\ hold)
  BY <1>3, <1>4 DEF Posted, holds
<1>8. \A i \in Buys : Posted(<<"round-up", i>>)' <=> Posted(<<"round-up", i>>) \/ (i = k /\ change)
  BY <1>3, <1>4 DEF Posted, rounds
<1>9. TeenCash \in Accounts
  BY TeenSpendAssumption
<1>10. bal'[TeenCash] = bal[TeenCash]
         + (IF hold /\ ~Posted(<<"hold", k>>) THEN HoldOf(k)[TeenCash] ELSE 0)
         + (IF change /\ ~Posted(<<"round-up", k>>) THEN ChangeOf(k)[TeenCash] ELSE 0)
  BY <1>2, <1>9 DEF holds, rounds
<1> QED
  BY <1>5, <1>6, <1>7, <1>8, <1>10 DEF LedgerTypeOK

(* A purchase that the cash covers leaves the cash and the change whole.   *)
LEMMA RoundUpsExplain ==
  ASSUME TeenTypeOK, NEW k \in Buys, NEW hold \in BOOLEAN, NEW change \in BOOLEAN,
         PostBoth(k, hold, change), Covers(k)
  PROVE  TeenShortByRoundUps'
<1>1. /\ \A i \in Buys : Posted(<<"round-up", i>>)' <=> Posted(<<"round-up", i>>) \/ (i = k /\ change)
      /\ bal'[TeenCash] = bal[TeenCash]
           + (IF hold /\ ~Posted(<<"hold", k>>) THEN HoldOf(k)[TeenCash] ELSE 0)
           + (IF change /\ ~Posted(<<"round-up", k>>) THEN ChangeOf(k)[TeenCash] ELSE 0)
  BY PostBothDoes DEF TeenTypeOK
<1>2. PICK b \in Int, amount \in Nat, spare \in Nat :
        b = bal[TeenCash] /\ amount = BuyAmount[k] /\ spare = SpareChange[k]
  BY TeenSpendAssumption DEF TeenTypeOK, LedgerTypeOK, Effects
<1>3. b >= amount
  BY <1>2 DEF Covers
<1>4. PICK h \in Int, g \in Int : h = HoldOf(k)[TeenCash] /\ g = ChangeOf(k)[TeenCash]
                                  /\ h >= -amount /\ g >= -spare
  BY <1>2, TeenSpendAssumption DEF HoldOf, ChangeOf, Move
<1>5. PICK R \in SUBSET Buys, T \in SUBSET Buys : R = RoundedUp /\ T = RoundedUp'
  <2>1. RoundedUp \subseteq Buys /\ RoundedUp' \subseteq Buys
    BY DEF RoundedUp
  <2> QED
    BY <2>1
<1>6. SumFunctionOnSet(SpareChange, R) \in Nat /\ SumFunctionOnSet(SpareChange, T) \in Nat
  BY TeenSums
<1>7. bal'[TeenCash] + SumFunctionOnSet(SpareChange, T) >= 0
  <2>1. CASE change /\ ~Posted(<<"round-up", k>>)
    <3>1. T = R \cup {k} /\ k \notin R
      BY <1>1, <1>5, <2>1 DEF RoundedUp
    <3>2. SumFunctionOnSet(SpareChange, T) = SumFunctionOnSet(SpareChange, R) + spare
      <4>1. IsFiniteSet(R) /\ \A i \in R : SpareChange[i] \in Int
        BY TeenSums
      <4> QED
        BY <1>2, <3>1, <4>1, SumAdd
    <3>3. bal'[TeenCash] = b + (IF hold /\ ~Posted(<<"hold", k>>) THEN h ELSE 0) + g
      BY <1>1, <1>2, <1>4, <2>1
    <3> QED
      BY <1>3, <1>4, <1>6, <3>2, <3>3
  <2>2. CASE ~(change /\ ~Posted(<<"round-up", k>>))
    <3>1. bal'[TeenCash] = b + (IF hold /\ ~Posted(<<"hold", k>>) THEN h ELSE 0) + 0
      BY <1>1, <1>2, <1>4, <2>2
    <3> QED
      BY <1>3, <1>4, <1>6, <3>1
  <2> QED
    BY <2>1, <2>2
<1> QED
  BY <1>5, <1>7 DEF TeenShortByRoundUps, RoundedUp

LEMMA TeenAuthorizeInv ==
  ASSUME TeenInv, NEW s \in Slots, NEW commits \in BOOLEAN, TeenAuthorize(s, commits)
  PROVE  TeenInv'
<1>1. /\ call[s].op \in {"buy", "guardian"} /\ call[s].at = "authorize"
      /\ UNCHANGED asked
  BY DEF TeenAuthorize, Authorizing
<1>2. PICK k \in Buys : /\ k = call[s].row
                        /\ call[s].op = "buy" => call[s].saw \in {"gate", "guardian"}
                        /\ Passing(call[s]) => BuyAmount[k] <= SpendLimit
  BY <1>1, TeenHas DEF TeenCallOK
<1>3. PICK change \in BOOLEAN : PostBoth(k, commits, change)
  BY <1>2 DEF TeenAuthorize
<1>4. allowed[k] = "none" /\ Covers(k)
  BY <1>2 DEF TeenAuthorize
<1>5. /\ LedgerTypeOK'
      /\ \A i \in Buys : Posted(<<"hold", i>>)' <=> Posted(<<"hold", i>>) \/ (i = k /\ commits)
  BY <1>3, PostBothDoes DEF TeenInv, TeenTypeOK
<1>6. TeenShortByRoundUps'
  BY <1>3, <1>4, RoundUpsExplain DEF TeenInv
<1>7. allowed \in [Buys -> {"none", "gate", "guardian"}]
  BY DEF TeenInv, TeenTypeOK
<1>8. PICK who \in {"none", "gate", "guardian"} :
        /\ who = IF ~commits THEN "none" ELSE IF call[s].op = "guardian" THEN "guardian" ELSE call[s].saw
        /\ allowed' = [allowed EXCEPT ![k] = who]
        /\ commits => who # "none"
        /\ who = "gate" => Passing(call[s])
  <2>1. CASE commits
    BY <1>1, <1>2, <2>1 DEF TeenAuthorize, Passing
  <2>2. CASE ~commits
    BY <1>2, <1>4, <1>7, <2>2 DEF TeenAuthorize
  <2> QED
    BY <2>1, <2>2
<1>9. TeenKept
  BY <1>4, <1>5, <1>7, <1>8 DEF TeenKept
<1>10. PICK c \in TeenRequests : Becomes(s, c) /\ ~Passing(c) /\ TeenCallOK(c)'
  <2>1. CASE ~commits
    BY <2>1, TeenIdle DEF TeenAuthorize, Leave, Becomes
  <2>2. CASE commits
    <3>1. PICK c \in TeenRequests :
            /\ Becomes(s, c) /\ ~Passing(c)
            /\ c = Idle \/ (c.op = "guardian" /\ c.at = "approve-review" /\ c.row = k)
      BY <1>1, <1>2, <2>2, AfterGoes DEF TeenAuthorize
    <3>2. allowed'[k] # "none"
      BY <1>7, <1>8, <2>2
    <3>3. TeenCallOK(c)'
      <4>1. CASE c = Idle
        BY <4>1, TeenIdle DEF TeenCallOK, Passing
      <4>2. CASE c # Idle
        BY <3>1, <3>2, <4>2 DEF TeenCallOK, Passing
      <4> QED
        BY <4>1, <4>2
    <3> QED
      BY <3>1, <3>3
  <2> QED
    BY <2>1, <2>2
<1>11. ASSUME NEW i \in Buys PROVE Passed(i)'
  <2>1. Passed(i)
    BY DEF TeenInv
  <2>2. CASE i = k
    <3>1. allowed'[k] = who
      BY <1>7, <1>8
    <3>2. commits \/ who = "none"
      BY <1>8
    <3>3. who = "gate" => BuyAmount[k] <= SpendLimit
      BY <1>2, <1>8
    <3>4. ~Posted(<<"hold", k>>) /\ asked[k].request # "approved"
      BY <1>4, <2>1, <2>2 DEF Passed
    <3>5. Posted(<<"hold", k>>)' <=> commits
      BY <1>5, <3>4
    <3>6. asked' = asked
      BY <1>1
    <3> QED
      BY <1>8, <2>2, <3>1, <3>2, <3>3, <3>4, <3>5, <3>6 DEF Passed
  <2>3. CASE i # k
    <3>1. allowed'[i] = allowed[i] /\ asked'[i] = asked[i]
      BY <1>1, <1>7, <1>8, <2>3
    <3>2. Posted(<<"hold", i>>)' <=> Posted(<<"hold", i>>)
      BY <1>5, <2>3
    <3> QED
      BY <2>1, <3>1, <3>2 DEF Passed
  <2> QED
    BY <2>2, <2>3
<1>12. GateCovers'
  <2>1. PICK G \in SUBSET Buys, H \in SUBSET Buys : G = Ungated /\ H = Ungated'
    <3>1. Ungated \subseteq Buys /\ Ungated' \subseteq Buys
      BY DEF Ungated, AllowedBy
    <3> QED
      BY <3>1
  <2>2. H = IF who = "gate" THEN G \cup {k} ELSE G
    BY <1>4, <1>7, <1>8, <2>1 DEF Ungated, AllowedBy
  <2>3. k \notin G
    BY <1>4, <2>1 DEF Ungated, AllowedBy
  <2>4. Sum(G) \in Nat /\ Sum(H) \in Nat /\ BuyAmount[k] \in Nat
    BY TeenSums, TeenSpendAssumption
  <2>5. who = "gate" => Sum(H) = Sum(G) + BuyAmount[k]
    <3>1. IsFiniteSet(G) /\ \A i \in G : BuyAmount[i] \in Int
      BY TeenSums
    <3> QED
      BY <2>2, <2>3, <2>4, <3>1, SumAdd DEF Sum
  <2>6. who = "gate" => s \in AtGate
    BY <1>8 DEF AtGate
  <2>7. Sum(H) <= Sum(G) + (IF s \in AtGate THEN BuyAmount[call[s].row] ELSE 0)
    BY <1>2, <2>2, <2>4, <2>5, <2>6
  <2>8. Sum(Ungated)' = Sum(H) /\ Sum(Ungated) = Sum(G)
    BY <2>1 DEF Sum
  <2> QED
    BY <1>10, <2>4, <2>7, <2>8, GateMoves
<1>13. asked' \in [Buys -> [review : {"none", "pending", "approved", "rejected"},
                            request : {"none", "pending", "approved", "denied"}]]
  BY <1>1 DEF TeenInv, TeenTypeOK
<1> QED
  BY <1>6, <1>9, <1>10, <1>11, <1>12, <1>13, TeenMoves

LEMMA TeenStepInv == TeenInv /\ [TeenSpendNext]_teenVars => TeenInv'
<1> SUFFICES ASSUME TeenInv, [TeenSpendNext]_teenVars PROVE TeenInv'
  OBVIOUS
<1>1. CASE UNCHANGED teenVars
  <2> USE <1>1 DEF teenVars
  <2>1. TeenTypeOK' /\ TeenCallsOK'
    BY DEF TeenInv, TeenTypeOK, LedgerTypeOK, TeenCallsOK, TeenCallOK, Passing
  <2>2. \A k \in Buys : Passed(k)'
    BY DEF TeenInv, Passed, Posted
  <2>3. GateCovers'
    BY DEF TeenInv, GateCovers, AtGate, Buying, Ungated, AllowedBy, Sum, RoomCovers, Passing
  <2>4. TeenShortByRoundUps'
    BY DEF TeenInv, TeenShortByRoundUps, Posted
  <2> QED
    BY <2>1, <2>2, <2>3, <2>4 DEF TeenInv
<1>2. ASSUME NEW s \in Slots,
             \/ \E k \in Buys : TeenCall(s, k) \/ \E d \in {"guardian", "deny"} : GuardianCall(s, k, d)
             \/ TeenAsk(s) \/ Known(s) \/ \E commits \in BOOLEAN : TeenAuthorize(s, commits)
      PROVE  TeenInv'
  BY <1>2, TeenCallInv, GuardianCallInv, TeenAskInv, KnownInv, TeenAuthorizeInv
<1>3. ASSUME NEW s \in Slots, ApproveReview(s) \/ ApproveRequest(s) \/ DenyReview(s) \/ DenyRequest(s)
      PROVE  TeenInv'
  <2>1. CASE ApproveReview(s)
    BY <2>1, ReviewWriteInv DEF ApproveReview
  <2>2. CASE ApproveRequest(s)
    BY <2>2, ReviewWriteInv DEF ApproveRequest
  <2>3. CASE DenyReview(s)
    BY <2>3, ReviewWriteInv DEF DenyReview
  <2>4. CASE DenyRequest(s)
    BY <2>4, ReviewWriteInv DEF DenyRequest
  <2> QED
    BY <1>3, <2>1, <2>2, <2>3, <2>4
<1>4. ASSUME NEW s \in Slots, Dies(s), UNCHANGED <<allowed, asked>> PROVE TeenInv'
  BY <1>4, TeenEnds DEF Dies, ledgerVars
<1> QED
  BY <1>1, <1>2, <1>3, <1>4 DEF TeenSpendNext

-----------------------------------------------------------------------------
(* CreditBuilder: what is owed was charged, what is reported was paid.     *)

CreditRequests ==
  Requests({"idle", "open-credit", "charge", "close-statement", "autopay", "report"},
           {"idle", "post", "insert", "commit", "mark", "clear", "submit"},
           Charges \cup Periods \cup {None}, Nat \cup PayKeys \cup {None})

Statements == [status : {"none", "open", "paid", "reported"}, closing : Nat]

CreditTypeOK ==
  /\ LedgerTypeOK
  /\ call \in [Slots -> CreditRequests]
  /\ secured \in Nat \cup {None} /\ limit \in Nat /\ opens \in SUBSET SecuredLimits
  /\ charged \in SUBSET Charges
  /\ statement \in [Periods -> Statements]
  /\ reported \in SUBSET Periods

Closed(p) == statement[p].status # "none"

PaidFor(p) == statement[p].closing = 0 \/ \E key \in PayKeys : Posted(<<"cb:pay", p, key>>)

StatementSound(p) ==
  /\ Closed(p) => secured # None
  /\ p \in reported => Closed(p)
  /\ statement[p].status \in {"paid", "reported"} \/ p \in reported => PaidFor(p)

(* What a request knows: what it saw was charged, and what it goes on to   *)
(* mark as paid, or to report, has been.                                   *)
CreditCall(c) ==
  /\ c.op = "open-credit" => c.saw \in opens /\ (c.at = "insert" => Posted(<<"cb:open">>))
  /\ c.op = "charge" =>
       /\ c.row \in Charges /\ c.saw \in Nat
       /\ secured # None
       /\ c.saw <= SumFunctionOnSet(ChargeAmount, charged)
       /\ c.saw + ChargeAmount[c.row] <= limit
  /\ c.op = "close-statement" => c.row \in Periods /\ c.saw \in Nat /\ secured # None
  /\ c.op = "autopay" =>
       /\ c.row \in Periods /\ c.saw \in PayKeys /\ Closed(c.row)
       /\ c.at \in {"mark", "clear"} => PaidFor(c.row)
  /\ c.op = "report" => c.row \in Periods /\ Closed(c.row) /\ PaidFor(c.row)

CreditCalls == \A s \in Slots : CreditCall(call[s])

(* An account is within its limit and its charges, and secured by a limit  *)
(* that an opening asked for.                                              *)
OwedSound ==
  secured # None =>
    /\ secured <= SumFunctionOnSet(ChargeAmount, charged)
    /\ secured <= limit
    /\ Posted(<<"cb:open">>)

SecurityTold ==
  Posted(<<"cb:open">>) => \E l \in opens : journals[<<"cb:open">>] = Security(l)

CreditInv ==
  /\ CreditTypeOK
  /\ CreditCalls
  /\ OwedSound
  /\ SecurityTold
  /\ \A p \in Periods : StatementSound(p)

LEMMA CreditInitInv == CreditInit => CreditInv
<1> SUFFICES ASSUME CreditInit PROVE CreditInv
  OBVIOUS
<1> USE OpeningAssumption DEF CreditInit, ServiceInit, LedgerInit
<1>1. LedgerTypeOK
  BY DEF LedgerTypeOK, Effects
<1>2. CreditTypeOK
  BY <1>1 DEF CreditTypeOK, CreditRequests, Requests, Idle, Request, Statements
<1>3. CreditCalls
  BY DEF CreditCalls, CreditCall, Idle, Request
<1>4. OwedSound
  BY DEF OwedSound
<1>6. SecurityTold
  BY DEF SecurityTold, Posted
<1>5. \A p \in Periods : StatementSound(p)
  BY DEF StatementSound, Closed
<1> QED
  BY <1>2, <1>3, <1>4, <1>5, <1>6 DEF CreditInv

(* Nothing is taken back: journals, charges, the account and its limit, a  *)
(* statement that was closed and its amount.                               *)
CreditKept ==
  /\ \A j : Posted(j) => Posted(j)'
  /\ charged \subseteq charged' /\ charged' \in SUBSET Charges
  /\ secured # None => secured' # None /\ limit' = limit
  /\ opens \subseteq opens' /\ opens' \in SUBSET SecuredLimits
  /\ \A p \in Periods : Closed(p) => Closed(p)' /\ statement'[p].closing = statement[p].closing

LEMMA PaidForKept ==
  ASSUME CreditKept, NEW p \in Periods, Closed(p), PaidFor(p)
  PROVE  PaidFor(p)'
BY DEF CreditKept, PaidFor

LEMMA ChargesGrow ==
  ASSUME CreditTypeOK, CreditKept
  PROVE  /\ SumFunctionOnSet(ChargeAmount, charged) \in Nat
         /\ SumFunctionOnSet(ChargeAmount, charged') \in Nat
         /\ SumFunctionOnSet(ChargeAmount, charged) <= SumFunctionOnSet(ChargeAmount, charged')
<1>1. /\ charged \subseteq charged' /\ charged' \subseteq Charges
      /\ IsFiniteSet(charged) /\ IsFiniteSet(charged')
  BY CreditBuilderAssumption, FS_Subset DEF CreditTypeOK, CreditKept
<1>2. \A k \in charged' : ChargeAmount[k] \in Nat
  BY <1>1, CreditBuilderAssumption
<1> QED
  BY <1>1, <1>2, SumGrows, SumNat

LEMMA CreditCallKept ==
  ASSUME CreditTypeOK, CreditKept, NEW c, CreditCall(c)
  PROVE  CreditCall(c)'
<1>1. c.op = "open-credit" => c.saw \in opens' /\ (c.at = "insert" => Posted(<<"cb:open">>)')
  BY DEF CreditCall, CreditKept
<1>2. ASSUME c.op = "charge"
      PROVE  /\ c.row \in Charges /\ c.saw \in Nat
             /\ secured' # None
             /\ c.saw <= SumFunctionOnSet(ChargeAmount, charged')
             /\ c.saw + ChargeAmount[c.row] <= limit'
  <2>1. /\ c.row \in Charges /\ c.saw \in Nat /\ secured' # None
        /\ c.saw <= SumFunctionOnSet(ChargeAmount, charged)
        /\ c.saw + ChargeAmount[c.row] <= limit'
    BY <1>2 DEF CreditCall, CreditKept
  <2> QED
    BY <2>1, ChargesGrow
<1>3. c.op = "close-statement" => c.row \in Periods /\ c.saw \in Nat /\ secured' # None
  BY DEF CreditCall, CreditKept
<1>4. c.op = "autopay" => /\ c.row \in Periods /\ c.saw \in PayKeys /\ Closed(c.row)'
                          /\ c.at \in {"mark", "clear"} => PaidFor(c.row)'
  BY PaidForKept DEF CreditCall, CreditKept
<1>5. c.op = "report" => c.row \in Periods /\ Closed(c.row)' /\ PaidFor(c.row)'
  BY PaidForKept DEF CreditCall, CreditKept
<1> QED
  BY <1>1, <1>2, <1>3, <1>4, <1>5 DEF CreditCall

LEMMA CreditMoves ==
  ASSUME CreditInv, NEW s \in Slots, NEW c \in CreditRequests, Becomes(s, c), CreditCall(c)',
         CreditKept, LedgerTypeOK', secured' \in Nat \cup {None}, limit' \in Nat,
         statement' \in [Periods -> Statements], reported' \in SUBSET Periods,
         OwedSound', SecurityTold', \A p \in Periods : StatementSound(p)'
  PROVE  CreditInv'
<1>1. /\ call' \in [Slots -> CreditRequests] /\ call'[s] = c
      /\ \A t \in Slots \ {s} : call'[t] = call[t]
  BY BecomesOne DEF CreditInv, CreditTypeOK
<1>2. CreditTypeOK'
  BY <1>1 DEF CreditTypeOK, CreditKept
<1>3. ASSUME NEW t \in Slots PROVE CreditCall(call[t])'
  <2>1. CASE t = s
    BY <1>1, <2>1 DEF CreditCall
  <2>2. CASE t # s
    <3>1. PICK d : d = call[t] /\ CreditCall(d)
      BY DEF CreditInv, CreditCalls
    <3>2. CreditCall(d)' /\ call'[t] = d
      BY <1>1, <2>2, <3>1, CreditCallKept DEF CreditInv
    <3> QED
      BY <3>2 DEF CreditCall
  <2> QED
    BY <2>1, <2>2
<1> QED
  BY <1>2, <1>3 DEF CreditInv, CreditCalls

(* What stays sound of the account and the statements when they stay.      *)
LEMMA OwedKept ==
  ASSUME CreditInv, CreditKept, secured' = secured
  PROVE  OwedSound'
<1>1. /\ secured # None => /\ secured \in Nat /\ secured <= SumFunctionOnSet(ChargeAmount, charged)
                           /\ secured <= limit' /\ Posted(<<"cb:open">>)'
      /\ SumFunctionOnSet(ChargeAmount, charged) \in Nat
      /\ SumFunctionOnSet(ChargeAmount, charged') \in Nat
      /\ SumFunctionOnSet(ChargeAmount, charged) <= SumFunctionOnSet(ChargeAmount, charged')
  BY ChargesGrow DEF CreditInv, CreditTypeOK, OwedSound, CreditKept
<1>2. CASE secured = None
  BY <1>2 DEF OwedSound
<1>3. CASE secured # None
  BY <1>1, <1>3 DEF OwedSound
<1> QED
  BY <1>2, <1>3

(* What was secured is told by the same journal.                           *)
LEMMA SecurityStays ==
  ASSUME SecurityTold, journals' = journals, opens \subseteq opens'
  PROVE  SecurityTold'
BY DEF SecurityTold, Posted

(* A report made now is about a statement that was closed and paid.        *)
MayReport(p) == p \in reported' => Closed(p) /\ PaidFor(p)

LEMMA MayStay ==
  ASSUME CreditInv, NEW p \in Periods, reported' = reported
  PROVE  MayReport(p)
BY DEF CreditInv, StatementSound, MayReport

LEMMA StatementsKept ==
  ASSUME CreditInv, CreditKept, NEW p \in Periods, statement'[p] = statement[p], MayReport(p)
  PROVE  StatementSound(p)'
<1>1. StatementSound(p)
  BY DEF CreditInv
<1>2. Closed(p)' <=> Closed(p)
  BY DEF Closed
<1>3. Closed(p) => secured' # None
  BY <1>1 DEF StatementSound, CreditKept
<1>4. p \in reported' => Closed(p) /\ PaidFor(p)
  BY DEF MayReport
<1>5. statement[p].status \in {"paid", "reported"} => PaidFor(p) /\ Closed(p)
  BY <1>1 DEF StatementSound, Closed
<1> QED
  BY <1>2, <1>3, <1>4, <1>5, PaidForKept DEF StatementSound

LEMMA StatementsStay ==
  ASSUME CreditInv, CreditKept, UNCHANGED <<statement, reported>>
  PROVE  \A p \in Periods : StatementSound(p)'
<1>1. ASSUME NEW p \in Periods PROVE StatementSound(p)'
  <2>1. statement'[p] = statement[p] /\ MayReport(p)
    BY MayStay
  <2> QED
    BY <2>1, StatementsKept
<1> QED
  BY <1>1

(* A step that only moves the request, and may post.                       *)
LEMMA CreditQuiet ==
  ASSUME CreditInv, NEW s \in Slots, NEW c \in CreditRequests, Becomes(s, c), CreditCall(c)',
         LedgerTypeOK', \A j : Posted(j) => Posted(j)', SecurityTold',
         opens \subseteq opens', opens' \in SUBSET SecuredLimits,
         UNCHANGED <<secured, limit, charged, statement, reported>>
  PROVE  CreditInv'
<1>1. CreditKept
  BY DEF CreditKept, CreditInv, CreditTypeOK, Closed
<1>2. OwedSound'
  BY <1>1, OwedKept
<1>3. \A p \in Periods : StatementSound(p)'
  BY <1>1, StatementsStay
<1> QED
  BY <1>1, <1>2, <1>3, CreditMoves DEF CreditInv, CreditTypeOK

(* A request begins: what it saw is so.                                    *)
LEMMA CreditBegins ==
  ASSUME CreditInv, NEW s \in Slots, ReadOnly,
         NEW op \in {"open-credit", "charge", "close-statement", "autopay", "report"},
         NEW at \in {"post", "insert", "commit", "submit"},
         NEW row \in Charges \cup Periods \cup {None}, NEW saw \in Nat \cup PayKeys \cup {None},
         Begin(s, op, at, row, saw), CreditCall(Request(op, at, row, saw))
  PROVE  CreditInv'
<1>1. PICK c \in CreditRequests : c = Request(op, at, row, saw)
  BY DEF CreditRequests, Requests, Request
<1>2. Becomes(s, c) /\ CreditCall(c)
  BY <1>1 DEF Begin, Becomes
<1>3. CreditCall(c)'
  BY <1>2 DEF CreditCall, ReadOnly, Closed, PaidFor, Posted
<1>4. LedgerTypeOK' /\ (\A j : Posted(j) => Posted(j)') /\ opens' \in SUBSET SecuredLimits
  BY DEF ReadOnly, CreditInv, CreditTypeOK, LedgerTypeOK, Posted
<1>5. SecurityTold'
  BY SecurityStays DEF ReadOnly, CreditInv
<1> QED
  BY <1>2, <1>3, <1>4, <1>5, CreditQuiet DEF ReadOnly

LEMMA CreditCallHas ==
  ASSUME CreditInv, NEW s \in Slots, call[s] # Idle
  PROVE  /\ call[s] \in CreditRequests /\ CreditCall(call[s])
         /\ call[s] = Request(call[s].op, call[s].at, call[s].row, call[s].saw)
BY DEF CreditInv, CreditTypeOK, CreditCalls, CreditRequests, Requests, Request

(* It goes on to another place.                                            *)
LEMMA CreditGoto ==
  ASSUME CreditInv, NEW s \in Slots, NEW at \in {"post", "insert", "commit", "mark", "clear", "submit"},
         Goto(s, at)
  PROVE  \E c \in CreditRequests : /\ Becomes(s, c)
                                   /\ c = Request(call[s].op, at, call[s].row, call[s].saw)
<1>1. call \in [Slots -> CreditRequests]
  BY DEF CreditInv, CreditTypeOK
<1>2. Becomes(s, Request(call[s].op, at, call[s].row, call[s].saw))
  BY <1>1, GotoBecomes DEF CreditRequests
<1>3. Request(call[s].op, at, call[s].row, call[s].saw) \in CreditRequests
  BY <1>1 DEF CreditRequests, Requests, Request
<1> QED
  BY <1>2, <1>3

LEMMA CreditIdle == Idle \in CreditRequests /\ CreditCall(Idle) /\ CreditCall(Idle)'
BY DEF Idle, Request, CreditRequests, Requests, CreditCall

LEMMA CreditEnds ==
  ASSUME CreditInv, NEW s \in Slots, Leave(s), ReadOnly
  PROVE  CreditInv'
<1>1. Becomes(s, Idle)
  BY DEF Leave, Becomes
<1>2. LedgerTypeOK' /\ (\A j : Posted(j) => Posted(j)') /\ opens' \in SUBSET SecuredLimits
  BY DEF ReadOnly, CreditInv, CreditTypeOK, LedgerTypeOK, Posted
<1>3. SecurityTold'
  BY SecurityStays DEF ReadOnly, CreditInv
<1> QED
  BY <1>1, <1>2, <1>3, CreditIdle, CreditQuiet DEF ReadOnly

LEMMA OpenCreditInv ==
  ASSUME CreditInv, NEW s \in Slots, NEW l \in SecuredLimits, OpenCredit(s, l)
  PROVE  CreditInv'
<1>1. /\ UNCHANGED <<journals, bal, secured, limit, charged, statement, reported>>
      /\ opens' = opens \cup {l} /\ Begin(s, "open-credit", "post", None, l)
  BY DEF OpenCredit
<1>2. l \in Nat
  BY CreditBuilderAssumption
<1>3. PICK c \in CreditRequests : c = Request("open-credit", "post", None, l)
  BY <1>2 DEF CreditRequests, Requests, Request
<1>4. Becomes(s, c) /\ CreditCall(c)'
  BY <1>1, <1>3, RequestHas DEF Begin, Becomes, CreditCall
<1>5. LedgerTypeOK' /\ (\A j : Posted(j) => Posted(j)') /\ opens' \in SUBSET SecuredLimits
  BY <1>1 DEF CreditInv, CreditTypeOK, LedgerTypeOK, Posted
<1>6. SecurityTold'
  BY <1>1, SecurityStays DEF CreditInv
<1> QED
  BY <1>1, <1>4, <1>5, <1>6, CreditQuiet

LEMMA SecurePostInv ==
  ASSUME CreditInv, NEW s \in Slots, SecurePost(s)
  PROVE  CreditInv'
<1>1. /\ call[s].op = "open-credit" /\ Goto(s, "insert")
      /\ UNCHANGED <<secured, limit, opens, charged, statement, reported>>
  BY DEF SecurePost, At
<1>2. PICK l \in opens : l = call[s].saw
  BY <1>1 DEF CreditInv, CreditCalls, CreditCall
<1>3. PICK d \in Effects : d = Security(l) /\ PostJournal(<<"cb:open">>, d)
  <2>1. Security(l) \in Effects
    BY MoveType, CreditBuilderAssumption DEF Security, CreditInv, CreditTypeOK
  <2> QED
    BY <1>2, <2>1 DEF SecurePost
<1>4. LedgerTypeOK' /\ Posted(<<"cb:open">>)' /\ \A j : Posted(j) => Posted(j)'
  BY <1>3, PostKeeps DEF CreditInv, CreditTypeOK
<1>5. SecurityTold'
  <2>1. CASE Posted(<<"cb:open">>)
    BY <1>1, <1>3, <2>1, SecurityStays DEF PostJournal, ledgerVars, CreditInv
  <2>2. CASE ~Posted(<<"cb:open">>)
    <3>1. journals'[<<"cb:open">>] = Security(l)
      BY <1>3, <2>2, PostFresh DEF CreditInv, CreditTypeOK
    <3> QED
      BY <1>1, <3>1 DEF SecurityTold, Security
  <2> QED
    BY <2>1, <2>2
<1>6. PICK c \in CreditRequests :
        Becomes(s, c) /\ c = Request("open-credit", "insert", call[s].row, call[s].saw)
  BY <1>1, CreditGoto
<1>7. CreditCall(c)'
  BY <1>1, <1>2, <1>4, <1>6, RequestHas DEF CreditCall
<1>8. opens' \in SUBSET SecuredLimits
  BY <1>1 DEF CreditInv, CreditTypeOK
<1> QED
  BY <1>1, <1>4, <1>5, <1>6, <1>7, <1>8, CreditQuiet

LEMMA SecureInsertInv ==
  ASSUME CreditInv, NEW s \in Slots, SecureInsert(s)
  PROVE  CreditInv'
<1>1. /\ call[s].op = "open-credit" /\ call[s].at = "insert" /\ Becomes(s, Idle)
      /\ UNCHANGED <<journals, bal, opens, charged, statement, reported>>
      /\ secured' = IF secured = None THEN 0 ELSE secured
      /\ limit' = IF secured = None THEN call[s].saw ELSE limit
  BY DEF SecureInsert, At, Leave, Becomes
<1>2. Posted(<<"cb:open">>) /\ call[s].saw \in Nat
  BY <1>1, CreditBuilderAssumption DEF CreditInv, CreditCalls, CreditCall, CreditTypeOK
<1>3. LedgerTypeOK' /\ \A j : Posted(j) => Posted(j)'
  BY <1>1 DEF CreditInv, CreditTypeOK, LedgerTypeOK, Posted
<1>4. secured' \in Nat /\ secured' # None /\ limit' \in Nat
  BY <1>1, <1>2, CreditBuilderAssumption DEF CreditInv, CreditTypeOK
<1>5. CreditKept
  BY <1>1, <1>3, <1>4 DEF CreditKept, CreditInv, CreditTypeOK, Closed
<1>6. OwedSound'
  <2>1. CASE secured = None
    <3>1. secured' = 0 /\ SumFunctionOnSet(ChargeAmount, charged') \in Nat
      BY <1>1, <1>5, <2>1, ChargesGrow DEF CreditInv
    <3> QED
      BY <1>2, <1>3, <1>4, <3>1 DEF OwedSound
  <2>2. CASE secured # None
    BY <1>1, <1>5, <2>2, OwedKept
  <2> QED
    BY <2>1, <2>2
<1>7. (\A p \in Periods : StatementSound(p)') /\ SecurityTold'
  BY <1>1, <1>5, StatementsStay, SecurityStays DEF CreditInv
<1> QED
  BY <1>1, <1>3, <1>4, <1>5, <1>6, <1>7, CreditIdle, CreditMoves DEF CreditInv, CreditTypeOK

(* authorizeCreditBuilder.                                                 *)
LEMMA ChargeInv ==
  ASSUME CreditInv, NEW s \in Slots, NEW k \in Charges, Charge(s, k)
  PROVE  CreditInv'
<1>1. /\ secured \in Nat /\ secured # None /\ secured + ChargeAmount[k] <= limit
      /\ secured <= SumFunctionOnSet(ChargeAmount, charged)
  BY DEF Charge, CreditInv, CreditTypeOK, OwedSound
<1>2. CreditCall(Request("charge", "commit", k, secured))
  BY <1>1 DEF CreditCall, Request
<1> QED
  BY <1>1, <1>2, CreditBegins DEF Charge

LEMMA ChargeCommitInv ==
  ASSUME CreditInv, NEW s \in Slots, ChargeCommit(s)
  PROVE  CreditInv'
<1>1. call[s].op = "charge" /\ Leave(s) /\ UNCHANGED <<journals, bal, limit, opens, statement, reported>>
  BY DEF ChargeCommit, At
<1>2. PICK k \in Charges, saw \in Nat :
        /\ k = call[s].row /\ saw = call[s].saw
        /\ saw <= SumFunctionOnSet(ChargeAmount, charged) /\ saw + ChargeAmount[k] <= limit
        /\ secured # None
  BY <1>1 DEF CreditInv, CreditCalls, CreditCall
<1>3. CASE k \in charged
  BY <1>1, <1>2, <1>3, CreditEnds DEF ChargeCommit, ReadOnly
<1>4. CASE k \notin charged
  <2>1. charged' = charged \cup {k} /\ secured' = saw + ChargeAmount[k]
    BY <1>2, <1>4 DEF ChargeCommit
  <2>2. ChargeAmount[k] \in Nat
    BY CreditBuilderAssumption
  <2>3. LedgerTypeOK' /\ \A j : Posted(j) => Posted(j)'
    BY <1>1 DEF CreditInv, CreditTypeOK, LedgerTypeOK, Posted
  <2>4. secured' \in Nat /\ secured' # None
    BY <2>1, <2>2, CreditBuilderAssumption
  <2>5. CreditKept
    BY <1>1, <2>1, <2>3, <2>4 DEF CreditKept, CreditInv, CreditTypeOK, Closed
  <2>6. SumFunctionOnSet(ChargeAmount, charged') = SumFunctionOnSet(ChargeAmount, charged) + ChargeAmount[k]
    <3>1. IsFiniteSet(charged) /\ \A x \in charged : ChargeAmount[x] \in Int
      BY CreditBuilderAssumption, FS_Subset DEF CreditInv, CreditTypeOK
    <3> QED
      BY <1>4, <2>1, <2>2, <3>1, SumAdd
  <2>7. Posted(<<"cb:open">>)'
    BY <1>2, <2>3 DEF CreditInv, OwedSound
  <2>8. SumFunctionOnSet(ChargeAmount, charged) \in Nat
    BY <2>5, ChargesGrow DEF CreditInv
  <2>9. OwedSound' /\ SecurityTold'
    BY <1>1, <1>2, <2>1, <2>2, <2>6, <2>7, <2>8, SecurityStays DEF OwedSound, CreditInv
  <2>10. \A p \in Periods : StatementSound(p)'
    BY <1>1, <2>5, StatementsStay
  <2>11. Becomes(s, Idle)
    BY <1>1 DEF Leave, Becomes
  <2> QED
    BY <1>1, <2>3, <2>4, <2>5, <2>9, <2>10, <2>11, CreditIdle, CreditMoves DEF CreditInv, CreditTypeOK
<1> QED
  BY <1>3, <1>4

(* closeStatement.                                                         *)
LEMMA CloseStatementInv ==
  ASSUME CreditInv, NEW s \in Slots, NEW p \in Periods, CloseStatement(s, p)
  PROVE  CreditInv'
<1>1. secured \in Nat /\ secured # None
  BY DEF CloseStatement, CreditInv, CreditTypeOK
<1>2. CreditCall(Request("close-statement", "insert", p, secured))
  BY <1>1 DEF CreditCall, Request
<1> QED
  BY <1>1, <1>2, CreditBegins DEF CloseStatement

(* The statements after p was written: each is sound.                      *)
LEMMA StatementWritten ==
  ASSUME CreditInv, NEW s \in Slots, NEW c \in CreditRequests, Becomes(s, c), CreditCall(c)',
         UNCHANGED <<journals, bal, secured, limit, opens, charged, reported>>,
         NEW p \in Periods, NEW row \in Statements, statement' = [statement EXCEPT ![p] = row],
         row.status # "none", secured # None,
         Closed(p) => row.closing = statement[p].closing,
         row.status \in {"paid", "reported"} => PaidFor(p) /\ Closed(p)
  PROVE  CreditInv'
<1>1. /\ statement' \in [Periods -> Statements] /\ statement'[p] = row
      /\ \A q \in Periods \ {p} : statement'[q] = statement[q]
  BY DEF CreditInv, CreditTypeOK
<1>2. LedgerTypeOK' /\ \A j : Posted(j)' <=> Posted(j)
  BY DEF CreditInv, CreditTypeOK, LedgerTypeOK, Posted
<1>3. CreditKept
  BY <1>1, <1>2 DEF CreditKept, CreditInv, CreditTypeOK, Closed
<1>4. OwedSound' /\ SecurityTold'
  BY <1>3, OwedKept, SecurityStays DEF CreditInv
<1>5. ASSUME NEW q \in Periods PROVE StatementSound(q)'
  <2>1. CASE q # p
    <3>1. statement'[q] = statement[q] /\ MayReport(q)
      BY <1>1, <2>1, MayStay
    <3> QED
      BY <1>3, <3>1, StatementsKept
  <2>2. CASE q = p
    <3>1. Closed(p)' /\ secured' # None
      BY <1>1 DEF Closed
    <3>2. p \in reported => PaidFor(p) /\ Closed(p)
      BY DEF CreditInv, StatementSound
    <3>3. row.status \in {"paid", "reported"} \/ p \in reported' => PaidFor(p)'
      BY <1>3, <3>2, PaidForKept
    <3> QED
      BY <1>1, <2>2, <3>1, <3>3 DEF StatementSound
  <2> QED
    BY <2>1, <2>2
<1>6. secured' \in Nat \cup {None} /\ limit' \in Nat /\ reported' \in SUBSET Periods
  BY DEF CreditInv, CreditTypeOK
<1> QED
  BY <1>1, <1>2, <1>3, <1>4, <1>5, <1>6, CreditMoves

LEMMA StatementInsertInv ==
  ASSUME CreditInv, NEW s \in Slots, StatementInsert(s)
  PROVE  CreditInv'
<1>1. /\ call[s].op = "close-statement" /\ Leave(s) /\ Becomes(s, Idle)
      /\ UNCHANGED <<journals, bal, secured, limit, opens, charged, reported>>
  BY DEF StatementInsert, At, Leave, Becomes
<1>2. PICK p \in Periods, saw \in Nat : p = call[s].row /\ saw = call[s].saw /\ secured # None
  BY <1>1 DEF CreditInv, CreditCalls, CreditCall
<1>3. statement \in [Periods -> Statements]
  BY DEF CreditInv, CreditTypeOK
<1>4. CASE statement[p].status # "none"
  <2>1. statement' = statement
    BY <1>2, <1>3, <1>4 DEF StatementInsert
  <2> QED
    BY <1>1, <2>1, CreditEnds DEF ReadOnly
<1>5. CASE statement[p].status = "none"
  <2>1. PICK row \in Statements : row = [status |-> "open", closing |-> saw]
    BY DEF Statements
  <2>2. statement' = [statement EXCEPT ![p] = row]
    BY <1>2, <1>3, <1>5, <2>1 DEF StatementInsert
  <2>3. row.status = "open" /\ ~Closed(p)
    BY <1>5, <2>1 DEF Closed
  <2> QED
    BY <1>1, <1>2, <2>2, <2>3, CreditIdle, StatementWritten
<1> QED
  BY <1>4, <1>5

(* autopayStatement.                                                       *)
LEMMA AutopayInv ==
  ASSUME CreditInv, NEW s \in Slots, NEW p \in Periods, NEW key \in PayKeys, Autopay(s, p, key)
  PROVE  CreditInv'
<1>1. CreditCall(Request("autopay", "post", p, key))
  BY DEF CreditCall, Request, Autopay, Closed
<1> QED
  BY <1>1, CreditBegins DEF Autopay

LEMMA AutopayPostInv ==
  ASSUME CreditInv, NEW s \in Slots, AutopayPost(s)
  PROVE  CreditInv'
<1>1. /\ call[s].op = "autopay" /\ Goto(s, "mark")
      /\ UNCHANGED <<secured, limit, opens, charged, statement, reported>>
  BY DEF AutopayPost, At
<1>2. PICK p \in Periods, key \in PayKeys : p = call[s].row /\ key = call[s].saw /\ Closed(p)
  BY <1>1 DEF CreditInv, CreditCalls, CreditCall
<1>3. Billed(p) \in Nat
  BY DEF Billed, CreditInv, CreditTypeOK, Statements
<1>4. /\ LedgerTypeOK' /\ \A j : Posted(j) => Posted(j)'
      /\ Billed(p) > 0 => Posted(<<"cb:pay", p, key>>)'
      /\ SecurityTold'
  <2>1. CASE Billed(p) > 0
    <3>1. PostJournal(<<"cb:pay", p, key>>, Move(GuardianCash, CreditClearing, Billed(p)))
      BY <1>2, <2>1 DEF AutopayPost
    <3>2. Move(GuardianCash, CreditClearing, Billed(p)) \in Effects
      BY <1>3, MoveType
    <3>3. Posted(<<"cb:open">>)' => Posted(<<"cb:open">>) /\ journals'[<<"cb:open">>] = journals[<<"cb:open">>]
      <4>1. PICK j, o : j = <<"cb:pay", p, key>> /\ o = <<"cb:open">> /\ j # o
        <5>1. PICK j, o : j = <<"cb:pay", p, key>> /\ o = <<"cb:open">>
          OBVIOUS
        <5>2. j[1] = "cb:pay" /\ o[1] = "cb:open"
          BY <5>1
        <5> QED
          BY <5>1, <5>2
      <4>2. PICK d \in Effects : PostJournal(j, d)
        BY <3>1, <3>2, <4>1
      <4>3. Posted(o)' => Posted(o) /\ journals'[o] = journals[o]
        BY <4>1, <4>2 DEF PostJournal, ledgerVars, Posted
      <4> QED
        BY <4>1, <4>3
    <3>4. SecurityTold'
      BY <1>1, <3>3 DEF SecurityTold, Security, CreditInv
    <3> QED
      BY <3>1, <3>2, <3>4, PostKeeps DEF CreditInv, CreditTypeOK
  <2>2. CASE ~(Billed(p) > 0)
    <3>1. journals' = journals /\ bal' = bal
      BY <1>2, <2>2 DEF AutopayPost, ledgerVars
    <3>2. SecurityTold'
      BY <1>1, <3>1, SecurityStays DEF CreditInv
    <3> QED
      BY <2>2, <3>1, <3>2 DEF CreditInv, CreditTypeOK, LedgerTypeOK, Posted
  <2> QED
    BY <2>1, <2>2
<1>5. PICK c \in CreditRequests : Becomes(s, c) /\ c = Request("autopay", "mark", p, key)
  BY <1>1, <1>2, CreditGoto
<1>6. PaidFor(p)' /\ Closed(p)'
  BY <1>1, <1>2, <1>3, <1>4 DEF PaidFor, Billed, Closed
<1>7. CreditCall(c)'
  BY <1>5, <1>6, RequestHas DEF CreditCall
<1>8. opens' \in SUBSET SecuredLimits
  BY <1>1 DEF CreditInv, CreditTypeOK
<1> QED
  BY <1>1, <1>4, <1>5, <1>7, <1>8, CreditQuiet

(* A statement that is paid is marked as paid, or as reported.             *)
LEMMA MarkInv ==
  ASSUME CreditInv, NEW s \in Slots, NEW op \in {"autopay", "report"},
         NEW status \in {"paid", "reported"}, NEW next \in {"clear", "done"},
         next = "clear" => op = "autopay",
         StatementMark(s, op, status, next)
  PROVE  CreditInv'
<1>1. /\ call[s].op = op /\ call[s].at = "mark"
      /\ UNCHANGED <<journals, bal, secured, limit, opens, charged, reported>>
  BY DEF StatementMark, At
<1>2. PICK p \in Periods : p = call[s].row /\ Closed(p) /\ PaidFor(p)
  BY <1>1 DEF CreditInv, CreditCalls, CreditCall
<1>3. PICK row \in Statements : row = [status |-> status, closing |-> statement[p].closing]
  BY DEF Statements, CreditInv, CreditTypeOK
<1>4. statement' = [statement EXCEPT ![p] = row] /\ statement'[p] = row
  <2>1. statement \in [Periods -> Statements]
    BY DEF CreditInv, CreditTypeOK
  <2>2. PICK old, closing : statement[p] = [status |-> old, closing |-> closing]
    BY <2>1 DEF Statements
  <2>3. [statement[p] EXCEPT !.status = status] = row
    BY <1>3, <2>2
  <2>4. statement' = [statement EXCEPT ![p] = [statement[p] EXCEPT !.status = status]]
    BY <1>2 DEF StatementMark
  <2> QED
    BY <2>1, <2>3, <2>4
<1>5. secured # None
  BY <1>2 DEF CreditInv, StatementSound
<1>6. \E c \in CreditRequests : Becomes(s, c) /\ CreditCall(c)'
  <2>1. CASE next = "done"
    <3>1. Leave(s)
      BY <2>1 DEF StatementMark
    <3> QED
      BY <3>1, CreditIdle DEF Leave, Becomes
  <2>2. CASE next = "clear"
    <3>1. Goto(s, "clear") /\ op = "autopay"
      BY <2>2 DEF StatementMark
    <3>2. PICK c \in CreditRequests :
            Becomes(s, c) /\ c = Request("autopay", "clear", call[s].row, call[s].saw)
      BY <1>1, <3>1, CreditGoto
    <3>3. call[s].saw \in PayKeys
      BY <1>1, <3>1 DEF CreditInv, CreditCalls, CreditCall
    <3>4. Closed(p)' /\ PaidFor(p)'
      BY <1>1, <1>2, <1>3, <1>4 DEF Closed, PaidFor, Posted
    <3>5. CreditCall(c)'
      BY <1>2, <3>2, <3>3, <3>4, RequestHas DEF CreditCall
    <3> QED
      BY <3>2, <3>5
  <2> QED
    BY <2>1, <2>2
<1>7. PICK c \in CreditRequests : Becomes(s, c) /\ CreditCall(c)'
  BY <1>6
<1>8. row.status # "none" /\ row.closing = statement[p].closing
  BY <1>3
<1> QED
  BY <1>1, <1>2, <1>4, <1>5, <1>7, <1>8, StatementWritten

LEMMA AutopayClearInv ==
  ASSUME CreditInv, NEW s \in Slots, AutopayClear(s)
  PROVE  CreditInv'
<1>1. /\ call[s].op = "autopay" /\ Becomes(s, Idle) /\ secured' = 0
      /\ UNCHANGED <<journals, bal, limit, opens, charged, statement, reported>>
  BY DEF AutopayClear, At, Leave, Becomes
<1>2. PICK p \in Periods : Closed(p)
  BY <1>1 DEF CreditInv, CreditCalls, CreditCall
<1>3. secured # None
  BY <1>2 DEF CreditInv, StatementSound
<1>4. LedgerTypeOK' /\ \A j : Posted(j) => Posted(j)'
  BY <1>1 DEF CreditInv, CreditTypeOK, LedgerTypeOK, Posted
<1>5. secured' \in Nat /\ secured' # None
  BY <1>1, CreditBuilderAssumption
<1>6. CreditKept
  BY <1>1, <1>4, <1>5 DEF CreditKept, CreditInv, CreditTypeOK, Closed
<1>7. OwedSound' /\ SecurityTold' /\ limit' \in Nat
  <2>1. SumFunctionOnSet(ChargeAmount, charged') \in Nat /\ limit' \in Nat
    BY <1>1, <1>6, ChargesGrow DEF CreditInv, CreditTypeOK
  <2>2. Posted(<<"cb:open">>)'
    BY <1>3, <1>4 DEF CreditInv, OwedSound
  <2>3. SecurityTold'
    BY <1>1, SecurityStays DEF CreditInv
  <2> QED
    BY <1>1, <2>1, <2>2, <2>3 DEF OwedSound
<1>8. \A p2 \in Periods : StatementSound(p2)'
  BY <1>1, <1>6, StatementsStay
<1> QED
  BY <1>1, <1>4, <1>5, <1>6, <1>7, <1>8, CreditIdle, CreditMoves DEF CreditInv, CreditTypeOK

(* reportStatementToBureau.                                                *)
LEMMA ReportInv ==
  ASSUME CreditInv, NEW s \in Slots, NEW p \in Periods, ReportStatement(s, p)
  PROVE  CreditInv'
<1>1. Closed(p) /\ PaidFor(p)
  BY DEF ReportStatement, Reportable, CreditInv, StatementSound, Closed
<1>2. CreditCall(Request("report", "submit", p, None))
  BY <1>1 DEF CreditCall, Request
<1> QED
  BY <1>2, CreditBegins DEF ReportStatement

LEMMA ReportSubmitInv ==
  ASSUME CreditInv, NEW s \in Slots, ReportSubmit(s)
  PROVE  CreditInv'
<1>1. /\ call[s].op = "report" /\ Goto(s, "mark") /\ reported' = reported \cup {call[s].row}
      /\ UNCHANGED <<journals, bal, secured, limit, opens, charged, statement>>
  BY DEF ReportSubmit, At
<1>2. PICK p \in Periods : p = call[s].row /\ Closed(p) /\ PaidFor(p)
  BY <1>1 DEF CreditInv, CreditCalls, CreditCall
<1>3. LedgerTypeOK' /\ \A j : Posted(j) => Posted(j)'
  BY <1>1 DEF CreditInv, CreditTypeOK, LedgerTypeOK, Posted
<1>4. CreditKept
  BY <1>1, <1>3 DEF CreditKept, CreditInv, CreditTypeOK, Closed
<1>5. PICK c \in CreditRequests : Becomes(s, c) /\ c = Request("report", "mark", p, call[s].saw)
  BY <1>1, <1>2, CreditGoto
<1>6. Closed(p)' /\ PaidFor(p)'
  BY <1>1, <1>2 DEF Closed, PaidFor, Posted
<1>7. CreditCall(c)'
  BY <1>5, <1>6, RequestHas DEF CreditCall
<1>8. OwedSound' /\ SecurityTold'
  BY <1>1, <1>4, OwedKept, SecurityStays DEF CreditInv
<1>9. ASSUME NEW q \in Periods PROVE StatementSound(q)'
  <2>1. statement'[q] = statement[q]
    BY <1>1
  <2>2. MayReport(q)
    BY <1>1, <1>2 DEF MayReport, CreditInv, StatementSound
  <2> QED
    BY <1>4, <2>1, <2>2, StatementsKept
<1>10. secured' \in Nat \cup {None} /\ limit' \in Nat /\ statement' \in [Periods -> Statements] /\ reported' \in SUBSET Periods
  BY <1>1, <1>2 DEF CreditInv, CreditTypeOK
<1> QED
  BY <1>3, <1>4, <1>5, <1>7, <1>8, <1>9, <1>10, CreditMoves

LEMMA CreditStepInv == CreditInv /\ [CreditNext]_creditVars => CreditInv'
<1> SUFFICES ASSUME CreditInv, [CreditNext]_creditVars PROVE CreditInv'
  OBVIOUS
<1>1. CASE UNCHANGED creditVars
  BY <1>1 DEF CreditInv, CreditTypeOK, LedgerTypeOK, CreditCalls, CreditCall, OwedSound, SecurityTold, Security,
              StatementSound, PaidFor, Closed, Posted, creditVars
<1>2. ASSUME NEW s \in Slots,
             \/ \E l \in SecuredLimits : OpenCredit(s, l)
             \/ SecurePost(s) \/ SecureInsert(s)
             \/ \E k \in Charges : Charge(s, k)
             \/ ChargeCommit(s)
             \/ \E p \in Periods :
                  \/ CloseStatement(s, p) \/ ReportStatement(s, p)
                  \/ \E key \in PayKeys : Autopay(s, p, key)
             \/ StatementInsert(s)
             \/ AutopayPost(s) \/ AutopayClear(s)
             \/ ReportSubmit(s)
      PROVE  CreditInv'
  BY <1>2, OpenCreditInv, SecurePostInv, SecureInsertInv, ChargeInv, ChargeCommitInv, CloseStatementInv,
     ReportInv, AutopayInv, StatementInsertInv, AutopayPostInv, AutopayClearInv, ReportSubmitInv
<1>3. ASSUME NEW s \in Slots, AutopayMark(s) \/ ReportMark(s) PROVE CreditInv'
  BY <1>3, MarkInv DEF AutopayMark, ReportMark
<1>4. ASSUME NEW s \in Slots, Dies(s),
             UNCHANGED <<secured, limit, opens, charged, statement, reported>>
      PROVE  CreditInv'
  BY <1>4, CreditEnds DEF Dies, ReadOnly, ledgerVars
<1> QED
  BY <1>1, <1>2, <1>3, <1>4 DEF CreditNext

LEMMA CreditInvBounds == CreditInv => ReportsArePaid /\ OwedIsCharged
<1> SUFFICES ASSUME CreditInv PROVE ReportsArePaid /\ OwedIsCharged
  OBVIOUS
<1>1. ReportsArePaid
  BY DEF CreditInv, StatementSound, ReportsArePaid, PaidFor
<1>2. ASSUME secured # None PROVE OwedIsCharged
  <2>1. PICK l \in opens : Posted(<<"cb:open">>) /\ journals[<<"cb:open">>] = Security(l)
    BY <1>2 DEF CreditInv, OwedSound, SecurityTold
  <2> QED
    BY <1>2, <2>1 DEF CreditInv, OwedSound, OwedIsCharged
<1> QED
  BY <1>1, <1>2 DEF OwedIsCharged

-----------------------------------------------------------------------------
(* Savings: a goal shows what was saved into it, a day's interest is paid  *)
(* once.                                                                   *)

SaveRequests ==
  Requests({"idle", "deposit", "withdraw", "starter", "borderless"},
           {"idle", "post", "goal", "allocate", "match", "match-post", "answer", "row"},
           Saves \cup Days \cup {None}, Nat \cup {None})

SavingsTypeOK ==
  /\ LedgerTypeOK
  /\ call \in [Slots -> SaveRequests]
  /\ allocated \in Nat
  /\ answered \in SUBSET Saves
  /\ accrual \in [Days -> (Products \X Nat) \cup {None}]

Into == {k \in Saves : SaveOp[k] = "deposit" /\ Product[k] = "starter"}

Deposited(k) == Posted(<<"deposit", k>>)
Matched(k) == Match > 0 => Posted(<<"match", k>>)

(* What a request knows: a deposit that goes on was posted, one that is    *)
(* going to be answered is matched; interest that goes on was paid.        *)
SaveCall(c) ==
  /\ c.op = "deposit" =>
       /\ c.row \in Saves /\ SaveOp[c.row] = "deposit"
       /\ c.at # "post" => Deposited(c.row)
       /\ c.at \in {"goal", "allocate", "match", "match-post"} => c.row \in Into
       /\ c.at = "allocate" => c.saw \in Nat
       /\ c.at = "answer" /\ c.row \in Into => Matched(c.row)
  /\ c.op = "withdraw" => c.row \in Saves /\ SaveOp[c.row] = "withdraw"
  /\ c.op \in Products =>
       /\ c.row \in Days /\ c.saw \in Nat
       /\ c.at = "row" => Posted(<<c.op, c.row>>)

SaveCalls == \A s \in Slots : SaveCall(call[s])

SavedAnswers == \A k \in Into \cap answered : Deposited(k) /\ Matched(k)

AccrualsPaid == \A d \in Days : accrual[d] # None => Posted(<<accrual[d][1], d>>)

(* While deposits follow one another: the one that is served, c, is the    *)
(* only one that is posted and not answered, and the goal has all but it.  *)
AddsTo(c, k) == c.op = "deposit" /\ c.row = k /\ c.at \in {"goal", "allocate"}

DepositAlone(c) ==
  /\ \A k \in Saves : Deposited(k) =>
       k \in answered \/ (c.op = "deposit" /\ c.row = k /\ c.at # "post")
  /\ c.op = "deposit" => c.row \notin answered
  /\ c.op = "deposit" /\ c.at = "allocate" => c.saw = allocated
  /\ allocated = SaveMinor * Cardinality({k \in Into : Deposited(k) /\ ~AddsTo(c, k)})

SoleDeposit(s) ==
  /\ \A t \in Slots \ {s} : call[t].op # "deposit"
  /\ DepositAlone(call[s])

DepositsEven == "deposit" \notin uneven => \E s \in Slots : SoleDeposit(s)

(* While accruals follow one another: what is posted has its row, or is    *)
(* the interest that is being accrued, for a day that has none.            *)
RowTells(d, p) ==
  /\ accrual[d] # None /\ accrual[d][1] = p
  /\ journals[<<p, d>>][Pot[p]] = accrual[d][2]

Accrues(c, p, d) ==
  /\ c.op = p /\ c.row = d /\ c.at = "row"
  /\ journals[<<p, d>>][Pot[p]] = c.saw

AccrualAlone(c) ==
  /\ \A p \in Products, d \in Days : Posted(<<p, d>>) => RowTells(d, p) \/ Accrues(c, p, d)
  /\ c.op \in Products => accrual[c.row] = None

SoleAccrual(s) ==
  /\ \A t \in Slots \ {s} : call[t].op \notin Products
  /\ AccrualAlone(call[s])

AccrualsEven == "interest" \notin uneven => \E s \in Slots : SoleAccrual(s)

SavingsInv ==
  /\ SavingsTypeOK
  /\ SaveCalls
  /\ SavedAnswers
  /\ AccrualsPaid
  /\ DepositsEven
  /\ AccrualsEven

LEMMA SavingsInitInv == SavingsInit => SavingsInv
<1> SUFFICES ASSUME SavingsInit PROVE SavingsInv
  OBVIOUS
<1> USE OpeningAssumption DEF SavingsInit, ServiceInit, LedgerInit
<1>1. LedgerTypeOK
  BY DEF LedgerTypeOK, Effects
<1>2. SavingsTypeOK
  BY <1>1 DEF SavingsTypeOK, SaveRequests, Requests, Idle, Request
<1>3. SaveCalls
  BY DEF SaveCalls, SaveCall, Idle, Request, Products
<1>4. SavedAnswers /\ AccrualsPaid
  BY DEF SavedAnswers, AccrualsPaid
<1>5. PICK s \in Slots : TRUE
  BY ServiceAssumption
<1>6. \A key : ~Posted(key)
  BY DEF Posted
<1>7. /\ \A t \in Slots : call[t].op = "idle"
      /\ call[s].op # "deposit" /\ call[s].op \notin Products
  BY DEF Idle, Request, Products
<1>8. DepositAlone(call[s])
  <2>1. {k \in Into : Deposited(k) /\ ~AddsTo(call[s], k)} = {}
    BY <1>6 DEF Deposited
  <2>2. Cardinality({}) = 0 /\ SaveMinor * 0 = 0
    BY FS_EmptySet, SavingsAssumption
  <2> QED
    BY <1>6, <1>7, <2>1, <2>2 DEF DepositAlone, Deposited
<1>9. AccrualAlone(call[s])
  BY <1>6, <1>7 DEF AccrualAlone
<1>10. DepositsEven /\ AccrualsEven
  BY <1>7, <1>8, <1>9 DEF DepositsEven, AccrualsEven, SoleDeposit, SoleAccrual, Products
<1> QED
  BY <1>2, <1>3, <1>4, <1>10 DEF SavingsInv

(* What GoalTellsSavings and InterestOncePerDay say follows.               *)
LEMMA SavingsInvBounds == SavingsInv => GoalTellsSavings /\ InterestOncePerDay
<1> SUFFICES ASSUME SavingsInv PROVE GoalTellsSavings /\ InterestOncePerDay
  OBVIOUS
<1>1. ASSUME "deposit" \notin uneven
      PROVE  allocated = SaveMinor * Cardinality(
               {k \in {i \in Into : ~\E s \in Slots : /\ call[s].row = i /\ call[s].op = "deposit"
                                                      /\ call[s].at \in {"goal", "allocate"}} :
                  Deposited(k)})
  <2>1. PICK s \in Slots : SoleDeposit(s)
    BY <1>1 DEF SavingsInv, DepositsEven
  <2>2. {k \in {i \in Into : ~\E t \in Slots : /\ call[t].row = i /\ call[t].op = "deposit"
                                               /\ call[t].at \in {"goal", "allocate"}} :
           Deposited(k)}
        = {k \in Into : Deposited(k) /\ ~AddsTo(call[s], k)}
    BY <2>1 DEF SoleDeposit, AddsTo
  <2> QED
    BY <2>1, <2>2 DEF SoleDeposit, DepositAlone
<1>2. \A k \in Into \cap answered : Deposited(k) /\ Matched(k)
  BY DEF SavingsInv, SavedAnswers
<1>3. GoalTellsSavings
  <2> DEFINE adding == {k \in Into : \E s \in Slots : /\ call[s].row = k /\ call[s].op = "deposit"
                                                      /\ call[s].at \in {"goal", "allocate"}}
  <2>1. {k \in Into \ adding : Deposited(k)}
        = {k \in {i \in Into : ~\E s \in Slots : /\ call[s].row = i /\ call[s].op = "deposit"
                                                 /\ call[s].at \in {"goal", "allocate"}} :
             Deposited(k)}
    OBVIOUS
  <2>2. "deposit" \notin uneven =>
          allocated = SaveMinor * Cardinality({k \in Into \ adding : Deposited(k)})
    BY <1>1, <2>1
  <2> QED
    BY <1>2, <2>2 DEF GoalTellsSavings, Into, Deposited, Matched
<1>4. ASSUME NEW d \in Days, "interest" \notin uneven
      PROVE  /\ Cardinality({p \in Products : Posted(<<p, d>>)}) <= 1
             /\ accrual[d] # None => journals[<<accrual[d][1], d>>][Pot[accrual[d][1]]] = accrual[d][2]
  <2>1. PICK s \in Slots : SoleAccrual(s)
    BY <1>4 DEF SavingsInv, AccrualsEven
  <2>2. AccrualAlone(call[s])
    BY <2>1 DEF SoleAccrual
  <2>3. ASSUME NEW p \in Products, NEW q \in Products, Posted(<<p, d>>), Posted(<<q, d>>)
        PROVE  p = q
    BY <2>2, <2>3 DEF AccrualAlone, RowTells, Accrues
  <2>4. Cardinality({p \in Products : Posted(<<p, d>>)}) <= 1
    <3>1. PICK P \in SUBSET Products : P = {p \in Products : Posted(<<p, d>>)}
      OBVIOUS
    <3>2. P = {} \/ \E p \in Products : P = {p}
      BY <2>3, <3>1
    <3>3. Cardinality(P) \in {0, 1}
      BY <3>2, FS_EmptySet, FS_Singleton
    <3> QED
      BY <3>1, <3>3
  <2>5. ASSUME accrual[d] # None
        PROVE  journals[<<accrual[d][1], d>>][Pot[accrual[d][1]]] = accrual[d][2]
    <3>1. PICK p \in Products : p = accrual[d][1]
      BY <2>5 DEF SavingsInv, SavingsTypeOK
    <3>2. Posted(<<p, d>>)
      BY <2>5, <3>1 DEF SavingsInv, AccrualsPaid
    <3>3. ~Accrues(call[s], p, d)
      BY <2>2, <2>5, <3>1 DEF AccrualAlone, Accrues
    <3> QED
      BY <2>2, <3>1, <3>2, <3>3 DEF AccrualAlone, RowTells
  <2> QED
    BY <2>4, <2>5
<1>5. InterestOncePerDay
  BY <1>4 DEF InterestOncePerDay, SavingsInv, AccrualsPaid
<1> QED
  BY <1>3, <1>5

(* What a step keeps: journals, answers and rows.                          *)
SaveKept ==
  /\ LedgerTypeOK'
  /\ \A j : Posted(j) => Posted(j)' /\ journals'[j] = journals[j]

LEMMA SaveCallKept ==
  ASSUME SaveKept, NEW c, SaveCall(c)
  PROVE  SaveCall(c)'
<1>1. \A k : Deposited(k) => Deposited(k)'
  BY DEF Deposited, SaveKept
<1>2. \A k : Matched(k) => Matched(k)'
  BY DEF Matched, SaveKept
<1>3. c.op \in Products /\ c.at = "row" => Posted(<<c.op, c.row>>)'
  BY DEF SaveCall, SaveKept
<1> QED
  BY <1>1, <1>2, <1>3 DEF SaveCall

LEMMA SaveCallsMove ==
  ASSUME SavingsInv, SaveKept, NEW s \in Slots, NEW c \in SaveRequests, Becomes(s, c), SaveCall(c)'
  PROVE  SaveCalls' /\ call' \in [Slots -> SaveRequests]
<1>1. /\ call' \in [Slots -> SaveRequests] /\ call'[s] = c
      /\ \A t \in Slots \ {s} : call'[t] = call[t]
  BY BecomesOne DEF SavingsInv, SavingsTypeOK
<1>2. ASSUME NEW t \in Slots PROVE SaveCall(call[t])'
  <2>1. CASE t = s
    BY <1>1, <2>1 DEF SaveCall
  <2>2. CASE t # s
    <3>1. PICK d : d = call[t] /\ SaveCall(d)
      BY DEF SavingsInv, SaveCalls
    <3>2. SaveCall(d)' /\ call'[t] = d
      BY <1>1, <2>2, <3>1, SaveCallKept
    <3> QED
      BY <3>2 DEF SaveCall
  <2> QED
    BY <2>1, <2>2
<1> QED
  BY <1>1, <1>2 DEF SaveCalls

(* Steps that are not about a goal.                                        *)
LEMMA DepositsAside ==
  ASSUME SavingsInv, NEW s \in Slots, NEW c \in SaveRequests, Becomes(s, c),
         call[s].op # "deposit", c.op # "deposit",
         \A k \in Saves : Deposited(k)' <=> Deposited(k),
         allocated' = allocated, "deposit" \in uneven => "deposit" \in uneven',
         answered \subseteq answered', \A k \in answered' \ answered : SaveOp[k] = "withdraw"
  PROVE  DepositsEven'
<1> SUFFICES ASSUME "deposit" \notin uneven' PROVE \E t \in Slots : SoleDeposit(t)'
  BY DEF DepositsEven
<1>1. PICK t \in Slots : SoleDeposit(t)
  BY DEF SavingsInv, DepositsEven
<1>2. call' \in [Slots -> SaveRequests] /\ call'[s] = c /\ \A u \in Slots \ {s} : call'[u] = call[u]
  BY BecomesOne DEF SavingsInv, SavingsTypeOK
<1>3. PICK b, e : /\ b = call[t] /\ e = call'[t] /\ DepositAlone(b)
                  /\ (t = s => e = c) /\ (t # s => e = b)
  BY <1>1, <1>2 DEF SoleDeposit
<1>4. e.op = "deposit" => e = b
  BY <1>3
<1>5. b.op = "deposit" => e = b
  BY <1>3
<1>6. e.op = "deposit" => e.row \in Saves /\ SaveOp[e.row] = "deposit"
  BY <1>3, <1>4 DEF SavingsInv, SaveCalls, SaveCall
<1>7. \A k : AddsTo(e, k) <=> AddsTo(b, k)
  BY <1>4, <1>5 DEF AddsTo
<1>8. {k \in Into : Deposited(k)' /\ ~AddsTo(e, k)} = {k \in Into : Deposited(k) /\ ~AddsTo(b, k)}
  BY <1>7 DEF Into
<1>9. \A k \in Saves : Deposited(k)' => k \in answered' \/ (e.op = "deposit" /\ e.row = k /\ e.at # "post")
  BY <1>3, <1>5 DEF DepositAlone
<1>10. e.op = "deposit" => e.row \notin answered'
  BY <1>3, <1>4, <1>6 DEF DepositAlone
<1>11. e.op = "deposit" /\ e.at = "allocate" => e.saw = allocated'
  BY <1>3, <1>4 DEF DepositAlone
<1>12. allocated' = SaveMinor * Cardinality({k \in Into : Deposited(k)' /\ ~AddsTo(e, k)})
  BY <1>3, <1>8 DEF DepositAlone
<1>13. DepositAlone(e)'
  BY <1>9, <1>10, <1>11, <1>12 DEF DepositAlone, Into, AddsTo
<1>14. DepositAlone(call[t])'
  BY <1>3, <1>13 DEF DepositAlone, AddsTo
<1>15. \A u \in Slots \ {t} : call'[u].op # "deposit"
  BY <1>1, <1>2 DEF SoleDeposit
<1> QED
  BY <1>14, <1>15 DEF SoleDeposit

(* Steps that are not about interest.                                      *)
LEMMA AccrualsAside ==
  ASSUME SavingsInv, NEW s \in Slots, NEW c \in SaveRequests, Becomes(s, c),
         call[s].op \notin Products, c.op \notin Products,
         \A p \in Products, d \in Days : Posted(<<p, d>>)' =>
           Posted(<<p, d>>) /\ journals'[<<p, d>>] = journals[<<p, d>>],
         accrual' = accrual, "interest" \in uneven => "interest" \in uneven'
  PROVE  AccrualsEven'
<1> SUFFICES ASSUME "interest" \notin uneven' PROVE \E t \in Slots : SoleAccrual(t)'
  BY DEF AccrualsEven
<1>1. PICK t \in Slots : SoleAccrual(t)
  BY DEF SavingsInv, AccrualsEven
<1>2. call' \in [Slots -> SaveRequests] /\ call'[s] = c /\ \A u \in Slots \ {s} : call'[u] = call[u]
  BY BecomesOne DEF SavingsInv, SavingsTypeOK
<1>3. PICK b, e : /\ b = call[t] /\ e = call'[t] /\ AccrualAlone(b)
                  /\ (t = s => e = c) /\ (t # s => e = b)
  BY <1>1, <1>2 DEF SoleAccrual
<1>4. e.op \in Products => e = b
  BY <1>3
<1>5. b.op \in Products => e = b
  BY <1>3
<1>6. ASSUME NEW p \in Products, NEW d \in Days, Posted(<<p, d>>)'
      PROVE  RowTells(d, p)' \/ Accrues(e, p, d)'
  <2>1. Posted(<<p, d>>) /\ journals'[<<p, d>>] = journals[<<p, d>>]
    BY <1>6
  <2>2. RowTells(d, p) \/ Accrues(b, p, d)
    BY <1>3, <2>1 DEF AccrualAlone
  <2>3. CASE RowTells(d, p)
    BY <2>1, <2>3 DEF RowTells
  <2>4. CASE Accrues(b, p, d)
    BY <1>5, <2>1, <2>4 DEF Accrues
  <2> QED
    BY <2>2, <2>3, <2>4
<1>7. e.op \in Products => accrual'[e.row] = None
  BY <1>3, <1>4 DEF AccrualAlone
<1>8. AccrualAlone(e)'
  BY <1>6, <1>7 DEF AccrualAlone
<1>9. AccrualAlone(call[t])'
  BY <1>3, <1>8 DEF AccrualAlone, Accrues
<1>10. \A u \in Slots \ {t} : call'[u].op \notin Products
  BY <1>1, <1>2 DEF SoleAccrual
<1> QED
  BY <1>9, <1>10 DEF SoleAccrual

(* The deposit of s goes on, or begins when there is no other.             *)
LEMMA DepositGoesOn ==
  ASSUME SavingsInv, NEW s \in Slots, NEW c \in SaveRequests, Becomes(s, c),
         \A t \in Slots \ {s} : call[t].op # "deposit", DepositAlone(c)'
  PROVE  DepositsEven'
<1>1. call' \in [Slots -> SaveRequests] /\ call'[s] = c /\ \A t \in Slots \ {s} : call'[t] = call[t]
  BY BecomesOne DEF SavingsInv, SavingsTypeOK
<1>2. DepositAlone(call[s])'
  BY <1>1 DEF DepositAlone, AddsTo
<1> QED
  BY <1>1, <1>2 DEF DepositsEven, SoleDeposit

LEMMA DepositServed ==
  ASSUME SavingsInv, NEW s \in Slots, "deposit" \notin uneven,
         call[s].op = "deposit" \/ \A t \in Slots : call[t].op # "deposit"
  PROVE  /\ \A t \in Slots \ {s} : call[t].op # "deposit"
         /\ DepositAlone(call[s])
<1>1. PICK t \in Slots : SoleDeposit(t)
  BY DEF SavingsInv, DepositsEven
<1>2. CASE t = s
  BY <1>1, <1>2 DEF SoleDeposit
<1>3. CASE t # s
  <2>1. call[s].op # "deposit" /\ call[t].op # "deposit" /\ DepositAlone(call[t])
    BY <1>1, <1>3 DEF SoleDeposit
  <2>2. {k \in Into : Deposited(k) /\ ~AddsTo(call[s], k)}
        = {k \in Into : Deposited(k) /\ ~AddsTo(call[t], k)}
    BY <2>1 DEF AddsTo
  <2>3. DepositAlone(call[s])
    BY <2>1, <2>2 DEF DepositAlone
  <2> QED
    BY <2>1, <2>3
<1> QED
  BY <1>2, <1>3

(* The same of the interest.                                               *)
LEMMA AccrualGoesOn ==
  ASSUME SavingsInv, NEW s \in Slots, NEW c \in SaveRequests, Becomes(s, c),
         \A t \in Slots \ {s} : call[t].op \notin Products, AccrualAlone(c)'
  PROVE  AccrualsEven'
<1>1. call' \in [Slots -> SaveRequests] /\ call'[s] = c /\ \A t \in Slots \ {s} : call'[t] = call[t]
  BY BecomesOne DEF SavingsInv, SavingsTypeOK
<1>2. AccrualAlone(call[s])'
  BY <1>1 DEF AccrualAlone, Accrues
<1> QED
  BY <1>1, <1>2 DEF AccrualsEven, SoleAccrual

LEMMA AccrualServed ==
  ASSUME SavingsInv, NEW s \in Slots, "interest" \notin uneven,
         call[s].op \in Products \/ \A t \in Slots : call[t].op \notin Products
  PROVE  /\ \A t \in Slots \ {s} : call[t].op \notin Products
         /\ AccrualAlone(call[s])
<1>1. PICK t \in Slots : SoleAccrual(t)
  BY DEF SavingsInv, AccrualsEven
<1>2. CASE t = s
  BY <1>1, <1>2 DEF SoleAccrual
<1>3. CASE t # s
  <2>1. call[s].op \notin Products /\ call[t].op \notin Products /\ AccrualAlone(call[t])
    BY <1>1, <1>3 DEF SoleAccrual
  <2>2. \A p \in Products, d \in Days : ~Accrues(call[t], p, d)
    BY <2>1 DEF Accrues
  <2>3. AccrualAlone(call[s])
    BY <2>1, <2>2 DEF AccrualAlone
  <2> QED
    BY <2>1, <2>3
<1> QED
  BY <1>2, <1>3

(* A journal of one kind leaves the others.                                *)
LEMMA SaveJournals ==
  ASSUME SavingsInv, NEW kind, NEW x, NEW d \in Effects, PostJournal(<<kind, x>>, d)
  PROVE  /\ SaveKept /\ Posted(<<kind, x>>)'
         /\ ~Posted(<<kind, x>>) => journals'[<<kind, x>>] = d
         /\ \A k : k # x \/ kind # "deposit" => (Deposited(k)' <=> Deposited(k))
         /\ \A p, e : p # kind \/ e # x =>
              (Posted(<<p, e>>)' => Posted(<<p, e>>) /\ journals'[<<p, e>>] = journals[<<p, e>>])
<1>1. LedgerTypeOK
  BY DEF SavingsInv, SavingsTypeOK
<1>2. PICK key : key = <<kind, x>>
  OBVIOUS
<1>3. /\ LedgerTypeOK' /\ Posted(key)'
      /\ ~Posted(key) => journals'[key] = d
      /\ \A j : Posted(j) => Posted(j)' /\ journals'[j] = journals[j]
      /\ \A j : Posted(j)' => Posted(j) \/ j = key
  BY <1>1, <1>2, PostKeeps
<1>4. \A p, e : p # kind \/ e # x => <<p, e>> # key
  BY <1>2
<1>5. SaveKept
  BY <1>3 DEF SaveKept
<1>6. \A k : k # x \/ kind # "deposit" => (Deposited(k)' <=> Deposited(k))
  BY <1>3, <1>4 DEF Deposited
<1>7. \A p, e : p # kind \/ e # x =>
        (Posted(<<p, e>>)' => Posted(<<p, e>>) /\ journals'[<<p, e>>] = journals[<<p, e>>])
  BY <1>3, <1>4
<1> QED
  BY <1>2, <1>3, <1>5, <1>6, <1>7

LEMMA SaveNothingPosted ==
  ASSUME SavingsInv, UNCHANGED <<journals, bal>>
  PROVE  /\ SaveKept
         /\ \A k : Deposited(k)' <=> Deposited(k)
         /\ \A p, e : Posted(<<p, e>>)' =>
              Posted(<<p, e>>) /\ journals'[<<p, e>>] = journals[<<p, e>>]
BY DEF SavingsInv, SavingsTypeOK, SaveKept, LedgerTypeOK, Posted, Deposited

LEMMA SavedStays ==
  ASSUME SavingsInv, SaveKept, answered' = answered
  PROVE  SavedAnswers'
<1>1. ASSUME NEW k \in Into \cap answered PROVE Deposited(k)' /\ Matched(k)'
  BY DEF SavingsInv, SavedAnswers, SaveKept, Deposited, Matched
<1> QED
  BY <1>1 DEF SavedAnswers, Into

LEMMA AccruedStays ==
  ASSUME SavingsInv, SaveKept, accrual' = accrual
  PROVE  AccrualsPaid'
BY DEF SavingsInv, AccrualsPaid, SaveKept

(* A step of s that is not about interest.                                 *)
LEMMA SavesOnly ==
  ASSUME SavingsInv, NEW s \in Slots, NEW c \in SaveRequests, Becomes(s, c), SaveCall(c)',
         call[s].op \notin Products, c.op \notin Products, SaveKept,
         \A p \in Products, d \in Days : Posted(<<p, d>>)' =>
           Posted(<<p, d>>) /\ journals'[<<p, d>>] = journals[<<p, d>>],
         accrual' = accrual, "interest" \in uneven => "interest" \in uneven',
         allocated' \in Nat, answered' \in SUBSET Saves, SavedAnswers', DepositsEven'
  PROVE  SavingsInv'
<1>1. SaveCalls' /\ call' \in [Slots -> SaveRequests]
  BY SaveCallsMove
<1>2. SavingsTypeOK'
  BY <1>1 DEF SavingsInv, SavingsTypeOK, SaveKept
<1>3. AccrualsEven'
  BY AccrualsAside
<1>4. AccrualsPaid'
  BY AccruedStays
<1> QED
  BY <1>1, <1>2, <1>3, <1>4 DEF SavingsInv

(* A deposit begins.                                                       *)
LEMMA DepositCallInv ==
  ASSUME SavingsInv, NEW s \in Slots, NEW k \in Saves, DepositCall(s, k)
  PROVE  SavingsInv'
<1>1. PICK c \in SaveRequests : c = Request("deposit", "post", k, None)
  BY RequestIn DEF SaveRequests
<1>2. /\ call[s] = Idle /\ Becomes(s, c) /\ SaveOp[k] = "deposit" /\ k \notin answered
      /\ UNCHANGED <<journals, bal, allocated, locked, answered, accrual>>
  BY <1>1 DEF DepositCall, Begin, Becomes
<1>3. /\ SaveKept
      /\ \A i : Deposited(i)' <=> Deposited(i)
      /\ \A p, e : Posted(<<p, e>>)' => Posted(<<p, e>>) /\ journals'[<<p, e>>] = journals[<<p, e>>]
  BY <1>2, SaveNothingPosted
<1>4. c.op = "deposit" /\ c.at = "post" /\ c.row = k
  BY <1>1, RequestHas
<1>5. SaveCall(c)'
  BY <1>2, <1>4 DEF SaveCall, Products
<1>6. call[s].op = "idle"
  BY <1>2, RequestHas DEF Idle
<1>7. DepositsEven'
  <2> SUFFICES ASSUME "deposit" \notin uneven' PROVE DepositsEven'
    BY DEF DepositsEven
  <2>1. "deposit" \notin uneven /\ \A t \in Slots : call[t].op # "deposit"
    BY DEF DepositCall, Beside
  <2>2. DepositAlone(call[s])
    BY <2>1, DepositServed
  <2>3. {i \in Into : Deposited(i)' /\ ~AddsTo(c, i)} = {i \in Into : Deposited(i) /\ ~AddsTo(call[s], i)}
    BY <1>3, <1>4, <1>6 DEF AddsTo
  <2>4. DepositAlone(c)'
    BY <1>2, <1>3, <1>4, <1>6, <2>2, <2>3 DEF DepositAlone, Into, AddsTo
  <2> QED
    BY <1>2, <2>1, <2>4, DepositGoesOn
<1>8. call[s].op \notin Products /\ c.op \notin Products
  BY <1>4, <1>6 DEF Products
<1>9. SavedAnswers'
  BY <1>2, <1>3, SavedStays
<1>10. allocated' \in Nat /\ answered' \in SUBSET Saves
  BY <1>2 DEF SavingsInv, SavingsTypeOK
<1>11. "interest" \in uneven => "interest" \in uneven'
  BY DEF DepositCall
<1> QED
  BY <1>2, <1>3, <1>5, <1>7, <1>8, <1>9, <1>10, <1>11, SavesOnly

LEMMA SaveHas ==
  ASSUME SavingsInv, NEW s \in Slots
  PROVE  call[s] \in SaveRequests /\ SaveCall(call[s])
BY DEF SavingsInv, SavingsTypeOK, SaveCalls

LEMMA SaveGoto ==
  ASSUME SavingsInv, NEW s \in Slots,
         NEW at \in {"goal", "allocate", "match", "match-post", "answer", "row"}, Goto(s, at)
  PROVE  \E c \in SaveRequests : /\ Becomes(s, c) /\ c.op = call[s].op /\ c.at = at
                                 /\ c.row = call[s].row /\ c.saw = call[s].saw
<1>1. call \in [Slots -> SaveRequests]
  BY DEF SavingsInv, SavingsTypeOK
<1>2. Becomes(s, Request(call[s].op, at, call[s].row, call[s].saw))
  BY <1>1, GotoBecomes DEF SaveRequests
<1>3. Request(call[s].op, at, call[s].row, call[s].saw) \in SaveRequests
  BY <1>1 DEF SaveRequests, Requests, Request
<1>4. PICK c \in SaveRequests : c = Request(call[s].op, at, call[s].row, call[s].saw)
  BY <1>3
<1> QED
  BY <1>2, <1>4, RequestHas

LEMMA SaveSeeing ==
  ASSUME SavingsInv, NEW s \in Slots,
         NEW at \in {"allocate", "match"}, NEW saw \in Nat \cup {None}, Seeing(s, at, saw)
  PROVE  \E c \in SaveRequests : /\ Becomes(s, c) /\ c.op = call[s].op /\ c.at = at
                                 /\ c.row = call[s].row /\ c.saw = saw
<1>1. call \in [Slots -> SaveRequests]
  BY DEF SavingsInv, SavingsTypeOK
<1>2. Becomes(s, Request(call[s].op, at, call[s].row, saw))
  BY DEF Seeing, Becomes
<1>3. Request(call[s].op, at, call[s].row, saw) \in SaveRequests
  BY <1>1 DEF SaveRequests, Requests, Request
<1>4. PICK c \in SaveRequests : c = Request(call[s].op, at, call[s].row, saw)
  BY <1>3
<1> QED
  BY <1>2, <1>4, RequestHas

LEMMA SaveIdle == /\ Idle \in SaveRequests /\ Idle.op = "idle"
                  /\ SaveCall(Idle) /\ SaveCall(Idle)'
BY DEF Idle, Request, SaveRequests, Requests, SaveCall, Products

(* A deposit that moves on without a journal of a deposit or a change of   *)
(* the goal.                                                               *)
LEMMA DepositMoves ==
  ASSUME SavingsInv, NEW s \in Slots, NEW c \in SaveRequests, Becomes(s, c), SaveCall(c)',
         call[s].op = "deposit", call[s].at # "post", c.op = "deposit", c.at # "post",
         c.row = call[s].row,
         c.at \in {"goal", "allocate"} <=> call[s].at \in {"goal", "allocate"},
         c.at = "allocate" => c.saw = allocated,
         SaveKept, \A k : Deposited(k)' <=> Deposited(k),
         \A p \in Products, d \in Days : Posted(<<p, d>>)' =>
           Posted(<<p, d>>) /\ journals'[<<p, d>>] = journals[<<p, d>>],
         UNCHANGED <<allocated, answered, accrual, uneven>>
  PROVE  SavingsInv'
<1>1. DepositsEven'
  <2> SUFFICES ASSUME "deposit" \notin uneven' PROVE DepositsEven'
    BY DEF DepositsEven
  <2>1. (\A t \in Slots \ {s} : call[t].op # "deposit") /\ DepositAlone(call[s])
    BY DepositServed
  <2>2. \A i : AddsTo(c, i) <=> AddsTo(call[s], i)
    BY DEF AddsTo
  <2>3. {i \in Into : Deposited(i)' /\ ~AddsTo(c, i)} = {i \in Into : Deposited(i) /\ ~AddsTo(call[s], i)}
    BY <2>2
  <2>4. DepositAlone(c)'
    BY <2>1, <2>3 DEF DepositAlone, Into, AddsTo
  <2> QED
    BY <2>1, <2>4, DepositGoesOn
<1>2. call[s].op \notin Products /\ c.op \notin Products
  BY DEF Products
<1>3. SavedAnswers'
  BY SavedStays
<1>4. allocated' \in Nat /\ answered' \in SUBSET Saves
  BY DEF SavingsInv, SavingsTypeOK
<1> QED
  BY <1>1, <1>2, <1>3, <1>4, SavesOnly

LEMMA DepositPostInv ==
  ASSUME SavingsInv, NEW s \in Slots, DepositPost(s)
  PROVE  SavingsInv'
<1>1. /\ call[s].op = "deposit" /\ call[s].at = "post"
      /\ UNCHANGED <<allocated, locked, answered, accrual, uneven>>
  BY DEF DepositPost, At
<1>2. PICK k \in Saves : k = call[s].row /\ SaveOp[k] = "deposit"
  BY <1>1, SaveHas DEF SaveCall
<1>3. PICK d \in Effects : d = Move(SaverCash[Product[k]], Pot[Product[k]], SaveMinor)
  BY MoveType, SavingsAssumption
<1>4. PostJournal(<<"deposit", k>>, d)
  BY <1>2, <1>3 DEF DepositPost
<1>5. /\ SaveKept /\ Deposited(k)'
      /\ \A i : i # k => (Deposited(i)' <=> Deposited(i))
      /\ \A p, e : p # "deposit" \/ e # k =>
           (Posted(<<p, e>>)' => Posted(<<p, e>>) /\ journals'[<<p, e>>] = journals[<<p, e>>])
  BY <1>4, SaveJournals DEF Deposited
<1>6. PICK c \in SaveRequests :
        /\ Becomes(s, c) /\ c.op = "deposit" /\ c.row = k
        /\ c.at = IF Product[k] = "starter" THEN "goal" ELSE "answer"
  <2>1. Goto(s, IF Product[k] = "starter" THEN "goal" ELSE "answer")
    BY <1>2 DEF DepositPost
  <2>2. (IF Product[k] = "starter" THEN "goal" ELSE "answer") \in {"goal", "answer"}
    OBVIOUS
  <2>3. \E c \in SaveRequests : /\ Becomes(s, c) /\ c.op = call[s].op /\ c.row = call[s].row
                                /\ c.at = IF Product[k] = "starter" THEN "goal" ELSE "answer"
    BY <2>1, <2>2, SaveGoto
  <2> QED
    BY <1>1, <1>2, <2>3
<1>7. SaveCall(c)'
  BY <1>2, <1>5, <1>6 DEF SaveCall, Into, Products
<1>8. DepositsEven'
  <2> SUFFICES ASSUME "deposit" \notin uneven' PROVE DepositsEven'
    BY DEF DepositsEven
  <2>1. (\A t \in Slots \ {s} : call[t].op # "deposit") /\ DepositAlone(call[s])
    BY <1>1, DepositServed
  <2>2. ~Deposited(k) /\ k \notin answered
    BY <1>1, <1>2, <2>1 DEF DepositAlone
  <2>3. {i \in Into : Deposited(i)' /\ ~AddsTo(c, i)} = {i \in Into : Deposited(i) /\ ~AddsTo(call[s], i)}
    <3>1. \A i : ~AddsTo(call[s], i)
      BY <1>1 DEF AddsTo
    <3>2. \A i \in Into : i # k => ~AddsTo(c, i)
      BY <1>6 DEF AddsTo
    <3>3. k \in Into => AddsTo(c, k)
      BY <1>6 DEF AddsTo, Into
    <3> QED
      BY <1>5, <2>2, <3>1, <3>2, <3>3
  <2>4. \A i \in Saves : Deposited(i)' => i \in answered' \/ (c.op = "deposit" /\ c.row = i /\ c.at # "post")
    BY <1>1, <1>5, <1>6, <2>1 DEF DepositAlone
  <2>5. DepositAlone(c)'
    BY <1>1, <1>6, <2>1, <2>2, <2>3, <2>4 DEF DepositAlone, Into, AddsTo
  <2> QED
    BY <1>6, <2>1, <2>5, DepositGoesOn
<1>9. call[s].op \notin Products /\ c.op \notin Products
  BY <1>1, <1>6 DEF Products
<1>10. SavedAnswers'
  BY <1>1, <1>5, SavedStays
<1>11. \A p \in Products, e \in Days : Posted(<<p, e>>)' =>
         Posted(<<p, e>>) /\ journals'[<<p, e>>] = journals[<<p, e>>]
  BY <1>5 DEF Products
<1>12. allocated' \in Nat /\ answered' \in SUBSET Saves
  BY <1>1 DEF SavingsInv, SavingsTypeOK
<1> QED
  BY <1>1, <1>5, <1>6, <1>7, <1>8, <1>9, <1>10, <1>11, <1>12, SavesOnly

LEMMA GoalReadInv ==
  ASSUME SavingsInv, NEW s \in Slots, GoalRead(s)
  PROVE  SavingsInv'
<1>1. /\ call[s].op = "deposit" /\ call[s].at = "goal" /\ Seeing(s, "allocate", allocated)
      /\ UNCHANGED <<journals, bal, allocated, locked, answered, accrual, uneven>>
  BY DEF GoalRead, At
<1>2. allocated \in Nat
  BY DEF SavingsInv, SavingsTypeOK
<1>3. PICK c \in SaveRequests : /\ Becomes(s, c) /\ c.op = "deposit" /\ c.at = "allocate"
                                /\ c.row = call[s].row /\ c.saw = allocated
  BY <1>1, <1>2, SaveSeeing
<1>4. /\ SaveKept /\ \A i : Deposited(i)' <=> Deposited(i)
      /\ \A p, e : Posted(<<p, e>>)' => Posted(<<p, e>>) /\ journals'[<<p, e>>] = journals[<<p, e>>]
  BY <1>1, SaveNothingPosted
<1>5. SaveCall(c)'
  BY <1>1, <1>2, <1>3, <1>4, SaveHas DEF SaveCall, Products
<1> QED
  BY <1>1, <1>3, <1>4, <1>5, DepositMoves

LEMMA GoalWriteInv ==
  ASSUME SavingsInv, NEW s \in Slots, GoalWrite(s)
  PROVE  SavingsInv'
<1>1. /\ call[s].op = "deposit" /\ call[s].at = "allocate" /\ Seeing(s, "match", None)
      /\ allocated' = call[s].saw + SaveMinor
      /\ UNCHANGED <<journals, bal, locked, answered, accrual, uneven>>
  BY DEF GoalWrite, At
<1>2. PICK k \in Into : /\ k = call[s].row /\ SaveOp[k] = "deposit" /\ k \in Saves /\ Deposited(k)
                        /\ call[s].saw \in Nat
  BY <1>1, SaveHas DEF SaveCall
<1>3. PICK c \in SaveRequests : /\ Becomes(s, c) /\ c.op = "deposit" /\ c.at = "match" /\ c.row = k
  <2>1. PICK saw \in Nat \cup {None} : Seeing(s, "match", saw)
    BY <1>1
  <2>2. \E c \in SaveRequests : /\ Becomes(s, c) /\ c.op = call[s].op /\ c.at = "match"
                                /\ c.row = call[s].row
    BY <1>1, <2>1, SaveSeeing
  <2> QED
    BY <1>1, <1>2, <2>2
<1>4. /\ SaveKept /\ \A i : Deposited(i)' <=> Deposited(i)
      /\ \A p, e : Posted(<<p, e>>)' => Posted(<<p, e>>) /\ journals'[<<p, e>>] = journals[<<p, e>>]
  BY <1>1, SaveNothingPosted
<1>5. SaveCall(c)'
  BY <1>2, <1>3, <1>4 DEF SaveCall, Products
<1>6. SaveMinor \in Nat
  BY SavingsAssumption
<1>7. DepositsEven'
  <2> SUFFICES ASSUME "deposit" \notin uneven' PROVE DepositsEven'
    BY DEF DepositsEven
  <2>1. (\A t \in Slots \ {s} : call[t].op # "deposit") /\ DepositAlone(call[s])
    BY <1>1, DepositServed
  <2>2. call[s].saw = allocated
    BY <1>1, <2>1 DEF DepositAlone
  <2>3. PICK before \in SUBSET Saves : before = {i \in Into : Deposited(i) /\ ~AddsTo(call[s], i)}
    BY DEF Into
  <2>4. PICK after \in SUBSET Saves : after = {i \in Into : Deposited(i)' /\ ~AddsTo(c, i)}
    BY DEF Into
  <2>5. after = before \cup {k} /\ k \notin before
    BY <1>1, <1>2, <1>3, <1>4, <2>3, <2>4 DEF AddsTo
  <2>6. PICK n \in Nat : n = Cardinality(before) /\ Cardinality(after) = n + 1
    BY <2>5, FS_Subset, FS_AddElement, FS_CardinalityType, SavingsAssumption
  <2>7. allocated = SaveMinor * n
    BY <2>1, <2>3, <2>6 DEF DepositAlone
  <2>8. SaveMinor * (n + 1) = SaveMinor * n + SaveMinor
    BY <1>6
  <2>9. allocated' = SaveMinor * Cardinality(after)
    BY <1>1, <2>2, <2>6, <2>7, <2>8
  <2>10. \A i \in Saves : Deposited(i)' => i \in answered' \/ (c.op = "deposit" /\ c.row = i /\ c.at # "post")
    BY <1>1, <1>2, <1>3, <1>4, <2>1 DEF DepositAlone
  <2>11. c.row \notin answered'
    BY <1>1, <1>2, <1>3, <2>1 DEF DepositAlone
  <2>12. DepositAlone(c)'
    BY <1>3, <2>4, <2>9, <2>10, <2>11 DEF DepositAlone, Into, AddsTo
  <2> QED
    BY <1>3, <2>1, <2>12, DepositGoesOn
<1>8. call[s].op \notin Products /\ c.op \notin Products
  BY <1>1, <1>3 DEF Products
<1>9. SavedAnswers'
  BY <1>1, <1>4, SavedStays
<1>10. allocated' \in Nat /\ answered' \in SUBSET Saves
  BY <1>1, <1>2, <1>6 DEF SavingsInv, SavingsTypeOK
<1> QED
  BY <1>1, <1>3, <1>4, <1>5, <1>7, <1>8, <1>9, <1>10, SavesOnly

LEMMA GuardianReadInv ==
  ASSUME SavingsInv, NEW s \in Slots, GuardianRead(s)
  PROVE  SavingsInv'
<1>1. /\ call[s].op = "deposit" /\ call[s].at = "match"
      /\ UNCHANGED <<journals, bal, allocated, locked, answered, accrual>>
  BY DEF GuardianRead, At
<1>2. /\ SaveKept /\ \A i : Deposited(i)' <=> Deposited(i)
      /\ \A p, e : Posted(<<p, e>>)' => Posted(<<p, e>>) /\ journals'[<<p, e>>] = journals[<<p, e>>]
  BY <1>1, SaveNothingPosted
<1>3. CASE Goto(s, "match-post") /\ UNCHANGED uneven
  <2>1. PICK c \in SaveRequests : /\ Becomes(s, c) /\ c.op = "deposit" /\ c.at = "match-post"
                                  /\ c.row = call[s].row
    BY <1>1, <1>3, SaveGoto
  <2>2. SaveCall(c)'
    BY <1>1, <1>2, <2>1, SaveHas DEF SaveCall, Products
  <2> QED
    BY <1>1, <1>2, <1>3, <2>1, <2>2, DepositMoves
<1>4. CASE Leave(s) /\ uneven' = uneven \cup {"deposit"}
  <2>1. Becomes(s, Idle)
    BY <1>4 DEF Leave, Becomes
  <2>2. call[s].op \notin Products /\ Idle.op \notin Products
    BY <1>1, SaveIdle DEF Products
  <2>3. DepositsEven'
    BY <1>4 DEF DepositsEven
  <2>4. SavedAnswers'
    BY <1>1, <1>2, SavedStays
  <2>5. allocated' \in Nat /\ answered' \in SUBSET Saves
    BY <1>1 DEF SavingsInv, SavingsTypeOK
  <2>6. "interest" \in uneven => "interest" \in uneven'
    BY <1>4
  <2> QED
    BY <1>1, <1>2, <2>1, <2>2, <2>3, <2>4, <2>5, <2>6, SaveIdle, SavesOnly
<1> QED
  BY <1>3, <1>4 DEF GuardianRead

LEMMA GuardianPostInv ==
  ASSUME SavingsInv, NEW s \in Slots, GuardianPost(s)
  PROVE  SavingsInv'
<1>1. /\ call[s].op = "deposit" /\ call[s].at = "match-post" /\ Goto(s, "answer")
      /\ UNCHANGED <<allocated, locked, answered, accrual, uneven>>
  BY DEF GuardianPost, At
<1>2. PICK k \in Into : k = call[s].row /\ k \in Saves /\ SaveOp[k] = "deposit" /\ Deposited(k)
  BY <1>1, SaveHas DEF SaveCall
<1>3. /\ SaveKept /\ \A i : Deposited(i)' <=> Deposited(i)
      /\ \A p \in Products, e \in Days :
           Posted(<<p, e>>)' => Posted(<<p, e>>) /\ journals'[<<p, e>>] = journals[<<p, e>>]
      /\ Matched(k)'
  <2>1. Match \in Int
    BY SavingsAssumption DEF Match
  <2>2. CASE Match = 0
    BY <2>1, <2>2, SaveNothingPosted DEF GuardianPost, ledgerVars, Matched, Match
  <2>3. CASE Match # 0
    <3>1. PICK d \in Effects : d = Move(GuardianPurse, Pot["starter"], Match)
      BY <2>1, MoveType
    <3>2. PostJournal(<<"match", k>>, d)
      BY <1>2, <2>3, <3>1 DEF GuardianPost
    <3>3. /\ SaveKept /\ Posted(<<"match", k>>)' /\ \A i : Deposited(i)' <=> Deposited(i)
          /\ \A p, e : p # "match" \/ e # k =>
              (Posted(<<p, e>>)' => Posted(<<p, e>>) /\ journals'[<<p, e>>] = journals[<<p, e>>])
      BY <3>2, SaveJournals
    <3>4. \A p \in Products : p # "match"
      BY DEF Products
    <3>5. Matched(k)'
      BY <3>3 DEF Matched
    <3> QED
      BY <3>3, <3>4, <3>5
  <2> QED
    BY <2>2, <2>3
<1>4. PICK c \in SaveRequests : Becomes(s, c) /\ c.op = "deposit" /\ c.at = "answer" /\ c.row = k
  BY <1>1, <1>2, SaveGoto
<1>5. SaveCall(c)'
  BY <1>2, <1>3, <1>4 DEF SaveCall, Products
<1> QED
  BY <1>1, <1>2, <1>3, <1>4, <1>5, DepositMoves

(* Withdrawals, and the answers that are stored.                           *)
LEMMA WithdrawCallInv ==
  ASSUME SavingsInv, NEW s \in Slots, NEW k \in Saves, WithdrawCall(s, k)
  PROVE  SavingsInv'
<1>1. PICK c \in SaveRequests : c = Request("withdraw", "post", k, None)
  BY RequestIn DEF SaveRequests
<1>2. /\ call[s] = Idle /\ Becomes(s, c) /\ SaveOp[k] = "withdraw"
      /\ UNCHANGED <<journals, bal, allocated, locked, answered, accrual, uneven>>
  BY <1>1 DEF WithdrawCall, Begin, Becomes
<1>3. /\ SaveKept /\ \A i : Deposited(i)' <=> Deposited(i)
      /\ \A p, e : Posted(<<p, e>>)' => Posted(<<p, e>>) /\ journals'[<<p, e>>] = journals[<<p, e>>]
  BY <1>2, SaveNothingPosted
<1>4. c.op = "withdraw" /\ c.row = k
  BY <1>1, RequestHas
<1>5. SaveCall(c)'
  BY <1>2, <1>4 DEF SaveCall, Products
<1>6. call[s].op = "idle"
  BY <1>2, SaveIdle
<1>7. DepositsEven'
  BY <1>2, <1>3, <1>4, <1>6, DepositsAside
<1>8. call[s].op \notin Products /\ c.op \notin Products
  BY <1>4, <1>6 DEF Products
<1>9. SavedAnswers'
  BY <1>2, <1>3, SavedStays
<1>10. allocated' \in Nat /\ answered' \in SUBSET Saves
  BY <1>2 DEF SavingsInv, SavingsTypeOK
<1> QED
  BY <1>2, <1>3, <1>5, <1>7, <1>8, <1>9, <1>10, SavesOnly

LEMMA WithdrawPostInv ==
  ASSUME SavingsInv, NEW s \in Slots, WithdrawPost(s)
  PROVE  SavingsInv'
<1>1. /\ call[s].op = "withdraw" /\ Goto(s, "answer")
      /\ UNCHANGED <<allocated, locked, answered, accrual, uneven>>
  BY DEF WithdrawPost, At
<1>2. PICK k \in Saves : k = call[s].row /\ SaveOp[k] = "withdraw"
  BY <1>1, SaveHas DEF SaveCall
<1>3. PICK d \in Effects : d = Move(Pot[Product[k]], SaverCash[Product[k]], SaveMinor)
  BY MoveType, SavingsAssumption
<1>4. PostJournal(<<"withdraw", k>>, d)
  BY <1>2, <1>3 DEF WithdrawPost
<1>5. /\ SaveKept /\ \A i : Deposited(i)' <=> Deposited(i)
      /\ \A p, e : p # "withdraw" \/ e # k =>
           (Posted(<<p, e>>)' => Posted(<<p, e>>) /\ journals'[<<p, e>>] = journals[<<p, e>>])
  BY <1>4, SaveJournals
<1>6. \A p \in Products, e \in Days : Posted(<<p, e>>)' =>
         Posted(<<p, e>>) /\ journals'[<<p, e>>] = journals[<<p, e>>]
  BY <1>5 DEF Products
<1>7. PICK c \in SaveRequests : Becomes(s, c) /\ c.op = "withdraw" /\ c.row = k
  BY <1>1, <1>2, SaveGoto
<1>8. SaveCall(c)'
  BY <1>2, <1>7 DEF SaveCall, Products
<1>9. DepositsEven'
  BY <1>1, <1>5, <1>7, DepositsAside
<1>10. call[s].op \notin Products /\ c.op \notin Products
  BY <1>1, <1>7 DEF Products
<1>11. SavedAnswers'
  BY <1>1, <1>5, SavedStays
<1>12. allocated' \in Nat /\ answered' \in SUBSET Saves
  BY <1>1 DEF SavingsInv, SavingsTypeOK
<1> QED
  BY <1>1, <1>5, <1>6, <1>7, <1>8, <1>9, <1>10, <1>11, <1>12, SavesOnly

LEMMA SaveAnswerInv ==
  ASSUME SavingsInv, NEW s \in Slots, SaveAnswer(s)
  PROVE  SavingsInv'
<1>1. /\ call[s].op \in {"deposit", "withdraw"} /\ call[s].at = "answer" /\ Becomes(s, Idle)
      /\ answered' = answered \cup {call[s].row}
      /\ UNCHANGED <<journals, bal, allocated, locked, accrual, uneven>>
  BY DEF SaveAnswer, Leave, Becomes
<1>2. /\ SaveKept /\ \A i : Deposited(i)' <=> Deposited(i)
      /\ \A p, e : Posted(<<p, e>>)' => Posted(<<p, e>>) /\ journals'[<<p, e>>] = journals[<<p, e>>]
  BY <1>1, SaveNothingPosted
<1>3. PICK k \in Saves :
        /\ k = call[s].row /\ SaveOp[k] = call[s].op
        /\ call[s].op = "deposit" => Deposited(k) /\ (k \in Into => Matched(k))
  BY <1>1, SaveHas DEF SaveCall
<1>4. SavedAnswers'
  <2>1. Deposited(k)' <=> Deposited(k)
    BY <1>2
  <2>2. k \in Into => Deposited(k) /\ Matched(k)
    BY <1>3 DEF Into
  <2>3. \A i \in Into \cap answered : Deposited(i)' /\ Matched(i)'
    BY <1>2 DEF SavingsInv, SavedAnswers, SaveKept, Matched, Match
  <2>4. Matched(k) => Matched(k)'
    BY <1>2 DEF SaveKept, Matched
  <2> QED
    BY <1>1, <1>3, <2>1, <2>2, <2>3, <2>4 DEF SavedAnswers, Into
<1>5. DepositsEven'
  <2>1. CASE call[s].op = "withdraw"
    BY <1>1, <1>2, <1>3, <2>1, SaveIdle, DepositsAside
  <2>2. CASE call[s].op = "deposit"
    <3> SUFFICES ASSUME "deposit" \notin uneven' PROVE DepositsEven'
      BY DEF DepositsEven
    <3>1. (\A t \in Slots \ {s} : call[t].op # "deposit") /\ DepositAlone(call[s])
      BY <1>1, <2>2, DepositServed
    <3>2. {i \in Into : Deposited(i)' /\ ~AddsTo(Idle, i)} = {i \in Into : Deposited(i) /\ ~AddsTo(call[s], i)}
      BY <1>1, <1>2, SaveIdle DEF AddsTo
    <3>3. \A i \in Saves : Deposited(i)' => i \in answered'
      BY <1>1, <1>2, <3>1 DEF DepositAlone
    <3>4. DepositAlone(Idle)'
      BY <1>1, <3>1, <3>2, <3>3, SaveIdle DEF DepositAlone, Into, AddsTo
    <3> QED
      BY <1>1, <3>1, <3>4, SaveIdle, DepositGoesOn
  <2> QED
    BY <1>1, <2>1, <2>2
<1>6. call[s].op \notin Products /\ Idle.op \notin Products
  BY <1>1, SaveIdle DEF Products
<1>7. allocated' \in Nat /\ answered' \in SUBSET Saves
  BY <1>1, <1>3 DEF SavingsInv, SavingsTypeOK
<1> QED
  BY <1>1, <1>2, <1>4, <1>5, <1>6, <1>7, SaveIdle, SavesOnly

LEMMA SettingsInv ==
  ASSUME SavingsInv, UNCHANGED <<journals, bal, call, allocated, answered, accrual, uneven>>
  PROVE  SavingsInv'
<1>1. SavingsTypeOK' /\ SaveCalls'
  BY DEF SavingsInv, SavingsTypeOK, LedgerTypeOK, SaveCalls, SaveCall, Deposited, Matched, Posted
<1>2. SavedAnswers' /\ AccrualsPaid'
  BY DEF SavingsInv, SavedAnswers, AccrualsPaid, Deposited, Matched, Posted
<1>3. DepositsEven'
  BY DEF SavingsInv, DepositsEven, SoleDeposit, DepositAlone, Deposited, Posted
<1>4. AccrualsEven'
  BY DEF SavingsInv, AccrualsEven, SoleAccrual, AccrualAlone, RowTells, Accrues, Posted
<1> QED
  BY <1>1, <1>2, <1>3, <1>4 DEF SavingsInv

(* A step of s that is not about a goal.                                   *)
LEMMA AccruesOnly ==
  ASSUME SavingsInv, NEW s \in Slots, NEW c \in SaveRequests, Becomes(s, c), SaveCall(c)',
         call[s].op # "deposit", c.op # "deposit", SaveKept,
         \A k : Deposited(k)' <=> Deposited(k),
         UNCHANGED <<allocated, answered>>, "deposit" \in uneven => "deposit" \in uneven',
         accrual' \in [Days -> (Products \X Nat) \cup {None}], AccrualsPaid', AccrualsEven'
  PROVE  SavingsInv'
<1>1. SaveCalls' /\ call' \in [Slots -> SaveRequests]
  BY SaveCallsMove
<1>2. SavingsTypeOK'
  BY <1>1 DEF SavingsInv, SavingsTypeOK, SaveKept
<1>3. DepositsEven'
  BY DepositsAside
<1>4. SavedAnswers'
  BY SavedStays
<1> QED
  BY <1>1, <1>2, <1>3, <1>4 DEF SavingsInv

LEMMA AccrueDayInv ==
  ASSUME SavingsInv, NEW s \in Slots, NEW p \in Products, NEW d \in Days, AccrueDay(s, p, d)
  PROVE  SavingsInv'
<1>1. Interest(p) \in Nat
  <2>1. bal[Pot[p]] \in Int /\ DailyDivisor \in Nat \ {0}
    BY SavingsAssumption DEF SavingsInv, SavingsTypeOK, LedgerTypeOK, Effects
  <2>2. bal[Pot[p]] \div DailyDivisor \in Int
    BY <2>1
  <2> QED
    BY <2>2 DEF AccrueDay, Interest
<1>2. PICK c \in SaveRequests : c = Request(p, "post", d, Interest(p))
  BY <1>1, RequestIn DEF SaveRequests, Products
<1>3. /\ call[s] = Idle /\ Becomes(s, c) /\ accrual[d] = None
      /\ UNCHANGED <<journals, bal, allocated, locked, answered, accrual>>
  BY <1>2 DEF AccrueDay, Begin, Becomes
<1>4. /\ SaveKept /\ \A i : Deposited(i)' <=> Deposited(i)
      /\ \A q, e : Posted(<<q, e>>)' => Posted(<<q, e>>) /\ journals'[<<q, e>>] = journals[<<q, e>>]
  BY <1>3, SaveNothingPosted
<1>5. c.op = p /\ c.at = "post" /\ c.row = d /\ c.saw \in Nat
  BY <1>1, <1>2, RequestHas
<1>6. SaveCall(c)'
  BY <1>5 DEF SaveCall, Products
<1>7. call[s].op = "idle"
  BY <1>3, SaveIdle
<1>8. AccrualsEven'
  <2> SUFFICES ASSUME "interest" \notin uneven' PROVE AccrualsEven'
    BY DEF AccrualsEven
  <2>1. "interest" \notin uneven /\ \A t \in Slots : call[t].op \notin Products
    BY DEF AccrueDay, Beside
  <2>2. AccrualAlone(call[s])
    BY <2>1, AccrualServed
  <2>3. \A q \in Products, e \in Days : ~Accrues(call[s], q, e)
    BY <2>1 DEF Accrues
  <2>4. \A q \in Products, e \in Days : Posted(<<q, e>>)' => RowTells(e, q)'
    BY <1>3, <1>4, <2>2, <2>3 DEF AccrualAlone, RowTells
  <2>5. AccrualAlone(c)'
    BY <1>3, <1>5, <2>4 DEF AccrualAlone
  <2> QED
    BY <1>3, <2>1, <2>5, AccrualGoesOn
<1>9. c.op # "deposit"
  BY <1>5 DEF Products
<1>10. AccrualsPaid'
  BY <1>3, <1>4, AccruedStays
<1>11. /\ accrual' \in [Days -> (Products \X Nat) \cup {None}]
       /\ "deposit" \in uneven => "deposit" \in uneven'
  BY <1>3 DEF SavingsInv, SavingsTypeOK, AccrueDay
<1> QED
  BY <1>3, <1>4, <1>6, <1>7, <1>8, <1>9, <1>10, <1>11, AccruesOnly

LEMMA InterestPostInv ==
  ASSUME SavingsInv, NEW s \in Slots, InterestPost(s)
  PROVE  SavingsInv'
<1>1. /\ call[s].op \in Products /\ call[s].at = "post" /\ Goto(s, "row")
      /\ UNCHANGED <<allocated, locked, answered, accrual, uneven>>
  BY DEF InterestPost
<1>2. PICK p \in Products, d \in Days, n \in Nat : p = call[s].op /\ d = call[s].row /\ n = call[s].saw
  BY <1>1, SaveHas DEF SaveCall
<1>3. PICK e \in Effects : e = Move(InterestSource, Pot[p], n)
  BY MoveType
<1>4. PostJournal(<<p, d>>, e)
  BY <1>2, <1>3 DEF InterestPost
<1>5. p # "deposit"
  BY DEF Products
<1>6. /\ SaveKept /\ \A i : Deposited(i)' <=> Deposited(i)
      /\ Posted(<<p, d>>)' /\ (~Posted(<<p, d>>) => journals'[<<p, d>>] = e)
      /\ \A q, f : q # p \/ f # d =>
           (Posted(<<q, f>>)' => Posted(<<q, f>>) /\ journals'[<<q, f>>] = journals[<<q, f>>])
  BY <1>4, <1>5, SaveJournals
<1>7. PICK c \in SaveRequests : Becomes(s, c) /\ c.op = p /\ c.at = "row" /\ c.row = d /\ c.saw = n
  BY <1>1, <1>2, SaveGoto
<1>8. SaveCall(c)'
  BY <1>6, <1>7 DEF SaveCall, Products
<1>9. e[Pot[p]] = n
  BY <1>3, SavingsAssumption DEF Move
<1>10. AccrualsEven'
  <2> SUFFICES ASSUME "interest" \notin uneven' PROVE AccrualsEven'
    BY DEF AccrualsEven
  <2>1. (\A t \in Slots \ {s} : call[t].op \notin Products) /\ AccrualAlone(call[s])
    BY <1>1, AccrualServed
  <2>2. accrual[d] = None /\ \A q \in Products, f \in Days : ~Accrues(call[s], q, f)
    BY <1>1, <1>2, <2>1 DEF AccrualAlone, Accrues
  <2>3. \A q \in Products, f \in Days : Posted(<<q, f>>) => RowTells(f, q)
    BY <2>1, <2>2 DEF AccrualAlone
  <2>4. ~Posted(<<p, d>>)
    BY <2>2, <2>3 DEF RowTells
  <2>5. Accrues(c, p, d)'
    BY <1>6, <1>7, <1>9, <2>4 DEF Accrues
  <2>6. ASSUME NEW q \in Products, NEW f \in Days, Posted(<<q, f>>)'
        PROVE  RowTells(f, q)' \/ Accrues(c, q, f)'
    <3>1. CASE q = p /\ f = d
      BY <2>5, <3>1
    <3>2. CASE q # p \/ f # d
      <4>1. Posted(<<q, f>>) /\ journals'[<<q, f>>] = journals[<<q, f>>]
        BY <1>6, <2>6, <3>2
      <4>2. RowTells(f, q)
        BY <2>3, <4>1
      <4> QED
        BY <1>1, <4>1, <4>2 DEF RowTells
    <3> QED
      BY <3>1, <3>2
  <2>7. AccrualAlone(c)'
    BY <1>1, <1>7, <2>2, <2>6 DEF AccrualAlone
  <2> QED
    BY <1>7, <2>1, <2>7, AccrualGoesOn
<1>11. call[s].op # "deposit" /\ c.op # "deposit"
  BY <1>2, <1>5, <1>7
<1>12. AccrualsPaid'
  BY <1>1, <1>6, AccruedStays
<1>13. accrual' \in [Days -> (Products \X Nat) \cup {None}] /\ uneven' = uneven
  BY <1>1 DEF SavingsInv, SavingsTypeOK
<1> QED
  BY <1>1, <1>6, <1>7, <1>8, <1>10, <1>11, <1>12, <1>13, AccruesOnly

LEMMA InterestRowInv ==
  ASSUME SavingsInv, NEW s \in Slots, InterestRow(s)
  PROVE  SavingsInv'
<1>1. /\ call[s].op \in Products /\ call[s].at = "row" /\ Becomes(s, Idle)
      /\ UNCHANGED <<journals, bal, allocated, locked, answered, uneven>>
  BY DEF InterestRow, Leave, Becomes
<1>2. PICK p \in Products, d \in Days, n \in Nat :
        p = call[s].op /\ d = call[s].row /\ n = call[s].saw /\ Posted(<<p, d>>)
  BY <1>1, SaveHas DEF SaveCall
<1>3. PICK row \in Products \X Nat : row = <<p, n>> /\ row[1] = p /\ row[2] = n /\ row # None
  <2>1. <<p, n>> \in Products \X Nat /\ <<p, n>>[1] = p /\ <<p, n>>[2] = n
    OBVIOUS
  <2>2. <<p, n>> # None
    BY <2>1, SavingsAssumption
  <2> QED
    BY <2>1, <2>2
<1>4. accrual' = IF accrual[d] = None THEN [accrual EXCEPT ![d] = row] ELSE accrual
  BY <1>2, <1>3 DEF InterestRow
<1>5. accrual \in [Days -> (Products \X Nat) \cup {None}]
  BY DEF SavingsInv, SavingsTypeOK
<1>6. accrual' \in [Days -> (Products \X Nat) \cup {None}]
  BY <1>4, <1>5
<1>7. \A f \in Days : accrual'[f] = IF f = d /\ accrual[d] = None THEN row ELSE accrual[f]
  BY <1>4, <1>5
<1>8. /\ SaveKept /\ \A i : Deposited(i)' <=> Deposited(i)
      /\ \A q, f : Posted(<<q, f>>)' => Posted(<<q, f>>) /\ journals'[<<q, f>>] = journals[<<q, f>>]
  BY <1>1, SaveNothingPosted
<1>9. AccrualsPaid'
  <2>1. ASSUME NEW f \in Days, accrual'[f] # None PROVE Posted(<<accrual[f][1], f>>)'
    <3>1. CASE accrual'[f] = accrual[f]
      <4>1. Posted(<<accrual[f][1], f>>)
        BY <2>1, <3>1 DEF SavingsInv, AccrualsPaid
      <4>2. PICK j : j = <<accrual[f][1], f>> /\ j = <<accrual'[f][1], f>>
        BY <3>1
      <4>3. Posted(j)'
        BY <1>8, <4>1, <4>2 DEF SaveKept
      <4> QED
        BY <4>2, <4>3 DEF Posted
    <3>2. CASE f = d /\ accrual'[f] = row
      <4>1. Posted(<<p, d>>)'
        BY <1>2, <1>8 DEF SaveKept
      <4>2. <<accrual'[f][1], f>> = <<p, d>>
        BY <1>3, <3>2
      <4> QED
        BY <4>1, <4>2 DEF Posted
    <3> QED
      BY <1>7, <3>1, <3>2
  <2> QED
    BY <2>1 DEF AccrualsPaid
<1>10. AccrualsEven'
  <2> SUFFICES ASSUME "interest" \notin uneven' PROVE AccrualsEven'
    BY DEF AccrualsEven
  <2>1. (\A t \in Slots \ {s} : call[t].op \notin Products) /\ AccrualAlone(call[s])
    BY <1>1, AccrualServed
  <2>2. accrual[d] = None
    BY <1>1, <1>2, <2>1 DEF AccrualAlone
  <2>3. ASSUME NEW q \in Products, NEW f \in Days, Posted(<<q, f>>)' PROVE RowTells(f, q)'
    <3>1. Posted(<<q, f>>) /\ journals'[<<q, f>>] = journals[<<q, f>>]
      BY <1>8, <2>3
    <3>2. RowTells(f, q) \/ Accrues(call[s], q, f)
      BY <2>1, <3>1 DEF AccrualAlone
    <3>3. CASE RowTells(f, q)
      <4>1. f # d /\ accrual'[f] = accrual[f]
        BY <1>7, <2>2, <3>3 DEF RowTells
      <4> QED
        BY <3>1, <3>3, <4>1 DEF RowTells
    <3>4. CASE Accrues(call[s], q, f)
      <4>1. q = p /\ f = d /\ journals[<<q, f>>][Pot[q]] = n
        BY <1>2, <3>4 DEF Accrues
      <4>2. accrual'[f] = row
        BY <1>7, <2>2, <4>1
      <4> QED
        BY <1>3, <3>1, <4>1, <4>2 DEF RowTells
    <3> QED
      BY <3>2, <3>3, <3>4
  <2>4. AccrualAlone(Idle)'
    BY <2>3, SaveIdle DEF AccrualAlone, Products
  <2> QED
    BY <1>1, <2>1, <2>4, SaveIdle, AccrualGoesOn
<1>11. call[s].op # "deposit"
  BY <1>1 DEF Products
<1> QED
  BY <1>1, <1>6, <1>8, <1>9, <1>10, <1>11, SaveIdle, AccruesOnly

LEMMA SaverDies ==
  ASSUME SavingsInv, NEW s \in Slots, Dies(s),
         uneven' = uneven \cup (CASE call[s].op = "deposit" -> {"deposit"}
                                  [] call[s].op \in Products -> {"interest"}
                                  [] OTHER -> {}),
         UNCHANGED <<allocated, locked, answered, accrual>>
  PROVE  SavingsInv'
<1>1. Becomes(s, Idle) /\ UNCHANGED <<journals, bal>>
  BY DEF Dies, Leave, Becomes, ledgerVars
<1>2. /\ SaveKept /\ \A i : Deposited(i)' <=> Deposited(i)
      /\ \A q, f : Posted(<<q, f>>)' => Posted(<<q, f>>) /\ journals'[<<q, f>>] = journals[<<q, f>>]
  BY <1>1, SaveNothingPosted
<1>3. Idle.op # "deposit" /\ Idle.op \notin Products
  BY SaveIdle DEF Products
<1>4. uneven \subseteq uneven'
  OBVIOUS
<1>5. DepositsEven'
  <2>1. CASE call[s].op = "deposit"
    <3>1. "deposit" \in uneven'
      <4>1. call[s].op \notin Products
        BY <2>1 DEF Products
      <4> QED
        BY <2>1, <4>1
    <3> QED
      BY <3>1 DEF DepositsEven
  <2>2. CASE call[s].op # "deposit"
    BY <1>1, <1>2, <1>3, <1>4, <2>2, SaveIdle, DepositsAside
  <2> QED
    BY <2>1, <2>2
<1>6. AccrualsEven'
  <2>1. CASE call[s].op \in Products
    <3>1. call[s].op # "deposit"
      BY <2>1 DEF Products
    <3>2. "interest" \in uneven'
      BY <2>1, <3>1
    <3> QED
      BY <3>2 DEF AccrualsEven
  <2>2. CASE call[s].op \notin Products
    BY <1>1, <1>2, <1>3, <1>4, <2>2, SaveIdle, AccrualsAside
  <2> QED
    BY <2>1, <2>2
<1>7. SavedAnswers' /\ AccrualsPaid'
  BY <1>2, SavedStays, AccruedStays
<1>8. SaveCalls' /\ call' \in [Slots -> SaveRequests]
  BY <1>1, <1>2, SaveIdle, SaveCallsMove
<1>9. SavingsTypeOK'
  BY <1>2, <1>8 DEF SavingsInv, SavingsTypeOK, SaveKept
<1> QED
  BY <1>5, <1>6, <1>7, <1>8, <1>9 DEF SavingsInv

LEMMA SavingsStepInv == SavingsInv /\ [SavingsNext]_savingsVars => SavingsInv'
<1> SUFFICES ASSUME SavingsInv, [SavingsNext]_savingsVars PROVE SavingsInv'
  OBVIOUS
<1>1. CASE UNCHANGED savingsVars \/ UpdateSavingsSettings
  BY <1>1, SettingsInv DEF savingsVars, UpdateSavingsSettings
<1>2. ASSUME NEW s \in Slots,
             \/ \E k \in Saves : DepositCall(s, k) \/ WithdrawCall(s, k)
             \/ \E p \in Products, d \in Days : AccrueDay(s, p, d)
             \/ DepositPost(s) \/ GoalRead(s) \/ GoalWrite(s) \/ GuardianRead(s) \/ GuardianPost(s)
             \/ WithdrawPost(s) \/ SaveAnswer(s) \/ InterestPost(s) \/ InterestRow(s)
      PROVE  SavingsInv'
  BY <1>2, DepositCallInv, WithdrawCallInv, AccrueDayInv, DepositPostInv, GoalReadInv, GoalWriteInv,
     GuardianReadInv, GuardianPostInv, WithdrawPostInv, SaveAnswerInv, InterestPostInv, InterestRowInv
<1>3. ASSUME NEW s \in Slots, Dies(s),
             uneven' = uneven \cup (CASE call[s].op = "deposit" -> {"deposit"}
                                      [] call[s].op \in Products -> {"interest"}
                                      [] OTHER -> {}),
             UNCHANGED <<allocated, locked, answered, accrual>>
      PROVE  SavingsInv'
  BY <1>3, SaverDies
<1> QED
  BY <1>1, <1>2, <1>3 DEF SavingsNext

-----------------------------------------------------------------------------
(* Onboarding: a tier is raised on evidence, and nobody waits for nothing. *)

OnbVerdicts == {"approved", "rejected", "review_required", "awaiting_verification"}

AgentRuns == [step : Steps, status : {"running", "passed", "failed"}, blocked : BOOLEAN]

SessionRows ==
  [status : OnbVerdicts \cup {"assessing"}, confidence : 0..20, required : SUBSET Steps,
   weak : BOOLEAN, runs : Seq(AgentRuns)]

OnbTypeOK ==
  /\ LedgerTypeOK
  /\ session \in Seq(SessionRows)
  /\ grant \in [by : {"human", "policy", "simulated"}, session : DOMAIN session \cup {None}] \cup {None}

(* An agent passed each of the steps, and no signal was very weak.         *)
Evidence(i) ==
  /\ ~session[i].weak
  /\ \A p \in session[i].required :
       \E n \in DOMAIN session[i].runs : session[i].runs[n].step = p /\ session[i].runs[n].status = "passed"

(* A request is on a session that exists, and knows what it decided, from  *)
(* what.                                                                   *)
OnbSteps == {"start-run", "finish-run", "confidence"}
OnbDecisions == {"grant", "raise", "status"}

OnbCall(c) ==
  \/ c = Idle
  \/ c = Request("onboard", "insert", None, c.saw) /\ c.saw \in Assessments
  \/ c = Request(c.op, "complete", None, None) /\ c.op \in KycCallers
  \/ /\ c = Request(c.op, c.at, c.row, c.saw)
     /\ c.row \in DOMAIN session
     /\ \/ /\ c.op \in Steps /\ c.at \in OnbSteps
           /\ c.saw = [outcome |-> c.saw.outcome, confidence |-> c.saw.confidence, run |-> c.saw.run]
           /\ c.saw.confidence \in 0..20
           /\ c.at = "finish-run" =>
                /\ c.saw.run \in DOMAIN session[c.row].runs
                /\ session[c.row].runs[c.saw.run].status = "running"
        \/ c.at = "decide" /\ c.op \in Steps \cup {"onboard"}
        \/ /\ c.op \in Steps \cup {"onboard", "review"} /\ c.at \in OnbDecisions
           /\ c.saw = [verdict |-> c.saw.verdict] /\ c.saw.verdict \in OnbVerdicts
           /\ c.at \in {"grant", "raise"} =>
                c.saw.verdict = "approved" /\ (c.op # "review" => Evidence(c.row))
           /\ c.at = "status" /\ c.saw.verdict = "approved" => grant # None

OnbCalls == call = [s \in Slots |-> call[s]] /\ \A s \in Slots : OnbCall(call[s])

(* Two requests do not own one run of an agent.                            *)
RunsOwned ==
  \A s, t \in Slots :
    /\ s # t /\ call[s].at = "finish-run" /\ call[t].at = "finish-run" /\ call[s].row = call[t].row
    => call[s].saw.run # call[t].saw.run

GrantHasEvidence ==
  /\ \A i \in DOMAIN session : session[i].status = "approved" => grant # None
  /\ grant # None /\ grant.by = "policy" => grant.session \in DOMAIN session /\ Evidence(grant.session)
  /\ grant # None /\ grant.by = "simulated" => "simulated" \in KycCallers

(* A session that was served one request at a time, and lost none.         *)
Assessing(s, i) == call[s].at \notin {"idle", "insert", "complete"} /\ call[s].row = i

OneAtATime ==
  \A s, t \in Slots : s # t /\ Assessing(s, call[t].row) /\ Assessing(t, call[t].row) => call[t].row \in disturbed

WaitsForStep ==
  /\ \A s \in Slots : \A i \in DOMAIN session :
       /\ call[s].at = "status" /\ call[s].saw.verdict = "awaiting_verification" /\ call[s].row = i
       /\ i \notin disturbed
       => Pending(i) # {}
  /\ \A i \in DOMAIN session :
       /\ session[i].status = "awaiting_verification" /\ i \notin disturbed /\ grant = None
       => Pending(i) # {} \/ \E s \in Slots : Assessing(s, i)

OnbInv ==
  /\ OnbTypeOK
  /\ OnbCalls
  /\ RunsOwned
  /\ GrantHasEvidence
  /\ OneAtATime
  /\ WaitsForStep

LEMMA SessionFacts ==
  ASSUME OnbTypeOK
  PROVE  /\ Len(session) \in Nat /\ DOMAIN session = 1..Len(session)
         /\ \A i \in DOMAIN session :
              /\ session[i] \in SessionRows /\ session[i].required \subseteq Steps
              /\ session[i].runs \in Seq(AgentRuns)
              /\ Len(session[i].runs) \in Nat /\ DOMAIN session[i].runs = 1..Len(session[i].runs)
              /\ \A n \in DOMAIN session[i].runs : session[i].runs[n] \in AgentRuns
<1>1. Len(session) \in Nat /\ DOMAIN session = 1..Len(session)
  BY LenProperties DEF OnbTypeOK
<1>2. \A i \in DOMAIN session : session[i] \in SessionRows
  BY <1>1, ElementOfSeq DEF OnbTypeOK
<1>3. \A i \in DOMAIN session : session[i].required \subseteq Steps /\ session[i].runs \in Seq(AgentRuns)
  BY <1>2 DEF SessionRows
<1>4. ASSUME NEW i \in DOMAIN session
      PROVE  /\ Len(session[i].runs) \in Nat /\ DOMAIN session[i].runs = 1..Len(session[i].runs)
             /\ \A n \in DOMAIN session[i].runs : session[i].runs[n] \in AgentRuns
  <2>1. PICK runs : runs = session[i].runs /\ runs \in Seq(AgentRuns)
    BY <1>3
  <2>2. Len(runs) \in Nat /\ DOMAIN runs = 1..Len(runs)
    BY <2>1, LenProperties
  <2>3. \A n \in 1..Len(runs) : runs[n] \in AgentRuns
    BY <2>1, ElementOfSeq
  <2> QED
    BY <2>1, <2>2, <2>3
<1> QED
  BY <1>1, <1>2, <1>3, <1>4

(* One row changes.                                                        *)
LEMMA RowChanges ==
  ASSUME OnbTypeOK, NEW i \in DOMAIN session, NEW r \in SessionRows,
         session' = [session EXCEPT ![i] = r]
  PROVE  /\ session' \in Seq(SessionRows) /\ DOMAIN session' = DOMAIN session
         /\ session'[i] = r
         /\ \A j \in DOMAIN session \ {i} : session'[j] = session[j]
<1>1. session \in Seq(SessionRows) /\ i \in 1..Len(session)
  BY SessionFacts DEF OnbTypeOK
<1>2. /\ session' \in Seq(SessionRows) /\ Len(session') = Len(session)
      /\ \A j \in 1..Len(session) : session'[j] = IF j = i THEN r ELSE session[j]
  BY <1>1, ExceptSeq
<1>3. DOMAIN session' = 1..Len(session') /\ DOMAIN session = 1..Len(session)
  BY <1>1, <1>2, LenProperties
<1> QED
  BY <1>1, <1>2, <1>3

LEMMA OnbInitInv == OnboardingInit => OnbInv
<1> SUFFICES ASSUME OnboardingInit PROVE OnbInv
  OBVIOUS
<1>1. LedgerTypeOK
  BY OpeningAssumption DEF OnboardingInit, ServiceInit, LedgerInit, LedgerTypeOK, Effects
<1>2. session \in Seq(SessionRows) /\ DOMAIN session = {} /\ grant = None
  BY EmptySeq DEF OnboardingInit
<1>3. /\ call = [s \in Slots |-> call[s]] /\ \A s \in Slots : call[s] = Idle /\ call[s].at = "idle"
  BY DEF OnboardingInit, ServiceInit, Idle, Request
<1> QED
  BY <1>1, <1>2, <1>3 DEF OnbInv, OnbTypeOK, OnbCalls, OnbCall, RunsOwned, GrantHasEvidence, OneAtATime,
                          WaitsForStep, Assessing

(* What was once found stays found: rows keep what was asked for, and runs *)
(* that ended their result.                                                *)
RowsGrow ==
  /\ DOMAIN session \subseteq DOMAIN session'
  /\ \A i \in DOMAIN session :
       /\ session'[i].required = session[i].required /\ session'[i].weak = session[i].weak
       /\ \A n \in DOMAIN session[i].runs :
            /\ n \in DOMAIN session'[i].runs
            /\ session[i].runs[n].status # "running" => session'[i].runs[n] = session[i].runs[n]

LEMMA EvidenceStays ==
  ASSUME RowsGrow, NEW i \in DOMAIN session, Evidence(i)
  PROVE  Evidence(i)'
BY DEF RowsGrow, Evidence

(* The rows as the request of s leaves them.                               *)
Touches(s) ==
  \A i \in DOMAIN session :
    /\ session'[i] # session[i] => Assessing(s, i)
    /\ \A n \in DOMAIN session[i].runs :
         session'[i].runs[n] # session[i].runs[n] =>
           call[s].at = "finish-run" /\ call[s].row = i /\ call[s].saw.run = n

(* What requests know stays true beside the request of s.                  *)
LEMMA OnbCallStays ==
  ASSUME OnbInv, NEW s \in Slots, NEW t \in Slots \ {s}, RowsGrow, Touches(s), grant # None => grant' # None
  PROVE  OnbCall(call[t])' \/ call'[t] # call[t]
<1> SUFFICES ASSUME call'[t] = call[t] PROVE OnbCall(call[t])'
  OBVIOUS
<1>1. PICK c : c = call[t] /\ c = call'[t] /\ OnbCall(c)
  BY DEF OnbInv, OnbCalls
<1>2. SUFFICES OnbCall(c)'
  BY <1>1
<1>3. CASE \/ c = Idle
           \/ c = Request("onboard", "insert", None, c.saw) /\ c.saw \in Assessments
           \/ c = Request(c.op, "complete", None, None) /\ c.op \in KycCallers
  BY <1>3 DEF OnbCall
<1>4. CASE /\ c = Request(c.op, c.at, c.row, c.saw) /\ c.row \in DOMAIN session
           /\ c.op \in Steps /\ c.at \in OnbSteps
           /\ c.saw = [outcome |-> c.saw.outcome, confidence |-> c.saw.confidence, run |-> c.saw.run]
           /\ c.saw.confidence \in 0..20
           /\ c.at = "finish-run" => /\ c.saw.run \in DOMAIN session[c.row].runs
                                     /\ session[c.row].runs[c.saw.run].status = "running"
  <2>1. c.row \in DOMAIN session'
    BY <1>4 DEF RowsGrow
  <2>2. ASSUME c.at = "finish-run"
        PROVE  /\ c.saw.run \in DOMAIN session'[c.row].runs
               /\ session'[c.row].runs[c.saw.run].status = "running"
    <3>1. session'[c.row].runs[c.saw.run] = session[c.row].runs[c.saw.run]
      <4>1. SUFFICES ASSUME session'[c.row].runs[c.saw.run] # session[c.row].runs[c.saw.run] PROVE FALSE
        OBVIOUS
      <4>2. call[s].at = "finish-run" /\ call[s].row = c.row /\ call[s].saw.run = c.saw.run
        BY <1>4, <2>2, <4>1 DEF Touches
      <4> QED
        BY <1>1, <2>2, <4>2 DEF OnbInv, RunsOwned
    <3> QED
      BY <1>4, <2>2, <3>1 DEF RowsGrow
  <2> QED
    BY <1>4, <2>1, <2>2 DEF OnbCall
<1>5. CASE /\ c = Request(c.op, c.at, c.row, c.saw) /\ c.row \in DOMAIN session
           /\ c.at = "decide" /\ c.op \in Steps \cup {"onboard"}
  BY <1>5 DEF OnbCall, RowsGrow
<1>6. CASE /\ c = Request(c.op, c.at, c.row, c.saw) /\ c.row \in DOMAIN session
           /\ c.op \in Steps \cup {"onboard", "review"} /\ c.at \in OnbDecisions
           /\ c.saw = [verdict |-> c.saw.verdict] /\ c.saw.verdict \in OnbVerdicts
           /\ c.at \in {"grant", "raise"} =>
                c.saw.verdict = "approved" /\ (c.op # "review" => Evidence(c.row))
           /\ c.at = "status" /\ c.saw.verdict = "approved" => grant # None
  <2>1. c.row \in DOMAIN session'
    BY <1>6 DEF RowsGrow
  <2>2. Evidence(c.row) => Evidence(c.row)'
    BY <1>6, EvidenceStays
  <2> QED
    BY <1>6, <2>1, <2>2 DEF OnbCall
<1> QED
  BY <1>1, <1>3, <1>4, <1>5, <1>6 DEF OnbCall

(* The request of s becomes c: what has to be shown.                       *)
LEMMA OnbKept ==
  ASSUME OnbInv, NEW s \in Slots, NEW c, Becomes(s, c), OnbTypeOK', RowsGrow, Touches(s),
         disturbed \subseteq disturbed', grant # None => grant' # None,
         OnbCall(c)', GrantHasEvidence',
         c.at = "finish-run" =>
           \A t \in Slots \ {s} : call[t].at = "finish-run" /\ call[t].row = c.row => call[t].saw.run # c.saw.run,
         c.at \notin {"idle", "insert", "complete"} =>
           \/ Assessing(s, c.row)
           \/ c.row \in disturbed'
           \/ \A t \in Slots \ {s} : ~Assessing(t, c.row),
         c.at = "status" /\ c.saw.verdict = "awaiting_verification" /\ c.row \notin disturbed' => Pending(c.row)' # {},
         \A i \in DOMAIN session' :
           /\ session'[i].status = "awaiting_verification" /\ i \notin disturbed' /\ grant' = None
           => \/ Pending(i)' # {}
              \/ c.at \notin {"idle", "insert", "complete"} /\ c.row = i
              \/ i \in DOMAIN session /\ session[i].status = "awaiting_verification" /\ ~Assessing(s, i)
  PROVE  OnbInv'
<1>1. /\ call = [t \in Slots |-> call[t]] /\ call' = [call EXCEPT ![s] = c]
  BY DEF OnbInv, OnbCalls, Becomes
<1>2. call'[s] = c /\ \A t \in Slots \ {s} : call'[t] = call[t]
  BY <1>1
<1>3. call' = [t \in Slots |-> call'[t]]
  BY <1>1
<1>4. OnbCalls'
  <2>1. ASSUME NEW t \in Slots PROVE OnbCall(call[t])'
    <3>1. CASE t = s
      BY <1>2, <3>1
    <3>2. CASE t # s
      BY <1>2, <3>2, OnbCallStays
    <3> QED
      BY <3>1, <3>2
  <2> QED
    BY <1>3, <2>1 DEF OnbCalls
<1>5. RunsOwned'
  BY <1>2 DEF RunsOwned, OnbInv
<1>6. \A i, t : t \in Slots \ {s} => (Assessing(t, i)' <=> Assessing(t, i))
  BY <1>2 DEF Assessing
<1>7. \A i : Assessing(s, i)' <=> c.at \notin {"idle", "insert", "complete"} /\ c.row = i
  BY <1>2 DEF Assessing
<1>8. OneAtATime'
  <2> SUFFICES ASSUME NEW t \in Slots, NEW u \in Slots, t # u,
                      Assessing(t, call[u].row)', Assessing(u, call[u].row)'
               PROVE  (call[u].row)' \in disturbed'
    BY DEF OneAtATime
  <2>1. PICK i : i = call'[u].row /\ Assessing(t, i)' /\ Assessing(u, i)'
    BY DEF Assessing
  <2>2. SUFFICES i \in disturbed'
    BY <2>1
  <2>3. ASSUME NEW v \in Slots, NEW w \in Slots, v # w, Assessing(v, i), Assessing(w, i)
        PROVE  i \in disturbed'
    BY <2>3 DEF OnbInv, OneAtATime, Assessing
  <2>4. CASE t # s /\ u # s
    BY <1>6, <2>1, <2>3, <2>4
  <2>5. CASE t = s \/ u = s
    <3>1. PICK v \in Slots \ {s} : Assessing(v, i)' /\ Assessing(s, i)'
      BY <2>1, <2>5
    <3>2. Assessing(v, i) /\ c.at \notin {"idle", "insert", "complete"} /\ c.row = i
      BY <1>6, <1>7, <3>1
    <3>3. Assessing(s, i) \/ i \in disturbed'
      BY <3>2
    <3> QED
      BY <2>3, <3>2, <3>3
  <2> QED
    BY <2>4, <2>5
<1>9. ASSUME NEW i \in DOMAIN session, session'[i] = session[i]
      PROVE  Pending(i)' = Pending(i)
  BY <1>9 DEF Pending, Ended
<1>10. ASSUME NEW t \in Slots, NEW i \in DOMAIN session', call'[t].at = "status",
              call'[t].saw.verdict = "awaiting_verification", call'[t].row = i, i \notin disturbed'
       PROVE  Pending(i)' # {}
  <2>1. CASE t = s
    BY <1>2, <1>10, <2>1
  <2>2. CASE t # s
    <3>1. call[t] = call'[t] /\ Assessing(t, i) /\ i \notin disturbed
      BY <1>2, <1>10, <2>2 DEF Assessing
    <3>2. OnbCall(call[t]) /\ call[t].at = "status" /\ call[t].row = i
      BY <1>10, <3>1 DEF OnbInv, OnbCalls
    <3>3. i \in DOMAIN session
      BY <3>2 DEF OnbCall, Idle, Request
    <3>4. Pending(i) # {}
      BY <1>10, <3>1, <3>2, <3>3 DEF OnbInv, WaitsForStep
    <3>5. ~Assessing(s, i)
      <4>1. SUFFICES ASSUME Assessing(s, i) PROVE FALSE
        OBVIOUS
      <4>2. Assessing(s, call[t].row) /\ Assessing(t, call[t].row)
        BY <3>1, <3>2, <4>1
      <4> QED
        BY <2>2, <3>1, <3>2, <4>2 DEF OnbInv, OneAtATime
    <3> QED
      BY <1>9, <3>3, <3>4, <3>5 DEF Touches
  <2> QED
    BY <2>1, <2>2
<1>11. ASSUME NEW i \in DOMAIN session', session'[i].status = "awaiting_verification", i \notin disturbed',
              grant' = None
       PROVE  Pending(i)' # {} \/ \E t \in Slots : Assessing(t, i)'
  <2>1. CASE Pending(i)' # {} \/ (c.at \notin {"idle", "insert", "complete"} /\ c.row = i)
    BY <1>7, <2>1
  <2>2. CASE i \in DOMAIN session /\ session[i].status = "awaiting_verification" /\ ~Assessing(s, i)
    <3>1. Pending(i) # {} \/ \E t \in Slots : Assessing(t, i)
      BY <1>11, <2>2 DEF OnbInv, WaitsForStep
    <3>2. Pending(i)' = Pending(i)
      BY <1>9, <2>2 DEF Touches
    <3> QED
      BY <1>6, <2>2, <3>1, <3>2
  <2> QED
    BY <1>11, <2>1, <2>2
<1>12. WaitsForStep'
  BY <1>10, <1>11 DEF WaitsForStep
<1> QED
  BY <1>4, <1>5, <1>8, <1>12 DEF OnbInv

-----------------------------------------------------------------------------
(* Where a request is, and what it is then.                                *)
LEMMA OnbPlaces ==
  ASSUME OnbInv, NEW s \in Slots
  PROVE  /\ call[s] = Request(call[s].op, call[s].at, call[s].row, call[s].saw)
         /\ call[s].at \notin {"idle", "insert", "complete"} => call[s].row \in DOMAIN session /\ Assessing(s, call[s].row)
         /\ call[s].at = "insert" => /\ call[s].op = "onboard" /\ call[s].row = None
                                     /\ call[s].saw \in Assessments
         /\ call[s].at = "complete" => call[s].op \in KycCallers
         /\ call[s].at \in OnbSteps =>
              /\ call[s].op \in Steps /\ call[s].saw.confidence \in 0..20
              /\ call[s].saw = [outcome |-> call[s].saw.outcome, confidence |-> call[s].saw.confidence,
                                run |-> call[s].saw.run]
         /\ call[s].at = "finish-run" =>
              /\ call[s].saw.run \in DOMAIN session[call[s].row].runs
              /\ session[call[s].row].runs[call[s].saw.run].status = "running"
         /\ call[s].at = "decide" => call[s].op \in Steps \cup {"onboard"}
         /\ call[s].at \in OnbDecisions =>
              /\ call[s].op \in Steps \cup {"onboard", "review"}
              /\ call[s].saw = [verdict |-> call[s].saw.verdict] /\ call[s].saw.verdict \in OnbVerdicts
         /\ call[s].at \in {"grant", "raise"} =>
              /\ call[s].saw.verdict = "approved"
              /\ call[s].op # "review" => Evidence(call[s].row)
         /\ call[s].at = "status" /\ call[s].saw.verdict = "approved" => grant # None
         /\ call[s] = Idle <=> call[s].at = "idle"
<1>1. PICK c : c = call[s] /\ OnbCall(c)
  BY DEF OnbInv, OnbCalls
<1>2. CASE c = Idle
  BY <1>1, <1>2 DEF Idle, Request, OnbSteps, OnbDecisions
<1>3. CASE c = Request("onboard", "insert", None, c.saw) /\ c.saw \in Assessments
  BY <1>1, <1>3 DEF Idle, Request, OnbSteps, OnbDecisions
<1>5. CASE c = Request(c.op, "complete", None, None) /\ c.op \in KycCallers
  BY <1>1, <1>5 DEF Idle, Request, OnbSteps, OnbDecisions
<1>4. CASE c = Request(c.op, c.at, c.row, c.saw) /\ c.row \in DOMAIN session /\ OnbCall(c)
           /\ c # Idle /\ c.at \notin {"insert", "complete"}
  <2>1. c.at \notin {"idle", "insert", "complete"} => Assessing(s, c.row)
    BY <1>1 DEF Assessing
  <2>2. c.at # "idle"
    BY <1>4 DEF OnbCall, Request, OnbSteps, OnbDecisions
  <2> QED
    BY <1>1, <1>4, <2>1, <2>2 DEF OnbCall, Idle, Request, OnbSteps, OnbDecisions, Steps
<1> QED
  BY <1>1, <1>2, <1>3, <1>4, <1>5 DEF OnbCall, Idle, Request, OnbSteps, OnbDecisions

(* A request that goes on, with the same view or another.                  *)
LEMMA OnbGoes ==
  ASSUME OnbInv, NEW s \in Slots, NEW at, NEW saw
  PROVE  /\ Goto(s, at) => Becomes(s, Request(call[s].op, at, call[s].row, call[s].saw))
         /\ call' = [call EXCEPT ![s].at = at, ![s].saw = saw] =>
              Becomes(s, Request(call[s].op, at, call[s].row, saw))
<1>1. PICK c : c = call[s] /\ c = [op |-> c.op, at |-> c.at, row |-> c.row, saw |-> c.saw]
  BY OnbPlaces DEF Request
<1>2. PICK d : d = [c EXCEPT !.at = at]
  OBVIOUS
<1>3. d = [op |-> c.op, at |-> at, row |-> c.row, saw |-> c.saw]
  BY <1>1, <1>2
<1>4. [d EXCEPT !.saw = saw] = [op |-> c.op, at |-> at, row |-> c.row, saw |-> saw]
  BY <1>3
<1>5. Goto(s, at) => call' = [call EXCEPT ![s] = d]
  BY <1>1, <1>2 DEF Goto
<1>6. call' = [call EXCEPT ![s].at = at, ![s].saw = saw] => call' = [call EXCEPT ![s] = [d EXCEPT !.saw = saw]]
  BY <1>1, <1>2
<1> QED
  BY <1>1, <1>3, <1>4, <1>5, <1>6 DEF Becomes, Request

(* Rows that stay, and one that changes while its request has it.          *)
LEMMA RowsSame ==
  ASSUME OnbInv, session' = session, NEW s
  PROVE  /\ RowsGrow /\ Touches(s)
         /\ \A i \in DOMAIN session : Pending(i)' = Pending(i)
BY DEF RowsGrow, Touches, Pending, Ended

(* What request s may do to the runs of row i as it writes r over it: keep  *)
(* them all, change none that ended, and change only the run it ends.       *)
RunsKept(s, i, r) ==
  \A n \in DOMAIN session[i].runs :
    /\ n \in DOMAIN r.runs
    /\ session[i].runs[n].status # "running" => r.runs[n] = session[i].runs[n]
    /\ r.runs[n] # session[i].runs[n] =>
         call[s].at = "finish-run" /\ call[s].row = i /\ call[s].saw.run = n

LEMMA SessionMoves ==
  ASSUME OnbInv, NEW s, NEW i \in DOMAIN session, Assessing(s, i), NEW r \in SessionRows,
         session' = [session EXCEPT ![i] = r],
         r.required = session[i].required, r.weak = session[i].weak,
         RunsKept(s, i, r)
  PROVE  /\ RowsGrow /\ Touches(s) /\ session' \in Seq(SessionRows)
         /\ DOMAIN session' = DOMAIN session /\ session'[i] = r
         /\ \A j \in DOMAIN session \ {i} : session'[j] = session[j]
<1>1. /\ session' \in Seq(SessionRows) /\ DOMAIN session' = DOMAIN session
      /\ session'[i] = r
      /\ \A j \in DOMAIN session \ {i} : session'[j] = session[j]
  BY RowChanges DEF OnbInv
<1>2. ASSUME NEW j \in DOMAIN session
      PROVE  /\ session'[j].required = session[j].required /\ session'[j].weak = session[j].weak
             /\ session'[j] # session[j] => Assessing(s, j)
             /\ \A n \in DOMAIN session[j].runs :
                  /\ n \in DOMAIN session'[j].runs
                  /\ session[j].runs[n].status # "running" => session'[j].runs[n] = session[j].runs[n]
                  /\ session'[j].runs[n] # session[j].runs[n] =>
                       call[s].at = "finish-run" /\ call[s].row = j /\ call[s].saw.run = n
  <2>1. CASE j = i
    BY <1>1, <2>1 DEF RunsKept
  <2>2. CASE j # i
    BY <1>1, <2>2
  <2> QED
    BY <2>1, <2>2
<1> QED
  BY <1>1, <1>2 DEF RowsGrow, Touches

(* Steps that raise no tier.                                               *)
LEMMA OnbTypeKept ==
  ASSUME OnbInv, UNCHANGED <<journals, bal>>, grant' = grant, session' \in Seq(SessionRows),
         DOMAIN session \subseteq DOMAIN session'
  PROVE  OnbTypeOK'
BY DEF OnbInv, OnbTypeOK, LedgerTypeOK, Effects

LEMMA GrantKept ==
  ASSUME OnbInv, RowsGrow, grant' = grant,
         \A i \in DOMAIN session' : session'[i].status = "approved" =>
           grant # None \/ (i \in DOMAIN session /\ session[i].status = "approved")
  PROVE  GrantHasEvidence'
<1>1. \A i \in DOMAIN session' : session'[i].status = "approved" => grant' # None
  BY DEF OnbInv, GrantHasEvidence
<1>2. ASSUME grant # None, grant.by = "policy"
      PROVE  grant.session \in DOMAIN session' /\ Evidence(grant.session)'
  <2>1. grant.session \in DOMAIN session /\ Evidence(grant.session)
    BY <1>2 DEF OnbInv, GrantHasEvidence
  <2>2. PICK i \in DOMAIN session : i = grant.session
    BY <2>1
  <2>3. Evidence(i)'
    BY <2>1, <2>2, EvidenceStays
  <2> QED
    BY <2>2, <2>3 DEF Evidence, RowsGrow
<1>3. grant # None /\ grant.by = "simulated" => "simulated" \in KycCallers
  BY DEF OnbInv, GrantHasEvidence
<1> QED
  BY <1>1, <1>2, <1>3 DEF GrantHasEvidence, Evidence

-----------------------------------------------------------------------------
(* What a decision rests on.                                               *)
LEMMA VerdictTells ==
  ASSUME OnbInv, NEW i \in DOMAIN session
  PROVE  /\ Verdict(i) \in OnbVerdicts
         /\ Verdict(i) = "approved" => Evidence(i)
         /\ Verdict(i) = "awaiting_verification" => Pending(i) # {}
<1>1. ASSUME Failed(i) = {}, Pending(i) = {}, ~session[i].weak
      PROVE  Evidence(i)
  <2> SUFFICES ASSUME NEW p \in session[i].required
               PROVE  \E n \in DOMAIN session[i].runs :
                        session[i].runs[n].step = p /\ session[i].runs[n].status = "passed"
    BY <1>1 DEF Evidence
  <2>1. PICK runs, E : runs = session[i].runs /\ E = Ended(i, p)
    OBVIOUS
  <2>2. /\ Len(runs) \in Nat /\ DOMAIN runs = 1..Len(runs)
        /\ \A n \in DOMAIN runs : runs[n] \in AgentRuns
    BY <2>1, SessionFacts DEF OnbInv
  <2>3. E # {} /\ E \subseteq 1..Len(runs)
    BY <1>1, <2>1, <2>2 DEF Pending, Ended
  <2>4. IsFiniteSet(E)
    <3>1. IsFiniteSet(1..Len(runs))
      BY <2>2, FS_Interval
    <3> QED
      BY <2>3, <3>1, FS_Subset
  <2>5. PICK R : R = {x \in E \X E : x[2] <= x[1]}
    OBVIOUS
  <2>6. \A x, y \in E : <<x, y>> \in R <=> y <= x
    BY <2>5
  <2>7. \A x \in E : x \in Int
    BY <2>3
  <2>8. /\ R \subseteq E \X E
        /\ \A x, y \in E : <<x, y>> \in R \/ <<y, x>> \in R
        /\ \A x, y, z \in E : <<x, y>> \in R /\ <<y, z>> \in R => <<x, z>> \in R
    <3>1. R \subseteq E \X E
      BY <2>5
    <3>2. ASSUME NEW x \in E, NEW y \in E PROVE <<x, y>> \in R \/ <<y, x>> \in R
      <4>1. x <= y \/ y <= x
        BY <2>7
      <4> QED
        BY <2>6, <4>1
    <3>3. \A x, y, z \in E : <<x, y>> \in R /\ <<y, z>> \in R => <<x, z>> \in R
      BY <2>6, <2>7
    <3> QED
      BY <3>1, <3>2, <3>3
  <2>9. PICK n \in E : \A m \in E : <<n, m>> \in R
    BY <2>3, <2>4, <2>8, FirstExists
  <2>10. \A m \in E : m <= n
    BY <2>6, <2>9
  <2>11. runs[n].status # "failed"
    BY <1>1, <2>1, <2>9, <2>10 DEF Failed
  <2>12. n \in DOMAIN runs /\ runs[n].step = p /\ runs[n].status # "running"
    BY <2>1, <2>9 DEF Ended
  <2>13. runs[n].status = "passed"
    BY <2>2, <2>11, <2>12 DEF AgentRuns
  <2> QED
    BY <2>1, <2>12, <2>13
<1> QED
  BY <1>1 DEF Verdict, OnbVerdicts

-----------------------------------------------------------------------------
(* A request about a session begins: one that is served already, and the   *)
(* session was disturbed.                                                  *)
LEMMA BeginOnInv ==
  ASSUME OnbInv, NEW s \in Slots, NEW op, NEW at, NEW i \in DOMAIN session, NEW saw,
         BeginOn(s, op, at, i, saw), OnbCall(Request(op, at, i, saw)), at # "finish-run",
         at = "status" => saw.verdict # "awaiting_verification"
  PROVE  OnbInv'
<1>1. PICK c : c = Request(op, at, i, saw)
  OBVIOUS
<1>2. /\ Becomes(s, c) /\ call[s] = Idle /\ UNCHANGED <<journals, bal, session, grant>>
      /\ c.at = at /\ c.row = i /\ c.saw = saw
      /\ disturbed' = IF About(i) = {} THEN disturbed ELSE disturbed \cup {i}
  BY <1>1 DEF BeginOn, Begin, Becomes, Request
<1>3. RowsGrow /\ Touches(s)
  BY <1>2, RowsSame
<1>4. OnbTypeOK' /\ GrantHasEvidence'
  BY <1>2, <1>3, OnbTypeKept, GrantKept DEF OnbInv, OnbTypeOK
<1>5. OnbCall(c)'
  BY <1>1, <1>2 DEF OnbCall, Evidence
<1>6. i \in disturbed' \/ \A t \in Slots \ {s} : ~Assessing(t, i)
  <2>1. SUFFICES ASSUME NEW t \in Slots, Assessing(t, i) PROVE About(i) # {}
    BY <1>2
  <2>2. call[t] # Idle /\ call[t].row = i
    BY <2>1 DEF Assessing, Idle, Request
  <2> QED
    BY <2>2 DEF About
<1>7. \A j : ~Assessing(s, j)
  BY <1>2 DEF Assessing, Idle, Request
<1>8. \A j \in DOMAIN session' :
        /\ session'[j].status = "awaiting_verification" /\ j \notin disturbed' /\ grant' = None
        => \/ Pending(j)' # {}
           \/ c.at \notin {"idle", "insert", "complete"} /\ c.row = j
           \/ j \in DOMAIN session /\ session[j].status = "awaiting_verification" /\ ~Assessing(s, j)
  BY <1>2, <1>7
<1>9. disturbed \subseteq disturbed' /\ (grant # None => grant' # None)
  BY <1>2
<1> QED
  BY <1>2, <1>3, <1>4, <1>5, <1>6, <1>8, <1>9, OnbKept

LEMMA SubmitInv ==
  ASSUME OnbInv, NEW s \in Slots, NEW step \in Steps, NEW o, Submit(s, step, o)
  PROVE  OnbInv'
<1>1. PICK i : i = Len(session) /\ i > 0 /\ i \in DOMAIN session
  BY SessionFacts DEF OnbInv, Submit
<1>2. PICK saw : saw = [outcome |-> o, confidence |-> Clamped(session[i].confidence + Change(step, o)), run |-> 0]
  OBVIOUS
<1>3. BeginOn(s, step, "start-run", i, saw)
  BY <1>1, <1>2 DEF Submit
<1>4. saw.confidence \in 0..20
  <2>1. session[i].confidence \in Int
    <3>1. PICK r \in SessionRows : r = session[i]
      BY <1>1, SessionFacts DEF OnbInv
    <3> QED
      BY <3>1 DEF SessionRows
  <2>2. Change(step, o) \in Int
    BY DEF Change, Steps
  <2>3. PICK n \in Int : n = session[i].confidence + Change(step, o)
    BY <2>1, <2>2
  <2> QED
    BY <1>2, <2>3 DEF Clamped
<1>5. OnbCall(Request(step, "start-run", i, saw))
  BY <1>1, <1>2, <1>4 DEF OnbCall, Request, OnbSteps
<1> QED
  BY <1>1, <1>3, <1>5, BeginOnInv

LEMMA ReviewInv ==
  ASSUME OnbInv, NEW s \in Slots, NEW i \in DOMAIN session, NEW v \in Terminal, Review(s, i, v)
  PROVE  OnbInv'
<1>1. PICK at, saw : /\ saw = [verdict |-> v]
                     /\ at = IF v = "approved" THEN "grant" ELSE "status"
  OBVIOUS
<1>2. BeginOn(s, "review", at, i, saw)
  BY <1>1 DEF Review
<1>3. saw.verdict = v /\ (at = "grant" => v = "approved") /\ (at = "status" => v = "rejected")
      /\ at \in {"grant", "status"}
  BY <1>1 DEF Terminal
<1>4. OnbCall(Request("review", at, i, saw))
  BY <1>1, <1>3 DEF OnbCall, Request, OnbDecisions, OnbVerdicts, Terminal
<1> QED
  BY <1>2, <1>3, <1>4, BeginOnInv

(* A request that goes on about its session with the rows as they are, or  *)
(* ends when it is dealt with.                                             *)
LEMMA GoesOnInv ==
  ASSUME OnbInv, NEW s \in Slots, NEW c, Becomes(s, c), UNCHANGED <<journals, bal, session, grant, disturbed>>,
         call[s].at \notin {"idle", "insert", "complete"}, OnbCall(c),
         \/ c.at \notin {"idle", "insert", "complete", "finish-run"} /\ c.row = call[s].row
         \/ c = Idle /\ grant # None,
         c.at = "status" /\ c.saw.verdict = "awaiting_verification" => Pending(c.row) # {}
  PROVE  OnbInv'
<1>1. call[s].row \in DOMAIN session /\ Assessing(s, call[s].row)
  BY OnbPlaces
<1>2. RowsGrow /\ Touches(s) /\ \A i \in DOMAIN session : Pending(i)' = Pending(i)
  BY RowsSame
<1>3. OnbTypeOK' /\ GrantHasEvidence'
  BY <1>2, OnbTypeKept, GrantKept DEF OnbInv, OnbTypeOK
<1>4. OnbCall(c)'
  BY DEF OnbCall, Evidence
<1>5. c.at = "finish-run" => FALSE
  BY DEF Idle, Request
<1>6. c.at \notin {"idle", "insert", "complete"} => Assessing(s, c.row) /\ c.row = call[s].row
  BY <1>1 DEF Idle, Request
<1>7. \A i \in DOMAIN session' :
        /\ session'[i].status = "awaiting_verification" /\ i \notin disturbed' /\ grant' = None
        => \/ Pending(i)' # {}
           \/ c.at \notin {"idle", "insert", "complete"} /\ c.row = i
           \/ i \in DOMAIN session /\ session[i].status = "awaiting_verification" /\ ~Assessing(s, i)
  BY DEF Assessing
<1>8. c.at = "status" /\ c.saw.verdict = "awaiting_verification" => Pending(c.row)' # {}
  BY <1>1, <1>2, <1>6
<1>9. disturbed \subseteq disturbed' /\ (grant # None => grant' # None)
  OBVIOUS
<1> QED
  BY <1>2, <1>3, <1>4, <1>5, <1>6, <1>7, <1>8, <1>9, OnbKept

LEMMA OnbDecideInv ==
  ASSUME OnbInv, NEW s \in Slots, DecideSession(s)
  PROVE  OnbInv'
<1>1. PICK i, v, at, saw : /\ i = call[s].row /\ v = Verdict(i) /\ saw = [verdict |-> v]
                           /\ at = IF v = "approved" THEN "grant" ELSE "status"
  OBVIOUS
<1>2. /\ call[s].at = "decide" /\ UNCHANGED <<journals, bal, session, grant, disturbed>>
      /\ call' = [call EXCEPT ![s].at = at, ![s].saw = saw]
  BY <1>1 DEF DecideSession
<1>3. i \in DOMAIN session /\ call[s].op \in Steps \cup {"onboard"}
  BY <1>1, <1>2, OnbPlaces
<1>4. PICK c : c = Request(call[s].op, at, i, saw)
  OBVIOUS
<1>5. Becomes(s, c)
  BY <1>1, <1>2, <1>4, OnbGoes
<1>6. /\ v \in OnbVerdicts
      /\ v = "approved" => Evidence(i)
      /\ v = "awaiting_verification" => Pending(i) # {}
  BY <1>1, <1>3, VerdictTells
<1>7. /\ c.op = call[s].op /\ c.at = at /\ c.row = i /\ c.saw = saw /\ saw.verdict = v
      /\ at \in {"grant", "status"} /\ (at = "grant" <=> v = "approved")
  BY <1>1, <1>4 DEF Request
<1>8. OnbCall(c)
  <2>1. c = Request(c.op, c.at, c.row, c.saw) /\ c.saw = [verdict |-> c.saw.verdict]
    BY <1>1, <1>4, <1>7
  <2>2. c.op \in Steps \cup {"onboard", "review"} /\ c.saw.verdict = v
    BY <1>3, <1>7
  <2> QED
    BY <1>3, <1>6, <1>7, <2>1, <2>2 DEF OnbCall, OnbDecisions
<1> QED
  BY <1>1, <1>2, <1>5, <1>6, <1>7, <1>8, GoesOnInv

LEMMA ReadTierInv ==
  ASSUME OnbInv, NEW s \in Slots, ReadTier(s)
  PROVE  OnbInv'
<1>1. call[s].at = "grant" /\ UNCHANGED <<journals, bal, session, grant, disturbed>>
  BY DEF ReadTier
<1>2. CASE grant = None
  <2>1. PICK c : c = Request(call[s].op, "raise", call[s].row, call[s].saw)
    OBVIOUS
  <2>2. Becomes(s, c)
    BY <1>2, <2>1, OnbGoes DEF ReadTier
  <2>3. OnbCall(c) /\ c.at = "raise" /\ c.row = call[s].row
    BY <1>1, <2>1, OnbPlaces DEF OnbCall, Request, OnbDecisions
  <2> QED
    BY <1>1, <2>2, <2>3, GoesOnInv
<1>3. CASE grant # None
  <2>1. Becomes(s, Idle) /\ OnbCall(Idle) /\ Idle.at = "idle"
    BY <1>3 DEF ReadTier, Leave, Becomes, OnbCall, Idle, Request
  <2> QED
    BY <1>1, <1>3, <2>1, GoesOnInv
<1> QED
  BY <1>2, <1>3

(* The tier is raised, by what the request decided on.                     *)
LEMMA RaiseTierInv ==
  ASSUME OnbInv, NEW s \in Slots, Grant(s)
  PROVE  OnbInv'
<1>1. PICK i, by : i = call[s].row /\ by = IF call[s].op = "review" THEN "human" ELSE "policy"
  OBVIOUS
<1>2. /\ call[s].at = "raise" /\ grant' = [by |-> by, session |-> i] /\ Goto(s, "status")
      /\ UNCHANGED <<journals, bal, session, disturbed>>
  BY <1>1 DEF Grant
<1>3. /\ i \in DOMAIN session /\ Assessing(s, i) /\ (by # "human" => Evidence(i)) /\ by \in {"human", "policy"}
      /\ call[s].op \in Steps \cup {"onboard", "review"} /\ call[s].saw.verdict = "approved"
      /\ call[s].saw = [verdict |-> call[s].saw.verdict]
  BY <1>1, <1>2, OnbPlaces DEF OnbDecisions
<1>4. grant' # None /\ grant'.by = by /\ grant'.session = i
  <2>1. i \in Nat
    BY <1>3, SessionFacts DEF OnbInv
  <2>2. grant' \in [by : {"human", "policy", "simulated"}, session : Nat \cup {None}]
    BY <1>2, <1>3, <2>1
  <2> QED
    BY <1>2, <2>2, OnboardingAssumption
<1>5. RowsGrow /\ Touches(s) /\ \A j \in DOMAIN session : Pending(j)' = Pending(j)
  BY <1>2, RowsSame
<1>6. OnbTypeOK'
  BY <1>2, <1>3 DEF OnbInv, OnbTypeOK, LedgerTypeOK, Effects
<1>7. Evidence(i) => Evidence(i)'
  BY <1>3, <1>5, EvidenceStays
<1>8. GrantHasEvidence'
  <2>1. by = "policy" => Evidence(i)' /\ i \in DOMAIN session'
    BY <1>2, <1>3, <1>7
  <2>2. by = "policy" => Evidence(grant.session)' /\ grant'.session \in DOMAIN session'
    BY <1>4, <2>1 DEF Evidence
  <2> QED
    BY <1>3, <1>4, <2>2 DEF GrantHasEvidence
<1>9. PICK c : c = Request(call[s].op, "status", i, call[s].saw)
  OBVIOUS
<1>10. /\ Becomes(s, c) /\ c.op = call[s].op /\ c.at = "status" /\ c.row = i /\ c.saw = call[s].saw
       /\ c = Request(c.op, c.at, c.row, c.saw)
  BY <1>1, <1>2, <1>9, OnbGoes DEF Request
<1>11. OnbCall(c)'
  BY <1>2, <1>3, <1>4, <1>10 DEF OnbCall, OnbDecisions, OnbVerdicts
<1>12. \A j \in DOMAIN session' : grant' = None => FALSE
  BY <1>4
<1>13. c.saw.verdict # "awaiting_verification" /\ disturbed \subseteq disturbed' /\ c.at # "finish-run"
  BY <1>2, <1>3, <1>10
<1> QED
  BY <1>3, <1>4, <1>5, <1>6, <1>8, <1>10, <1>11, <1>12, <1>13, OnbKept

(* A check that needs no session begins, and raises the tier.              *)
LEMMA OtherKycInv ==
  ASSUME OnbInv, NEW s \in Slots, NEW caller \in KycCallers, OtherKyc(s, caller)
  PROVE  OnbInv'
<1>1. PICK c : c = Request(caller, "complete", None, None)
  OBVIOUS
<1>2. /\ Becomes(s, c) /\ call[s] = Idle /\ UNCHANGED <<journals, bal, session, grant, disturbed>>
      /\ c.at = "complete" /\ c.op = caller
  BY <1>1 DEF OtherKyc, Begin, Becomes, Request
<1>3. RowsGrow /\ Touches(s)
  BY <1>2, RowsSame
<1>4. OnbTypeOK' /\ GrantHasEvidence'
  BY <1>2, <1>3, OnbTypeKept, GrantKept DEF OnbInv, OnbTypeOK
<1>5. OnbCall(c)'
  BY <1>1, <1>2 DEF OnbCall
<1>6. \A j : ~Assessing(s, j)
  BY <1>2 DEF Assessing, Idle, Request
<1>7. \A j \in DOMAIN session' : session'[j].status = "awaiting_verification" =>
        j \in DOMAIN session /\ session[j].status = "awaiting_verification" /\ ~Assessing(s, j)
  BY <1>2, <1>6
<1>8. disturbed \subseteq disturbed' /\ (grant # None => grant' # None)
  BY <1>2
<1> QED
  BY <1>2, <1>3, <1>4, <1>5, <1>7, <1>8, OnbKept

LEMMA CompleteKycInv ==
  ASSUME OnbInv, NEW s \in Slots, CompleteKyc(s)
  PROVE  OnbInv'
<1>1. PICK by, i : /\ by = IF call[s].op = "simulated" THEN "simulated" ELSE "human"
                   /\ i = IF grant = None THEN None ELSE grant.session
  OBVIOUS
<1>2. /\ call[s].at = "complete" /\ grant' = [by |-> by, session |-> i] /\ Becomes(s, Idle)
      /\ UNCHANGED <<journals, bal, session, disturbed>>
  BY <1>1 DEF CompleteKyc, Leave, Becomes
<1>3. /\ call[s].op \in KycCallers /\ by \in {"human", "simulated"}
      /\ by = "simulated" => "simulated" \in KycCallers
  BY <1>1, <1>2, OnbPlaces
<1>4. i \in DOMAIN session \cup {None}
  BY <1>1 DEF OnbInv, OnbTypeOK
<1>5. grant' # None /\ grant'.by = by
  <2>1. i \in Nat \cup {None}
    BY <1>4, SessionFacts DEF OnbInv
  <2>2. grant' \in [by : {"human", "policy", "simulated"}, session : Nat \cup {None}]
    BY <1>2, <1>3, <2>1
  <2> QED
    BY <1>2, <2>2, OnboardingAssumption
<1>6. RowsGrow /\ Touches(s)
  BY <1>2, RowsSame
<1>7. OnbTypeOK'
  BY <1>2, <1>3, <1>4 DEF OnbInv, OnbTypeOK, LedgerTypeOK, Effects
<1>8. GrantHasEvidence'
  BY <1>3, <1>5 DEF GrantHasEvidence
<1>9. OnbCall(Idle)' /\ Idle.at = "idle"
  BY DEF OnbCall, Idle, Request
<1>10. disturbed \subseteq disturbed'
  BY <1>2
<1> QED
  BY <1>2, <1>5, <1>6, <1>7, <1>8, <1>9, <1>10, OnbKept

(* The status that was decided on is written, and the request is done.     *)
LEMMA WriteStatusInv ==
  ASSUME OnbInv, NEW s \in Slots, WriteStatus(s)
  PROVE  OnbInv'
<1>1. PICK i, v : i = call[s].row /\ v = call[s].saw.verdict
  OBVIOUS
<1>2. /\ call[s].at = "status" /\ session' = [session EXCEPT ![i].status = v] /\ Leave(s)
      /\ UNCHANGED <<journals, bal, grant, disturbed>>
  BY <1>1 DEF WriteStatus
<1>3. /\ i \in DOMAIN session /\ Assessing(s, i) /\ v \in OnbVerdicts /\ (v = "approved" => grant # None)
  BY <1>1, <1>2, OnbPlaces DEF OnbDecisions
<1>4. PICK r : r = [session[i] EXCEPT !.status = v]
  OBVIOUS
<1>5. session[i] \in SessionRows
  BY <1>3, SessionFacts DEF OnbInv
<1>6. /\ r \in SessionRows /\ r.required = session[i].required /\ r.weak = session[i].weak
      /\ r.runs = session[i].runs /\ r.status = v
  BY <1>3, <1>4, <1>5 DEF SessionRows
<1>7. session' = [session EXCEPT ![i] = r]
  BY <1>2, <1>4
<1>8. /\ RowsGrow /\ Touches(s) /\ session' \in Seq(SessionRows)
      /\ DOMAIN session' = DOMAIN session /\ session'[i] = r
      /\ \A j \in DOMAIN session \ {i} : session'[j] = session[j]
  <2>1. RunsKept(s, i, r)
    BY <1>6 DEF RunsKept
  <2> QED
    BY <1>3, <1>6, <1>7, <2>1, SessionMoves
<1>9. OnbTypeOK'
  BY <1>2, <1>8, OnbTypeKept
<1>10. GrantHasEvidence'
  BY <1>2, <1>3, <1>6, <1>8, GrantKept
<1>11. Becomes(s, Idle) /\ OnbCall(Idle)' /\ Idle.at = "idle"
  BY <1>2 DEF Leave, Becomes, OnbCall, Idle, Request
<1>12. Pending(i)' = Pending(i)
  BY <1>6, <1>8 DEF Pending, Ended
<1>13. ASSUME NEW j \in DOMAIN session', session'[j].status = "awaiting_verification", j \notin disturbed'
       PROVE  \/ Pending(j)' # {}
              \/ j \in DOMAIN session /\ session[j].status = "awaiting_verification" /\ ~Assessing(s, j)
  <2>1. CASE j = i
    <3>1. v = "awaiting_verification" /\ i \notin disturbed
      BY <1>2, <1>6, <1>8, <1>13, <2>1
    <3>2. Pending(i) # {}
      BY <1>1, <1>2, <1>3, <3>1 DEF OnbInv, WaitsForStep
    <3> QED
      BY <1>12, <2>1, <3>2
  <2>2. CASE j # i
    BY <1>1, <1>8, <1>13, <2>2 DEF Assessing
  <2> QED
    BY <2>1, <2>2
<1>14. disturbed \subseteq disturbed' /\ (grant # None => grant' # None)
  BY <1>2
<1> QED
  BY <1>8, <1>9, <1>10, <1>11, <1>13, <1>14, OnbKept

(* A request dies: its session is disturbed.                               *)
LEMMA OnbDiesInv ==
  ASSUME OnbInv, NEW s \in Slots, Dies(s), disturbed' = disturbed \cup {call[s].row},
         UNCHANGED <<session, grant>>
  PROVE  OnbInv'
<1>1. RowsGrow /\ Touches(s) /\ UNCHANGED <<journals, bal>>
  BY RowsSame DEF Dies, ledgerVars
<1>2. OnbTypeOK' /\ GrantHasEvidence'
  BY <1>1, OnbTypeKept, GrantKept DEF OnbInv, OnbTypeOK
<1>3. Becomes(s, Idle) /\ OnbCall(Idle)' /\ Idle.at = "idle"
  BY DEF Dies, Leave, Becomes, OnbCall, Idle, Request
<1>4. \A j \in DOMAIN session' :
        /\ session'[j].status = "awaiting_verification" /\ j \notin disturbed'
        => j \in DOMAIN session /\ session[j].status = "awaiting_verification" /\ ~Assessing(s, j)
  BY DEF Assessing
<1>5. disturbed \subseteq disturbed' /\ (grant # None => grant' # None)
  OBVIOUS
<1> QED
  BY <1>1, <1>2, <1>3, <1>4, <1>5, OnbKept

(* A request about no session yet.                                         *)
LEMMA StartOnboardingInv ==
  ASSUME OnbInv, NEW s \in Slots, NEW a \in Assessments, StartOnboarding(s, a)
  PROVE  OnbInv'
<1>1. PICK c : c = Request("onboard", "insert", None, a)
  OBVIOUS
<1>2. /\ Becomes(s, c) /\ call[s] = Idle /\ UNCHANGED <<journals, bal, session, grant, disturbed>>
      /\ c.at = "insert" /\ c.saw = a
  BY <1>1 DEF StartOnboarding, Begin, Becomes, Request
<1>3. RowsGrow /\ Touches(s)
  BY <1>2, RowsSame
<1>4. OnbTypeOK' /\ GrantHasEvidence'
  BY <1>2, <1>3, OnbTypeKept, GrantKept DEF OnbInv, OnbTypeOK
<1>5. OnbCall(c)'
  BY <1>1, <1>2 DEF OnbCall
<1>6. \A j : ~Assessing(s, j)
  BY <1>2 DEF Assessing, Idle, Request
<1>7. \A j \in DOMAIN session' : session'[j].status = "awaiting_verification" =>
        j \in DOMAIN session /\ session[j].status = "awaiting_verification" /\ ~Assessing(s, j)
  BY <1>2, <1>6
<1>8. disturbed \subseteq disturbed' /\ (grant # None => grant' # None)
  BY <1>2
<1> QED
  BY <1>2, <1>3, <1>4, <1>5, <1>7, <1>8, OnbKept

(* The row of a session is inserted.                                       *)
LEMMA InsertSessionInv ==
  ASSUME OnbInv, NEW s \in Slots, InsertSession(s)
  PROVE  OnbInv'
<1>1. PICK a, row, i : /\ a = call[s].saw /\ i = Len(session) + 1
                       /\ row = [status |-> "assessing", confidence |-> a.confidence,
                                 required |-> a.required, weak |-> a.weak, runs |-> <<>>]
  OBVIOUS
<1>2. /\ call[s].at = "insert" /\ session' = Append(session, row)
      /\ call' = [call EXCEPT ![s].at = "decide", ![s].row = i, ![s].saw = None]
      /\ UNCHANGED <<journals, bal, grant, disturbed>>
  BY <1>1 DEF InsertSession, At
<1>3. call[s].op = "onboard" /\ a \in Assessments
  BY <1>1, <1>2, OnbPlaces
<1>4. row \in SessionRows
  <2>1. a.confidence \in 0..20 /\ a.required \subseteq Steps /\ a.weak \in BOOLEAN
    BY <1>3, OnboardingAssumption
  <2>2. <<>> \in Seq(AgentRuns)
    BY EmptySeq
  <2> QED
    BY <1>1, <2>1, <2>2 DEF SessionRows
<1>5. /\ session' \in Seq(SessionRows) /\ DOMAIN session' = DOMAIN session \cup {i} /\ i \notin DOMAIN session
      /\ session'[i] = row /\ \A j \in DOMAIN session : session'[j] = session[j]
  <2>1. session \in Seq(SessionRows) /\ Len(session) \in Nat /\ DOMAIN session = 1..Len(session)
    BY SessionFacts DEF OnbInv, OnbTypeOK
  <2>2. /\ session' \in Seq(SessionRows) /\ Len(session') = Len(session) + 1
        /\ \A j \in 1..Len(session) : session'[j] = session[j]
        /\ session'[Len(session) + 1] = row
    BY <1>2, <1>4, <2>1, AppendProperties
  <2>3. DOMAIN session' = 1..Len(session')
    BY <2>2, LenProperties
  <2> QED
    BY <1>1, <2>1, <2>2, <2>3
<1>6. RowsGrow /\ Touches(s)
  BY <1>5 DEF RowsGrow, Touches
<1>7. OnbTypeOK'
  BY <1>2, <1>5, OnbTypeKept
<1>8. row.status = "assessing"
  BY <1>1
<1>9. GrantHasEvidence'
  BY <1>2, <1>5, <1>6, <1>8, GrantKept
<1>10. PICK c : c = Request("onboard", "decide", i, None)
  OBVIOUS
<1>11. Becomes(s, c)
  <2>1. PICK d : d = call[s] /\ d = [op |-> d.op, at |-> d.at, row |-> d.row, saw |-> d.saw]
    BY OnbPlaces DEF Request
  <2>2. PICK e : e = [d EXCEPT !.at = "decide"]
    OBVIOUS
  <2>3. e = [op |-> d.op, at |-> "decide", row |-> d.row, saw |-> d.saw]
    BY <2>1, <2>2
  <2>4. PICK f : f = [e EXCEPT !.row = i]
    OBVIOUS
  <2>5. f = [op |-> d.op, at |-> "decide", row |-> i, saw |-> d.saw]
    BY <2>3, <2>4
  <2>6. [f EXCEPT !.saw = None] = [op |-> d.op, at |-> "decide", row |-> i, saw |-> None]
    BY <2>5
  <2>7. call' = [call EXCEPT ![s] = [f EXCEPT !.saw = None]]
    BY <1>2, <2>1, <2>2, <2>4
  <2> QED
    BY <1>3, <1>10, <2>1, <2>6, <2>7 DEF Becomes, Request
<1>12. c.at = "decide" /\ c.row = i /\ c.op = "onboard" /\ c = Request(c.op, c.at, c.row, c.saw)
  BY <1>10 DEF Request
<1>13. OnbCall(c)'
  BY <1>5, <1>12 DEF OnbCall
<1>14. \A t \in Slots \ {s} : ~Assessing(t, i)
  <2> SUFFICES ASSUME NEW t \in Slots, Assessing(t, i) PROVE FALSE
    OBVIOUS
  <2>1. call[t].row \in DOMAIN session /\ call[t].row = i
    BY OnbPlaces DEF Assessing
  <2> QED
    BY <1>5, <2>1
<1>15. \A j \in DOMAIN session' : session'[j].status = "awaiting_verification" =>
         j \in DOMAIN session /\ session[j].status = "awaiting_verification" /\ ~Assessing(s, j)
  BY <1>2, <1>5, <1>8 DEF Assessing
<1>16. disturbed \subseteq disturbed' /\ (grant # None => grant' # None)
  BY <1>2
<1> QED
  BY <1>6, <1>7, <1>9, <1>11, <1>12, <1>13, <1>14, <1>15, <1>16, OnbKept

(* A request changes its row, not the status, and goes on.                 *)
LEMMA RowGoesOnInv ==
  ASSUME OnbInv, NEW s \in Slots, NEW i \in DOMAIN session, Assessing(s, i), NEW r \in SessionRows,
         session' = [session EXCEPT ![i] = r],
         r.required = session[i].required, r.weak = session[i].weak, r.status = session[i].status,
         RunsKept(s, i, r),
         NEW c, Becomes(s, c), UNCHANGED <<journals, bal>>, grant' = grant, disturbed' = disturbed,
         c.at \notin {"idle", "insert", "complete", "status"}, c.row = i, OnbCall(c)',
         c.at = "finish-run" => c.saw.run \notin DOMAIN session[i].runs
  PROVE  OnbInv'
<1>1. /\ RowsGrow /\ Touches(s) /\ session' \in Seq(SessionRows)
      /\ DOMAIN session' = DOMAIN session /\ session'[i] = r
      /\ \A j \in DOMAIN session \ {i} : session'[j] = session[j]
  BY SessionMoves
<1>2. OnbTypeOK'
  BY <1>1, OnbTypeKept
<1>3. \A j \in DOMAIN session' : session'[j].status = session[j].status
  BY <1>1
<1>4. GrantHasEvidence'
  BY <1>1, <1>3, GrantKept
<1>5. ASSUME c.at = "finish-run", NEW t \in Slots \ {s}, call[t].at = "finish-run", call[t].row = i
      PROVE  call[t].saw.run # c.saw.run
  BY <1>5, OnbPlaces
<1>6. ASSUME NEW j \in DOMAIN session', session'[j].status = "awaiting_verification"
      PROVE  \/ c.at \notin {"idle", "insert", "complete"} /\ c.row = j
             \/ j \in DOMAIN session /\ session[j].status = "awaiting_verification" /\ ~Assessing(s, j)
  BY <1>1, <1>3, <1>6 DEF Assessing
<1>7. disturbed \subseteq disturbed' /\ (grant # None => grant' # None)
  OBVIOUS
<1> QED
  BY <1>1, <1>2, <1>4, <1>5, <1>6, <1>7, OnbKept

(* The run of an agent, recorded as it starts and as it ends.              *)
LEMMA StartRunInv ==
  ASSUME OnbInv, NEW s \in Slots, StartRun(s)
  PROVE  OnbInv'
<1>1. PICK i, run, r : /\ i = call[s].row
                       /\ run = [step |-> call[s].op, status |-> "running", blocked |-> FALSE]
                       /\ r = [session[i] EXCEPT !.runs = Append(session[i].runs, run)]
  OBVIOUS
<1>2. /\ call[s].op \in Steps /\ call[s].at = "start-run"
      /\ session' = [session EXCEPT ![i].runs = Append(@, run)]
      /\ call' = [call EXCEPT ![s].at = "finish-run", ![s].saw.run = Len(session[i].runs) + 1]
      /\ UNCHANGED <<journals, bal, grant, disturbed>>
  BY <1>1 DEF StartRun, Submitting
<1>3. /\ i \in DOMAIN session /\ Assessing(s, i) /\ call[s].saw.confidence \in 0..20
      /\ call[s].saw = [outcome |-> call[s].saw.outcome, confidence |-> call[s].saw.confidence,
                        run |-> call[s].saw.run]
  BY <1>1, <1>2, OnbPlaces DEF OnbSteps
<1>4. PICK runs : runs = session[i].runs
  OBVIOUS
<1>5. /\ session[i] \in SessionRows /\ runs \in Seq(AgentRuns) /\ Len(runs) \in Nat
      /\ DOMAIN runs = 1..Len(runs)
  BY <1>3, <1>4, SessionFacts DEF OnbInv
<1>6. run \in AgentRuns
  BY <1>1, <1>2 DEF AgentRuns
<1>7. PICK longer : longer = Append(runs, run)
  OBVIOUS
<1>8. /\ longer \in Seq(AgentRuns) /\ Len(longer) = Len(runs) + 1
      /\ \A n \in 1..Len(runs) : longer[n] = runs[n]
      /\ longer[Len(runs) + 1] = run
  BY <1>5, <1>6, <1>7, AppendProperties
<1>9. DOMAIN longer = 1..(Len(runs) + 1)
  BY <1>8, LenProperties
<1>10. /\ r \in SessionRows /\ r.required = session[i].required /\ r.weak = session[i].weak
       /\ r.status = session[i].status /\ r.runs = longer
  BY <1>1, <1>4, <1>5, <1>7, <1>8 DEF SessionRows
<1>11. session' = [session EXCEPT ![i] = r]
  BY <1>1, <1>2
<1>12. RunsKept(s, i, r)
  BY <1>4, <1>5, <1>8, <1>9, <1>10 DEF RunsKept
<1>13. PICK saw : saw = [call[s].saw EXCEPT !.run = Len(runs) + 1]
  OBVIOUS
<1>14. saw = [outcome |-> saw.outcome, confidence |-> saw.confidence, run |-> saw.run]
       /\ saw.confidence \in 0..20 /\ saw.run = Len(runs) + 1
  BY <1>3, <1>13
<1>15. PICK c : c = Request(call[s].op, "finish-run", i, saw)
  OBVIOUS
<1>16. Becomes(s, c)
  <2>1. PICK d : d = call[s] /\ d = [op |-> d.op, at |-> d.at, row |-> d.row, saw |-> d.saw]
    BY OnbPlaces DEF Request
  <2>2. PICK e : e = [d EXCEPT !.at = "finish-run"]
    OBVIOUS
  <2>3. e = [op |-> d.op, at |-> "finish-run", row |-> d.row, saw |-> d.saw]
    BY <2>1, <2>2
  <2>4. [e EXCEPT !.saw.run = Len(runs) + 1] = [e EXCEPT !.saw = saw]
    BY <1>13, <2>1, <2>3
  <2>5. [e EXCEPT !.saw = saw] = [op |-> d.op, at |-> "finish-run", row |-> d.row, saw |-> saw]
    BY <2>3
  <2>6. call' = [call EXCEPT ![s] = [e EXCEPT !.saw.run = Len(runs) + 1]]
    BY <1>2, <1>4, <2>1, <2>2
  <2> QED
    BY <1>1, <1>15, <2>1, <2>4, <2>5, <2>6 DEF Becomes, Request
<1>17. /\ c.op = call[s].op /\ c.at = "finish-run" /\ c.row = i /\ c.saw = saw
       /\ c = Request(c.op, c.at, c.row, c.saw)
  BY <1>15 DEF Request
<1>18. session'[i] = r /\ DOMAIN session' = DOMAIN session
  BY <1>3, <1>10, <1>11, RowChanges DEF OnbInv
<1>19. /\ c.saw.run \in DOMAIN session'[i].runs /\ session'[i].runs[c.saw.run].status = "running"
       /\ c.saw.run \notin DOMAIN session[i].runs
  <2>1. run.status = "running"
    BY <1>1
  <2> QED
    BY <1>4, <1>5, <1>8, <1>9, <1>10, <1>14, <1>17, <1>18, <2>1
<1>20. OnbCall(c)'
  <2>1. c.at \in OnbSteps /\ c.op \in Steps /\ c.row \in DOMAIN session'
    BY <1>2, <1>3, <1>17, <1>18 DEF OnbSteps
  <2> QED
    BY <1>14, <1>17, <1>19, <2>1 DEF OnbCall
<1>21. /\ UNCHANGED <<journals, bal>> /\ grant' = grant /\ disturbed' = disturbed
       /\ c.at \notin {"idle", "insert", "complete", "status"} /\ c.row = i
       /\ c.at = "finish-run" => c.saw.run \notin DOMAIN session[i].runs
  BY <1>2, <1>17, <1>19
<1> QED
  BY <1>3, <1>10, <1>11, <1>12, <1>16, <1>20, <1>21, RowGoesOnInv

LEMMA FinishRunInv ==
  ASSUME OnbInv, NEW s \in Slots, FinishRun(s)
  PROVE  OnbInv'
<1>1. PICK i, n, runs, status, blocked :
        /\ i = call[s].row /\ n = call[s].saw.run /\ runs = session[i].runs
        /\ blocked = (call[s].saw.outcome = "sanctioned")
        /\ status = IF call[s].saw.outcome = "passed" THEN "passed" ELSE "failed"
  OBVIOUS
<1>2. /\ call[s].op \in Steps /\ call[s].at = "finish-run" /\ Goto(s, "confidence")
      /\ session' = [session EXCEPT ![i].runs[n] = [@ EXCEPT !.status = status, !.blocked = blocked]]
      /\ UNCHANGED <<journals, bal, grant, disturbed>>
  BY <1>1 DEF FinishRun, Submitting
<1>3. /\ i \in DOMAIN session /\ Assessing(s, i) /\ call[s].saw.confidence \in 0..20
      /\ call[s].saw = [outcome |-> call[s].saw.outcome, confidence |-> call[s].saw.confidence,
                        run |-> call[s].saw.run]
      /\ n \in DOMAIN runs /\ runs[n].status = "running"
  BY <1>1, <1>2, OnbPlaces DEF OnbSteps
<1>4. /\ session[i] \in SessionRows /\ runs \in Seq(AgentRuns) /\ Len(runs) \in Nat
      /\ DOMAIN runs = 1..Len(runs) /\ runs[n] \in AgentRuns
  BY <1>1, <1>3, SessionFacts DEF OnbInv
<1>5. PICK run : run = [runs[n] EXCEPT !.status = status, !.blocked = blocked]
  OBVIOUS
<1>6. run \in AgentRuns
  <2>1. PICK d : d = [runs[n] EXCEPT !.status = status]
    OBVIOUS
  <2>2. status \in {"passed", "failed"} /\ blocked \in BOOLEAN
    BY <1>1
  <2>3. d \in AgentRuns
    BY <1>4, <2>1, <2>2 DEF AgentRuns
  <2>4. [d EXCEPT !.blocked = blocked] \in AgentRuns
    BY <2>2, <2>3 DEF AgentRuns
  <2> QED
    BY <1>5, <2>1, <2>4
<1>7. PICK done : done = [runs EXCEPT ![n] = run]
  OBVIOUS
<1>8. /\ done \in Seq(AgentRuns) /\ Len(done) = Len(runs)
      /\ \A m \in 1..Len(runs) : done[m] = IF m = n THEN run ELSE runs[m]
  BY <1>3, <1>4, <1>6, <1>7, ExceptSeq
<1>9. DOMAIN done = 1..Len(runs)
  BY <1>8, LenProperties
<1>10. PICK r : r = [session[i] EXCEPT !.runs = done]
  OBVIOUS
<1>11. /\ r \in SessionRows /\ r.required = session[i].required /\ r.weak = session[i].weak
       /\ r.status = session[i].status /\ r.runs = done
  BY <1>4, <1>8, <1>10 DEF SessionRows
<1>12. session' = [session EXCEPT ![i] = r]
  BY <1>1, <1>2, <1>5, <1>7, <1>10
<1>13. RunsKept(s, i, r)
  BY <1>1, <1>2, <1>3, <1>4, <1>8, <1>9, <1>11 DEF RunsKept
<1>14. PICK c : c = Request(call[s].op, "confidence", i, call[s].saw)
  OBVIOUS
<1>15. /\ Becomes(s, c) /\ c.op = call[s].op /\ c.at = "confidence" /\ c.row = i /\ c.saw = call[s].saw
       /\ c = Request(c.op, c.at, c.row, c.saw)
  BY <1>1, <1>2, <1>14, OnbGoes DEF Request
<1>16. DOMAIN session' = DOMAIN session
  BY <1>3, <1>11, <1>12, RowChanges DEF OnbInv
<1>17. OnbCall(c)'
  BY <1>2, <1>3, <1>15, <1>16 DEF OnbCall, OnbSteps
<1>18. /\ UNCHANGED <<journals, bal>> /\ grant' = grant /\ disturbed' = disturbed
       /\ c.at \notin {"idle", "insert", "complete", "status"} /\ c.row = i
       /\ c.at = "finish-run" => c.saw.run \notin DOMAIN session[i].runs
  BY <1>2, <1>15
<1> QED
  BY <1>3, <1>11, <1>12, <1>13, <1>15, <1>17, <1>18, RowGoesOnInv

LEMMA WriteConfidenceInv ==
  ASSUME OnbInv, NEW s \in Slots, WriteConfidence(s)
  PROVE  OnbInv'
<1>1. PICK i, r : i = call[s].row /\ r = [session[i] EXCEPT !.confidence = call[s].saw.confidence]
  OBVIOUS
<1>2. /\ call[s].op \in Steps /\ call[s].at = "confidence" /\ Goto(s, "decide")
      /\ session' = [session EXCEPT ![i] = r] /\ UNCHANGED <<journals, bal, grant, disturbed>>
  BY <1>1 DEF WriteConfidence, Submitting
<1>3. i \in DOMAIN session /\ Assessing(s, i) /\ call[s].saw.confidence \in 0..20
  BY <1>1, <1>2, OnbPlaces DEF OnbSteps
<1>4. session[i] \in SessionRows
  BY <1>3, SessionFacts DEF OnbInv
<1>5. /\ r \in SessionRows /\ r.required = session[i].required /\ r.weak = session[i].weak
      /\ r.status = session[i].status /\ r.runs = session[i].runs
  BY <1>1, <1>3, <1>4 DEF SessionRows
<1>6. PICK c : c = Request(call[s].op, "decide", i, call[s].saw)
  OBVIOUS
<1>7. /\ Becomes(s, c) /\ c.op = call[s].op /\ c.at = "decide" /\ c.row = i
      /\ c = Request(c.op, c.at, c.row, c.saw)
  BY <1>1, <1>2, <1>6, OnbGoes DEF Request
<1>8. DOMAIN session' = DOMAIN session
  BY <1>2, <1>3, <1>5, RowChanges DEF OnbInv
<1>9. OnbCall(c)'
  BY <1>2, <1>3, <1>7, <1>8 DEF OnbCall
<1>10. RunsKept(s, i, r)
  BY <1>5 DEF RunsKept
<1>11. /\ UNCHANGED <<journals, bal>> /\ grant' = grant /\ disturbed' = disturbed
       /\ c.at \notin {"idle", "insert", "complete", "status"} /\ c.row = i
       /\ c.at = "finish-run" => c.saw.run \notin DOMAIN session[i].runs
  BY <1>2, <1>7
<1> QED
  BY <1>2, <1>3, <1>5, <1>7, <1>9, <1>10, <1>11, RowGoesOnInv

(* Every step.                                                             *)
LEMMA OnbStepInv == OnbInv /\ [OnboardingNext]_onboardingVars => OnbInv'
<1> SUFFICES ASSUME OnbInv, [OnboardingNext]_onboardingVars PROVE OnbInv'
  OBVIOUS
<1>1. CASE UNCHANGED onboardingVars
  <2>1. /\ call' = call /\ session' = session /\ grant' = grant /\ disturbed' = disturbed
        /\ journals' = journals /\ bal' = bal
    BY <1>1 DEF onboardingVars
  <2>2. OnbTypeOK' /\ OnbCalls'
    BY <2>1 DEF OnbInv, OnbTypeOK, LedgerTypeOK, Effects, OnbCalls, OnbCall, Evidence
  <2>3. RunsOwned' /\ OneAtATime' /\ WaitsForStep'
    BY <2>1 DEF OnbInv, RunsOwned, OneAtATime, WaitsForStep, Assessing, Pending, Ended
  <2>4. GrantHasEvidence'
    BY <2>1 DEF OnbInv, GrantHasEvidence, Evidence
  <2> QED
    BY <2>2, <2>3, <2>4 DEF OnbInv
<1>2. ASSUME NEW s \in Slots,
             \/ \E a \in Assessments : StartOnboarding(s, a)
             \/ \E step \in Steps : \E o \in Outcomes(step) : Submit(s, step, o)
             \/ \E i \in DOMAIN session : \E v \in Terminal : Review(s, i, v)
             \/ \E caller \in KycCallers : OtherKyc(s, caller)
             \/ CompleteKyc(s)
      PROVE  OnbInv'
  BY <1>2, StartOnboardingInv, SubmitInv, ReviewInv, OtherKycInv, CompleteKycInv
<1>3. ASSUME NEW s \in Slots, InsertSession(s) \/ StartRun(s) \/ FinishRun(s) \/ WriteConfidence(s)
      PROVE  OnbInv'
  BY <1>3, InsertSessionInv, StartRunInv, FinishRunInv, WriteConfidenceInv
<1>4. ASSUME NEW s \in Slots, DecideSession(s) \/ ReadTier(s) \/ Grant(s) \/ WriteStatus(s)
      PROVE  OnbInv'
  BY <1>4, OnbDecideInv, ReadTierInv, RaiseTierInv, WriteStatusInv
<1>5. ASSUME NEW s \in Slots, Dies(s), disturbed' = disturbed \cup {call[s].row}, UNCHANGED <<session, grant>>
      PROVE  OnbInv'
  BY <1>5, OnbDiesInv
<1> QED
  BY <1>1, <1>2, <1>3, <1>4, <1>5 DEF OnboardingNext

LEMMA OnbInvHolds == OnbInv => GrantsNeedEvidence /\ WaitingHasStep
<1> SUFFICES ASSUME OnbInv PROVE GrantsNeedEvidence /\ WaitingHasStep
  OBVIOUS
<1>1. ASSUME grant # None, grant.by = "policy"
      PROVE  /\ ~session[grant.session].weak
             /\ \A p \in session[grant.session].required :
                  \E r \in Range(session[grant.session].runs) : r.step = p /\ r.status = "passed"
  BY <1>1 DEF OnbInv, GrantHasEvidence, Evidence, Range
<1>2. ASSUME NEW i \in DOMAIN session, About(i) = {}
      PROVE  \A s \in Slots : ~Assessing(s, i)
  BY <1>2 DEF About, Assessing, Idle, Request
<1>4. grant # None => grant.by \in {"human", "policy", "simulated"}
  BY DEF OnbInv, OnbTypeOK
<1>3. WaitingHasStep
  BY <1>2 DEF OnbInv, WaitsForStep, WaitingHasStep
<1> QED
  BY <1>1, <1>3, <1>4 DEF OnbInv, GrantHasEvidence, GrantsNeedEvidence

-----------------------------------------------------------------------------
(* Agents: a nonce yields one token, of what was granted.                  *)

AgentsTypeOK ==
  /\ agentGrant \in [active : BOOLEAN, functions : SUBSET Functions]
  /\ attested \in BOOLEAN
  /\ ragged \in BOOLEAN
  /\ relay \in [Nonces -> {"none", "parked", "fetched"}]

(* The places of a presentation that has consumed its nonce.               *)
Presented == {"credential", "grant", "person", "token", "park"}

AgentCall(c) ==
  \/ c = Idle
  \/ c.at \in {"credential", "attest"} /\ c = Request("grant", c.at, None, <<>>)
  \/ c = Request("revoke", "attestation", None, <<>>)
  \/ /\ c.at \in Presented \cup {"nonce"} /\ c.row \in Presentations
     /\ c = Request("present", c.at, c.row, c.saw)
     /\ c.at = "person" => c.saw = <<c.saw[1]>>
     /\ c.at \in {"token", "park"} => c.saw = <<c.saw[1], c.saw[2]>>

AgentCalls == call = [s \in Slots |-> call[s]] /\ \A s \in Slots : AgentCall(call[s])

Spends(c) == c.op = "present" /\ c.at \in Presented

(* A nonce that is used belongs to one presentation, or to its token.      *)
NoncesOnce ==
  /\ \A s \in Slots : Spends(call[s]) => NonceOf[call[s].row] \in used
  /\ \A s, t \in Slots :
       Spends(call[s]) /\ Spends(call[t]) /\ NonceOf[call[s].row] = NonceOf[call[t].row] => s = t
  /\ \A u \in tokens : NonceOf[u.of] \in used
  /\ \A s \in Slots, u \in tokens :
       Spends(call[s]) /\ NonceOf[u.of] = NonceOf[call[s].row] => call[s].at = "park"

(* What a presentation has read of the grant was granted while it ran.     *)
ScopesGranted ==
  \A s \in Slots :
    /\ call[s].at \in {"person", "token"} =>
         /\ call[s].saw[1] # {}
         /\ call[s].saw[1] \subseteq NonceScope[NonceOf[call[s].row]] \cap during[s].granted
    /\ call[s].at = "token" /\ call[s].saw[2] => during[s].attested

ParkedHaveToken ==
  \A s \in Slots : call[s].at = "park" => \E u \in tokens : NonceOf[u.of] = NonceOf[call[s].row]

(* Changes of the grant that do not overlap: the one that runs has written *)
(* the grant, and leaves the attestation as it should be.                  *)
OneChange ==
  ~ragged =>
    /\ \A s, t \in Changing : s = t
    /\ \A s \in Slots : /\ call[s].op = "grant" => agentGrant.active
                        /\ call[s].op = "revoke" => ~agentGrant.active
    /\ Changing = {} /\ attested => agentGrant.active

AgentsInv ==
  /\ AgentsTypeOK
  /\ AgentCalls
  /\ NoncesOnce
  /\ ScopesGranted
  /\ ParkedHaveToken
  /\ TokensFollowGrant
  /\ OneChange

LEMMA AgentsInitInv == AgentsInit => AgentsInv
<1> SUFFICES ASSUME AgentsInit PROVE AgentsInv
  OBVIOUS
<1>1. /\ call = [s \in Slots |-> call[s]]
      /\ \A s \in Slots : call[s] = Idle /\ call[s].at = "idle" /\ call[s].op = "idle"
  BY DEF AgentsInit, ServiceInit, Idle, Request
<1>2. AgentsTypeOK
  BY DEF AgentsInit, AgentsTypeOK
<1>3. relay = [n \in Nonces |-> "none"] /\ tokens = {} /\ attested = FALSE /\ Changing = {}
  BY <1>1 DEF AgentsInit, Changing
<1> QED
  BY <1>1, <1>2, <1>3 DEF AgentsInv, AgentCalls, AgentCall, NoncesOnce, Spends, ScopesGranted,
                          ParkedHaveToken, TokensFollowGrant, OneChange

(* Where a request is, and what it is then.                                *)
LEMMA AgentPlaces ==
  ASSUME AgentsInv, NEW s \in Slots
  PROVE  /\ call[s] = Request(call[s].op, call[s].at, call[s].row, call[s].saw)
         /\ AgentCall(call[s])
         /\ call[s].op = "present" => call[s].row \in Presentations
         /\ call[s].at \in {"person", "token", "park"} => call[s].op = "present"
<1>1. PICK c : c = call[s] /\ AgentCall(c)
  BY DEF AgentsInv, AgentCalls
<1> QED
  BY <1>1 DEF AgentCall, Idle, Request, Presented

LEMMA AgentMoves ==
  ASSUME AgentsInv, NEW s \in Slots, NEW c, Becomes(s, c)
  PROVE  /\ call'[s] = c /\ \A t \in Slots \ {s} : call'[t] = call[t]
         /\ call' = [t \in Slots |-> call'[t]]
BY DEF AgentsInv, AgentCalls, Becomes

LEMMA AgentGoes ==
  ASSUME AgentsInv, NEW s \in Slots, NEW at, Goto(s, at)
  PROVE  Becomes(s, Request(call[s].op, at, call[s].row, call[s].saw))
<1>1. PICK c : c = call[s] /\ c = [op |-> c.op, at |-> c.at, row |-> c.row, saw |-> c.saw]
  BY AgentPlaces DEF Request
<1>2. [c EXCEPT !.at = at] = Request(c.op, at, c.row, c.saw)
  BY <1>1 DEF Request
<1> QED
  BY <1>1, <1>2 DEF Goto, Becomes

(* What a presentation saw is kept, and what is granted now is added.      *)
LEMMA WatchGrows ==
  ASSUME Watch, NEW s \in Slots, call'[s].op = "present"
  PROVE  /\ during'[s].granted = during[s].granted \cup
                                 (IF agentGrant'.active THEN agentGrant'.functions ELSE {})
         /\ during[s].attested \/ attested' => during'[s].attested
<1>1. call'[s] # Idle
  BY DEF Idle, Request
<1>2. PICK g, a : /\ g = during[s].granted \cup (IF agentGrant'.active THEN agentGrant'.functions ELSE {})
                  /\ a = (during[s].attested \/ attested')
  OBVIOUS
<1>3. during'[s] = [granted |-> g, attested |-> a]
  <2>1. during'[s] =
          [granted |-> during[s].granted \cup (IF agentGrant'.active THEN agentGrant'.functions ELSE {}),
           attested |-> during[s].attested \/ attested']
    BY <1>1, Zenon DEF Watch
  <2> QED
    BY <1>2, <2>1, Zenon
<1>4. during'[s].granted = g /\ during'[s].attested = a
  BY <1>3
<1>5. during[s].attested \/ attested' => during'[s].attested
  BY <1>2, <1>4, Zenon
<1> QED
  BY <1>2, <1>4, <1>5

(* The request of s becomes c, and no token is recorded.                   *)
LEMMA AgentsKept ==
  ASSUME AgentsInv, NEW s \in Slots, NEW c, Becomes(s, c), AgentCall(c), Watch, AgentsTypeOK',
         tokens' = tokens, used \subseteq used',
         Spends(c) =>
           \/ c = call[s]
           \/ /\ c.at # "park" /\ NonceOf[c.row] \in used'
              /\ \/ Spends(call[s]) /\ c.row = call[s].row /\ call[s].at # "park"
                 \/ NonceOf[c.row] \notin used,
         c.at \in {"person", "token"} =>
           /\ c.saw[1] # {}
           /\ c.saw[1] \subseteq NonceScope[NonceOf[c.row]] \cap during'[s].granted,
         c.at = "token" /\ c.saw[2] => during'[s].attested,
         \A n \in Nonces : relay'[n] # "none" =>
           relay[n] # "none" \/ \E u \in tokens : NonceOf[u.of] = n,
         OneChange'
  PROVE  AgentsInv'
<1>1. /\ call'[s] = c /\ \A t \in Slots \ {s} : call'[t] = call[t]
      /\ call' = [t \in Slots |-> call'[t]]
  BY AgentMoves
<1>2. \A t \in Slots : AgentCall(call[t])
  BY DEF AgentsInv, AgentCalls
<1>3. AgentCalls'
  <2>1. ASSUME NEW t \in Slots PROVE AgentCall(call'[t])
    BY <1>1, <1>2
  <2> QED
    BY <1>1, <2>1 DEF AgentCalls, AgentCall
<1>4. /\ \A t \in Slots : Spends(call[t]) => NonceOf[call[t].row] \in used
      /\ \A t, v \in Slots :
           Spends(call[t]) /\ Spends(call[v]) /\ NonceOf[call[t].row] = NonceOf[call[v].row] => t = v
      /\ \A u \in tokens : NonceOf[u.of] \in used
      /\ \A t \in Slots, u \in tokens :
           Spends(call[t]) /\ NonceOf[u.of] = NonceOf[call[t].row] => call[t].at = "park"
  BY DEF AgentsInv, NoncesOnce
<1>5. \A t \in Slots : Spends(call'[t]) => NonceOf[call'[t].row] \in used'
  BY <1>1, <1>4
<1>6. ASSUME NEW t \in Slots, Spends(c), Spends(call[t]), NonceOf[c.row] = NonceOf[call[t].row]
      PROVE  t = s
  BY <1>4, <1>6
<1>7. ASSUME NEW t \in Slots, NEW v \in Slots, Spends(call'[t]), Spends(call'[v]),
             NonceOf[call'[t].row] = NonceOf[call'[v].row]
      PROVE  t = v
  BY <1>1, <1>4, <1>6, <1>7
<1>8. ASSUME NEW t \in Slots, NEW u \in tokens, Spends(call'[t]), NonceOf[u.of] = NonceOf[call'[t].row]
      PROVE  call'[t].at = "park"
  BY <1>1, <1>4, <1>8
<1>9. NoncesOnce'
  BY <1>4, <1>5, <1>7, <1>8 DEF NoncesOnce, Spends
<1>10. ScopesGranted'
  <2>1. ASSUME NEW t \in Slots \ {s}, call[t].at \in {"person", "token"}
        PROVE  /\ during[t].granted \subseteq during'[t].granted
               /\ during[t].attested => during'[t].attested
    <3>1. call'[t].op = "present"
      BY <1>1, <2>1, AgentPlaces
    <3> QED
      BY <3>1, WatchGrows
  <2>2. \A t \in Slots \ {s} :
          /\ call[t].at \in {"person", "token"} =>
               /\ call[t].saw[1] # {}
               /\ call[t].saw[1] \subseteq NonceScope[NonceOf[call[t].row]] \cap during[t].granted
          /\ call[t].at = "token" /\ call[t].saw[2] => during[t].attested
    BY DEF AgentsInv, ScopesGranted
  <2>3. \A t \in Slots \ {s} :
          /\ call[t].at \in {"person", "token"} =>
               /\ call[t].saw[1] # {}
               /\ call[t].saw[1] \subseteq NonceScope[NonceOf[call[t].row]] \cap during'[t].granted
          /\ call[t].at = "token" /\ call[t].saw[2] => during'[t].attested
    BY <2>1, <2>2
  <2> QED
    BY <1>1, <2>3 DEF ScopesGranted
<1>11. ParkedHaveToken'
  <2>1. c.at = "park" => c = call[s]
    BY DEF AgentCall, Spends, Presented, Idle, Request
  <2> QED
    BY <1>1, <2>1 DEF AgentsInv, ParkedHaveToken
<1>12. TokensFollowGrant'
  BY DEF AgentsInv, TokensFollowGrant
<1> QED
  BY <1>3, <1>9, <1>10, <1>11, <1>12 DEF AgentsInv

(* A step that changes neither the grant nor whether it is being changed.  *)
LEMMA ChangeSame ==
  ASSUME AgentsInv, NEW s \in Slots, NEW c, Becomes(s, c),
         c.op = "grant" <=> call[s].op = "grant", c.op = "revoke" <=> call[s].op = "revoke",
         agentGrant' = agentGrant, attested' = attested, ragged' = ragged
  PROVE  OneChange'
<1>1. call'[s] = c /\ \A t \in Slots \ {s} : call'[t] = call[t]
  BY AgentMoves
<1>2. \A t \in Slots : /\ call'[t].op = "grant" <=> call[t].op = "grant"
                       /\ call'[t].op = "revoke" <=> call[t].op = "revoke"
  BY <1>1
<1>3. Changing' = Changing
  BY <1>2 DEF Changing
<1> QED
  BY <1>2, <1>3 DEF AgentsInv, OneChange

(* A presentation goes on, or ends.                                        *)
LEMMA PresentGoes ==
  ASSUME AgentsInv, NEW s \in Slots, call[s].op \notin {"grant", "revoke"},
         NEW c, Becomes(s, c), AgentCall(c), c.op \in {"present", "idle"}, Watch,
         agentGrant' = agentGrant, attested' = attested, ragged' = ragged,
         relay' \in [Nonces -> {"none", "parked", "fetched"}],
         tokens' = tokens, used \subseteq used',
         Spends(c) =>
           /\ c.at # "park" /\ NonceOf[c.row] \in used'
           /\ \/ Spends(call[s]) /\ c.row = call[s].row /\ call[s].at # "park"
              \/ NonceOf[c.row] \notin used,
         c.at \in {"person", "token"} =>
           /\ c.saw[1] # {}
           /\ c.saw[1] \subseteq NonceScope[NonceOf[c.row]] \cap during'[s].granted,
         c.at = "token" /\ c.saw[2] => during'[s].attested,
         \A n \in Nonces : relay'[n] # "none" =>
           relay[n] # "none" \/ \E u \in tokens : NonceOf[u.of] = n
  PROVE  AgentsInv'
<1>1. AgentsTypeOK'
  BY DEF AgentsInv, AgentsTypeOK
<1>2. OneChange'
  BY ChangeSame
<1> QED
  BY <1>1, <1>2, AgentsKept

(* A change of the grant goes on, or ends, with nothing else.              *)
LEMMA ChangeGoes ==
  ASSUME AgentsInv, NEW s \in Slots, NEW c, Becomes(s, c), AgentCall(c),
         c.op \in {"grant", "revoke", "idle"}, Watch, AgentsTypeOK',
         tokens' = tokens, used' = used, relay' = relay, OneChange'
  PROVE  AgentsInv'
<1>1. ~Spends(c) /\ c.at \notin {"person", "token"}
  BY DEF AgentCall, Spends, Idle, Request
<1> QED
  BY <1>1, AgentsKept

(* The request of s ends.                                                  *)
LEMMA AgentLeaves ==
  ASSUME NEW s \in Slots, Leave(s)
  PROVE  /\ Becomes(s, Idle) /\ AgentCall(Idle) /\ Idle.op = "idle" /\ Idle.at = "idle"
         /\ ~Spends(Idle)
BY DEF Leave, Becomes, AgentCall, Idle, Request, Spends

-----------------------------------------------------------------------------
(* One lemma for each step.                                                *)
LEMMA GrantAgentInv ==
  ASSUME AgentsInv, Watch, NEW s \in Slots, NEW F \in SUBSET Functions \ {{}}, GrantAgent(s, F)
  PROVE  AgentsInv'
<1>1. PICK c : c = Request("grant", "credential", None, <<>>)
  OBVIOUS
<1>2. Becomes(s, c) /\ c.op = "grant" /\ c.at = "credential" /\ AgentCall(c)
  BY <1>1 DEF GrantAgent, Begin, Becomes, AgentCall, Request
<1>3. /\ tokens' = tokens /\ used' = used /\ relay' = relay /\ attested' = attested
      /\ agentGrant' = [active |-> TRUE, functions |-> F] /\ agentGrant'.active
      /\ ragged' = (ragged \/ Changing # {})
  BY DEF GrantAgent
<1>4. AgentsTypeOK'
  <2>1. agentGrant' \in [active : BOOLEAN, functions : SUBSET Functions]
    BY <1>3
  <2>2. ragged' \in BOOLEAN
    BY <1>3
  <2> QED
    BY <1>3, <2>1, <2>2 DEF AgentsInv, AgentsTypeOK
<1>5. OneChange'
  <2>1. call'[s] = c /\ \A t \in Slots \ {s} : call'[t] = call[t]
    BY <1>2, AgentMoves
  <2>2. SUFFICES ASSUME ~ragged' PROVE /\ \A t, v \in Changing' : t = v
                                       /\ \A t \in Slots : call'[t].op # "revoke"
    BY <1>3 DEF OneChange
  <2>3. \A t \in Slots : call[t].op \notin {"grant", "revoke"}
    BY <1>3, <2>2 DEF Changing
  <2> QED
    BY <1>2, <2>1, <2>3 DEF Changing
<1> QED
  BY <1>2, <1>3, <1>4, <1>5, ChangeGoes

LEMMA RevokeGrantInv ==
  ASSUME AgentsInv, Watch, NEW s \in Slots, RevokeGrant(s)
  PROVE  AgentsInv'
<1>1. PICK c : c = Request("revoke", "attestation", None, <<>>)
  OBVIOUS
<1>2. Becomes(s, c) /\ c.op = "revoke" /\ AgentCall(c)
  BY <1>1 DEF RevokeGrant, Begin, Becomes, AgentCall, Request
<1>3. /\ tokens' = tokens /\ used' = used /\ relay' = relay /\ attested' = attested
      /\ agentGrant' = [agentGrant EXCEPT !.active = FALSE]
      /\ ragged' = (ragged \/ Changing # {})
  BY DEF RevokeGrant
<1>4. /\ agentGrant' \in [active : BOOLEAN, functions : SUBSET Functions]
      /\ agentGrant'.active = FALSE
  BY <1>3 DEF AgentsInv, AgentsTypeOK
<1>5. AgentsTypeOK'
  <2>1. ragged' \in BOOLEAN
    BY <1>3
  <2> QED
    BY <1>3, <1>4, <2>1 DEF AgentsInv, AgentsTypeOK
<1>6. OneChange'
  <2>1. call'[s] = c /\ \A t \in Slots \ {s} : call'[t] = call[t]
    BY <1>2, AgentMoves
  <2>2. SUFFICES ASSUME ~ragged' PROVE /\ \A t, v \in Changing' : t = v
                                       /\ \A t \in Slots : call'[t].op # "grant"
                                       /\ Changing' # {}
    BY <1>4 DEF OneChange
  <2>3. \A t \in Slots : call[t].op \notin {"grant", "revoke"}
    BY <1>3, <2>2 DEF Changing
  <2>4. s \in Changing'
    BY <1>2, <2>1 DEF Changing
  <2> QED
    BY <1>2, <2>1, <2>3, <2>4 DEF Changing
<1> QED
  BY <1>2, <1>3, <1>5, <1>6, ChangeGoes

(* The last step of a change, or its death.                                *)
LEMMA ChangeEnds ==
  ASSUME AgentsInv, NEW s \in Slots, Leave(s), agentGrant' = agentGrant,
         ~ragged' =>
           /\ ~ragged
           /\ s \in Changing /\ attested' => agentGrant.active
           /\ s \notin Changing => attested' = attested
  PROVE  OneChange'
<1>1. call'[s] = Idle /\ Idle.op = "idle" /\ \A t \in Slots \ {s} : call'[t] = call[t]
  BY AgentLeaves, AgentMoves
<1>2. Changing' = Changing \ {s}
  BY <1>1 DEF Changing
<1>3. SUFFICES ASSUME ~ragged' PROVE /\ \A t, v \in Changing' : t = v
                                     /\ \A t \in Slots : /\ call'[t].op = "grant" => agentGrant.active
                                                         /\ call'[t].op = "revoke" => ~agentGrant.active
                                     /\ Changing' = {} /\ attested' => agentGrant.active
  BY DEF OneChange
<1>4. /\ \A t, v \in Changing : t = v
      /\ \A t \in Slots : /\ call[t].op = "grant" => agentGrant.active
                          /\ call[t].op = "revoke" => ~agentGrant.active
      /\ Changing = {} /\ attested => agentGrant.active
  BY <1>3 DEF AgentsInv, OneChange
<1>5. Changing' = {} /\ attested' => agentGrant.active
  BY <1>2, <1>3, <1>4
<1> QED
  BY <1>1, <1>2, <1>4, <1>5

LEMMA AttestReadInv ==
  ASSUME AgentsInv, Watch, NEW s \in Slots, AttestRead(s)
  PROVE  AgentsInv'
<1>1. /\ call[s].op = "grant" /\ call[s].at = "credential" /\ (Goto(s, "attest") \/ Leave(s))
      /\ tokens' = tokens /\ used' = used /\ relay' = relay /\ attested' = attested
      /\ agentGrant' = agentGrant /\ ragged' = ragged
  BY DEF AttestRead, At
<1>2. AgentsTypeOK'
  BY <1>1 DEF AgentsInv, AgentsTypeOK
<1>3. CASE Goto(s, "attest")
  <2>1. PICK c : c = Request(call[s].op, "attest", call[s].row, call[s].saw)
    OBVIOUS
  <2>2. call[s].row = None /\ call[s].saw = <<>>
    <3>1. PICK d : d = call[s] /\ d.op = "grant" /\ AgentCall(d)
      BY <1>1, AgentPlaces
    <3> QED
      BY <3>1 DEF AgentCall, Idle, Request
  <2>3. Becomes(s, c) /\ c.op = "grant" /\ c.at = "attest" /\ AgentCall(c)
    BY <1>1, <1>3, <2>1, <2>2, AgentGoes DEF AgentCall, Request
  <2>4. OneChange'
    BY <1>1, <2>3, ChangeSame
  <2> QED
    BY <1>1, <1>2, <2>3, <2>4, ChangeGoes
<1>4. CASE Leave(s)
  <2>1. s \in Changing /\ (~ragged => agentGrant.active)
    BY <1>1 DEF AgentsInv, OneChange, Changing
  <2>2. OneChange'
    BY <1>1, <1>4, <2>1, ChangeEnds
  <2> QED
    BY <1>1, <1>2, <1>4, <2>2, AgentLeaves, ChangeGoes
<1> QED
  BY <1>1, <1>3, <1>4

LEMMA AttestWriteInv ==
  ASSUME AgentsInv, Watch, NEW s \in Slots, AttestWrite(s) \/ RevokeAttestation(s)
  PROVE  AgentsInv'
<1>1. /\ call[s].op \in {"grant", "revoke"} /\ Leave(s) /\ attested' = (call[s].op = "grant")
      /\ tokens' = tokens /\ used' = used /\ relay' = relay
      /\ agentGrant' = agentGrant /\ ragged' = ragged
  BY DEF AttestWrite, RevokeAttestation, At
<1>2. attested' \in BOOLEAN
  BY <1>1
<1>3. AgentsTypeOK'
  BY <1>1, <1>2 DEF AgentsInv, AgentsTypeOK
<1>4. s \in Changing /\ (~ragged /\ attested' => agentGrant.active)
  BY <1>1 DEF AgentsInv, OneChange, Changing
<1>5. OneChange'
  BY <1>1, <1>4, ChangeEnds
<1> QED
  BY <1>1, <1>3, <1>5, AgentLeaves, ChangeGoes

LEMMA AgentDiesInv ==
  ASSUME AgentsInv, Watch, NEW s \in Slots, Dies(s), ragged' = (ragged \/ s \in Changing),
         UNCHANGED <<agentGrant, attested, credential, used, tokens, relay>>
  PROVE  AgentsInv'
<1>1. /\ Leave(s) /\ agentGrant' = agentGrant /\ attested' = attested
      /\ used' = used /\ tokens' = tokens /\ relay' = relay
  BY DEF Dies
<1>2. ragged' \in BOOLEAN /\ (~ragged' => ~ragged /\ s \notin Changing)
  OBVIOUS
<1>3. AgentsTypeOK'
  BY <1>1, <1>2 DEF AgentsInv, AgentsTypeOK
<1>4. OneChange'
  BY <1>1, <1>2, ChangeEnds
<1> QED
  BY <1>1, <1>3, <1>4, AgentLeaves, ChangeGoes

LEMMA PresentCallInv ==
  ASSUME AgentsInv, Watch, NEW s \in Slots, NEW p \in Presentations, PresentCall(s, p)
  PROVE  AgentsInv'
<1>1. PICK c : c = Request("present", "nonce", p, <<>>)
  OBVIOUS
<1>2. /\ Becomes(s, c) /\ c.op = "present" /\ c.at = "nonce" /\ AgentCall(c) /\ ~Spends(c)
  BY <1>1 DEF PresentCall, Begin, Becomes, AgentCall, Request, Spends, Presented
<1>3. call[s].op = "idle"
  BY DEF PresentCall, Begin, Idle, Request
<1>4. /\ tokens' = tokens /\ used' = used /\ relay' = relay /\ attested' = attested
      /\ agentGrant' = agentGrant /\ ragged' = ragged
  BY DEF PresentCall
<1>5. relay' \in [Nonces -> {"none", "parked", "fetched"}]
  BY <1>4 DEF AgentsInv, AgentsTypeOK
<1> QED
  BY <1>2, <1>3, <1>4, <1>5, PresentGoes

(* A presentation that reads, and goes to the next place or ends.          *)
LEMMA PresentReads ==
  ASSUME AgentsInv, Watch, NEW s \in Slots, call[s].op = "present",
         agentGrant' = agentGrant, attested' = attested, ragged' = ragged, tokens' = tokens,
         used' = used \cup {NonceOf[call[s].row]} \/ (used' = used /\ Spends(call[s])),
         relay' = relay, NEW at \in {"credential", "grant", "person", "token"}, NEW saw,
         at = "person" => saw = <<saw[1]>>, at = "token" => saw = <<saw[1], saw[2]>>,
         Leave(s) \/ Becomes(s, Request("present", at, call[s].row, saw)),
         Leave(s) \/ (Spends(call[s]) /\ call[s].at # "park") \/ NonceOf[call[s].row] \notin used,
         ~Leave(s) /\ at \in {"person", "token"} =>
           /\ saw[1] # {}
           /\ saw[1] \subseteq NonceScope[NonceOf[call[s].row]] \cap during'[s].granted,
         ~Leave(s) /\ at = "token" /\ saw[2] => during'[s].attested
  PROVE  AgentsInv'
<1>1. relay' \in [Nonces -> {"none", "parked", "fetched"}]
  BY DEF AgentsInv, AgentsTypeOK
<1>2. CASE Leave(s)
  BY <1>1, <1>2, AgentLeaves, PresentGoes
<1>3. CASE ~Leave(s)
  <2>1. PICK c : c = Request("present", at, call[s].row, saw)
    OBVIOUS
  <2>2. c.op = "present" /\ c.at = at /\ c.row = call[s].row /\ c.saw = saw /\ Becomes(s, c)
    BY <1>3, <2>1 DEF Request
  <2>3. call[s].row \in Presentations
    BY AgentPlaces
  <2>4. AgentCall(c)
    BY <2>1, <2>2, <2>3 DEF AgentCall, Presented
  <2>5. NonceOf[call[s].row] \in used'
    BY DEF AgentsInv, NoncesOnce
  <2> QED
    BY <1>1, <1>3, <2>2, <2>4, <2>5, PresentGoes
<1> QED
  BY <1>2, <1>3

LEMMA ConsumeNonceInv ==
  ASSUME AgentsInv, Watch, NEW s \in Slots, ConsumeNonce(s)
  PROVE  AgentsInv'
<1>1. /\ call[s].op = "present" /\ used' = used \cup {NonceOf[call[s].row]}
      /\ tokens' = tokens /\ relay' = relay /\ attested' = attested
      /\ agentGrant' = agentGrant /\ ragged' = ragged
      /\ Leave(s) \/ (NonceOf[call[s].row] \notin used /\ Goto(s, "credential"))
  BY DEF ConsumeNonce, At
<1>2. Goto(s, "credential") => Becomes(s, Request("present", "credential", call[s].row, call[s].saw))
  BY <1>1, AgentGoes
<1> QED
  BY <1>1, <1>2, PresentReads

LEMMA CredentialReadInv ==
  ASSUME AgentsInv, Watch, NEW s \in Slots, CredentialRead(s)
  PROVE  AgentsInv'
<1>1. /\ call[s].op = "present" /\ call[s].at = "credential" /\ used' = used
      /\ tokens' = tokens /\ relay' = relay /\ attested' = attested
      /\ agentGrant' = agentGrant /\ ragged' = ragged
      /\ Leave(s) \/ Goto(s, "grant")
  BY DEF CredentialRead, At
<1>2. Goto(s, "grant") => Becomes(s, Request("present", "grant", call[s].row, call[s].saw))
  BY <1>1, AgentGoes
<1>3. Spends(call[s])
  BY <1>1 DEF Spends, Presented
<1> QED
  BY <1>1, <1>2, <1>3, PresentReads

LEMMA GrantReadInv ==
  ASSUME AgentsInv, Watch, NEW s \in Slots, GrantRead(s)
  PROVE  AgentsInv'
<1>1. PICK scope, saw :
        /\ scope = NonceScope[NonceOf[call[s].row]] \cap agentGrant.functions /\ saw = <<scope>>
  OBVIOUS
<1>2. /\ call[s].op = "present" /\ call[s].at = "grant" /\ used' = used
      /\ tokens' = tokens /\ relay' = relay /\ attested' = attested
      /\ agentGrant' = agentGrant /\ ragged' = ragged
      /\ Leave(s) \/ (agentGrant.active /\ scope # {} /\ Seeing(s, "person", saw))
  BY <1>1 DEF GrantRead, At
<1>3. Spends(call[s]) /\ saw = <<saw[1]>> /\ saw[1] = scope
  BY <1>1, <1>2 DEF Spends, Presented
<1>4. Seeing(s, "person", saw) => Becomes(s, Request("present", "person", call[s].row, saw))
  BY <1>2 DEF Seeing, Becomes
<1>5. ~Leave(s) => agentGrant'.functions \subseteq during'[s].granted
  <2>1. SUFFICES ASSUME ~Leave(s) PROVE agentGrant'.functions \subseteq during'[s].granted
    OBVIOUS
  <2>2. Becomes(s, Request("present", "person", call[s].row, saw)) /\ agentGrant'.active
    BY <1>2, <1>4, <2>1
  <2>3. call'[s].op = "present"
    BY <2>2, AgentMoves DEF Request
  <2> QED
    BY <2>2, <2>3, WatchGrows
<1> QED
  BY <1>1, <1>2, <1>3, <1>4, <1>5, PresentReads

LEMMA PersonhoodReadInv ==
  ASSUME AgentsInv, Watch, NEW s \in Slots, PersonhoodRead(s)
  PROVE  AgentsInv'
<1>1. PICK scope, saw : scope = call[s].saw[1] /\ saw = <<scope, attested>>
  OBVIOUS
<1>2. /\ call[s].op = "present" /\ call[s].at = "person" /\ used' = used
      /\ tokens' = tokens /\ relay' = relay /\ attested' = attested
      /\ agentGrant' = agentGrant /\ ragged' = ragged
      /\ Leave(s) \/ Seeing(s, "token", saw)
  BY <1>1 DEF PersonhoodRead, At
<1>3. Spends(call[s]) /\ saw = <<saw[1], saw[2]>> /\ saw[1] = scope /\ saw[2] = attested
  BY <1>1, <1>2 DEF Spends, Presented
<1>4. Seeing(s, "token", saw) => Becomes(s, Request("present", "token", call[s].row, saw))
  BY <1>2 DEF Seeing, Becomes
<1>5. /\ scope # {}
      /\ scope \subseteq NonceScope[NonceOf[call[s].row]] \cap during[s].granted
  BY <1>1, <1>2 DEF AgentsInv, ScopesGranted
<1>6. ~Leave(s) => /\ during[s].granted \subseteq during'[s].granted
                   /\ attested => during'[s].attested
  <2>1. SUFFICES ASSUME ~Leave(s) PROVE /\ during[s].granted \subseteq during'[s].granted
                                        /\ attested => during'[s].attested
    OBVIOUS
  <2>2. Becomes(s, Request("present", "token", call[s].row, saw))
    BY <1>2, <1>4, <2>1
  <2>3. call'[s].op = "present"
    BY <2>2, AgentMoves DEF Request
  <2> QED
    BY <1>2, <2>3, WatchGrows
<1> QED
  BY <1>2, <1>3, <1>4, <1>5, <1>6, PresentReads

LEMMA RecordTokenInv ==
  ASSUME AgentsInv, Watch, NEW s \in Slots, RecordToken(s)
  PROVE  AgentsInv'
<1>1. PICK c, tok : /\ c = Request(call[s].op, "park", call[s].row, call[s].saw)
                    /\ tok = [of |-> call[s].row, scope |-> call[s].saw[1],
                              human |-> call[s].saw[2], during |-> during[s]]
  OBVIOUS
<1>2. /\ call[s].op = "present" /\ call[s].at = "token" /\ Becomes(s, c)
      /\ tokens' = tokens \cup {tok} /\ used' = used /\ relay' = relay /\ attested' = attested
      /\ agentGrant' = agentGrant /\ ragged' = ragged
  BY <1>1, AgentGoes DEF RecordToken, At
<1>3. /\ c.op = "present" /\ c.at = "park" /\ c.row = call[s].row /\ c.saw = call[s].saw
      /\ Spends(c) /\ Spends(call[s])
  BY <1>1, <1>2 DEF Request, Spends, Presented
<1>4. /\ tok.of = call[s].row /\ tok.scope = call[s].saw[1] /\ tok.human = call[s].saw[2]
      /\ tok.during = during[s]
  BY <1>1
<1>5. AgentCall(c)
  <2>1. call[s].row \in Presentations /\ call[s].saw = <<call[s].saw[1], call[s].saw[2]>>
    <3>1. PICK d : d = call[s] /\ d.at = "token" /\ AgentCall(d)
      BY <1>2, AgentPlaces
    <3> QED
      BY <3>1 DEF AgentCall, Idle, Request
  <2> QED
    BY <1>1, <1>2, <1>3, <2>1 DEF AgentCall, Presented
<1>6. /\ call'[s] = c /\ \A t \in Slots \ {s} : call'[t] = call[t]
      /\ call' = [t \in Slots |-> call'[t]]
  BY <1>2, AgentMoves
<1>7. AgentCalls'
  <2>1. \A t \in Slots : AgentCall(call'[t])
    BY <1>5, <1>6 DEF AgentsInv, AgentCalls
  <2> QED
    BY <1>6, <2>1 DEF AgentCalls, AgentCall
<1>8. AgentsTypeOK' /\ OneChange'
  <2>1. AgentsTypeOK'
    BY <1>2 DEF AgentsInv, AgentsTypeOK
  <2> QED
    BY <1>2, <1>3, <2>1, ChangeSame
<1>9. /\ \A t \in Slots : Spends(call[t]) => NonceOf[call[t].row] \in used
      /\ \A t, v \in Slots :
           Spends(call[t]) /\ Spends(call[v]) /\ NonceOf[call[t].row] = NonceOf[call[v].row] => t = v
      /\ \A u \in tokens : NonceOf[u.of] \in used
      /\ \A t \in Slots, u \in tokens :
           Spends(call[t]) /\ NonceOf[u.of] = NonceOf[call[t].row] => call[t].at = "park"
  BY DEF AgentsInv, NoncesOnce
<1>10. \A u \in tokens : NonceOf[u.of] # NonceOf[tok.of]
  BY <1>2, <1>3, <1>4, <1>9
<1>11. \A t \in Slots : /\ Spends(call'[t]) <=> Spends(call[t])
                        /\ call'[t].row = call[t].row
  BY <1>3, <1>6
<1>12. \A t \in Slots, u \in tokens' :
         Spends(call'[t]) /\ NonceOf[u.of] = NonceOf[call'[t].row] => call'[t].at = "park"
  BY <1>2, <1>3, <1>4, <1>6, <1>9
<1>13. NoncesOnce'
  <2>1. \A u \in tokens' : NonceOf[u.of] \in used'
    BY <1>2, <1>3, <1>4, <1>9
  <2>2. \A t \in Slots : Spends(call'[t]) => NonceOf[call'[t].row] \in used'
    BY <1>2, <1>9, <1>11
  <2>3. \A t, v \in Slots :
          Spends(call'[t]) /\ Spends(call'[v]) /\ NonceOf[call'[t].row] = NonceOf[call'[v].row] => t = v
    BY <1>9, <1>11
  <2> QED
    BY <1>12, <2>1, <2>2, <2>3 DEF NoncesOnce, Spends
<1>14. ScopesGranted'
  <2>1. ASSUME NEW t \in Slots \ {s}, call[t].at \in {"person", "token"}
        PROVE  /\ during[t].granted \subseteq during'[t].granted
               /\ during[t].attested => during'[t].attested
    <3>1. call'[t].op = "present"
      BY <1>6, <2>1, AgentPlaces
    <3> QED
      BY <3>1, WatchGrows
  <2>2. \A t \in Slots \ {s} :
          /\ call[t].at \in {"person", "token"} =>
               /\ call[t].saw[1] # {}
               /\ call[t].saw[1] \subseteq NonceScope[NonceOf[call[t].row]] \cap during'[t].granted
          /\ call[t].at = "token" /\ call[t].saw[2] => during'[t].attested
    BY <2>1 DEF AgentsInv, ScopesGranted
  <2> QED
    BY <1>3, <1>6, <2>2 DEF ScopesGranted
<1>15. ParkedHaveToken'
  <2>1. tok \in tokens' /\ NonceOf[tok.of] = NonceOf[c.row]
    BY <1>2, <1>3, <1>4
  <2>2. \A t \in Slots \ {s} : call[t].at = "park" => \E u \in tokens : NonceOf[u.of] = NonceOf[call[t].row]
    BY DEF AgentsInv, ParkedHaveToken
  <2> QED
    BY <1>2, <1>6, <2>1, <2>2 DEF ParkedHaveToken
<1>16. /\ tok.scope # {} /\ tok.scope \subseteq NonceScope[NonceOf[tok.of]] \cap tok.during.granted
       /\ tok.human => tok.during.attested
  BY <1>2, <1>4 DEF AgentsInv, ScopesGranted
<1>17. TokensFollowGrant'
  <2>1. /\ \A t, u \in tokens : NonceOf[t.of] = NonceOf[u.of] => t = u
        /\ \A t \in tokens :
             /\ t.scope # {} /\ t.scope \subseteq NonceScope[NonceOf[t.of]] \cap t.during.granted
             /\ t.human => t.during.attested
        /\ \A n \in Nonces : relay[n] # "none" => \E t \in tokens : NonceOf[t.of] = n
    BY DEF AgentsInv, TokensFollowGrant
  <2>2. \A t, u \in tokens' : NonceOf[t.of] = NonceOf[u.of] => t = u
    BY <1>2, <1>10, <2>1
  <2>3. \A t \in tokens' :
          /\ t.scope # {} /\ t.scope \subseteq NonceScope[NonceOf[t.of]] \cap t.during.granted
          /\ t.human => t.during.attested
    BY <1>2, <1>16, <2>1
  <2>4. \A n \in Nonces : relay'[n] # "none" => \E t \in tokens' : NonceOf[t.of] = n
    BY <1>2, <2>1
  <2> QED
    BY <2>2, <2>3, <2>4 DEF TokensFollowGrant
<1> QED
  BY <1>7, <1>8, <1>13, <1>14, <1>15, <1>17 DEF AgentsInv

LEMMA ParkTokenInv ==
  ASSUME AgentsInv, Watch, NEW s \in Slots, ParkToken(s)
  PROVE  AgentsInv'
<1>1. PICK n : n = NonceOf[call[s].row]
  OBVIOUS
<1>2. /\ call[s].op = "present" /\ call[s].at = "park" /\ Leave(s) /\ used' = used
      /\ relay' = [relay EXCEPT ![n] = "parked"]
      /\ tokens' = tokens /\ attested' = attested
      /\ agentGrant' = agentGrant /\ ragged' = ragged
  BY <1>1 DEF ParkToken, At
<1>3. \E u \in tokens : NonceOf[u.of] = n
  BY <1>1, <1>2 DEF AgentsInv, ParkedHaveToken
<1>4. /\ relay' \in [Nonces -> {"none", "parked", "fetched"}]
      /\ \A m \in Nonces \ {n} : relay'[m] = relay[m]
  BY <1>2 DEF AgentsInv, AgentsTypeOK
<1>5. \A m \in Nonces : relay'[m] # "none" =>
        relay[m] # "none" \/ \E u \in tokens : NonceOf[u.of] = m
  BY <1>3, <1>4
<1> QED
  BY <1>2, <1>4, <1>5, AgentLeaves, PresentGoes

(* Steps of no request.                                                    *)
LEMMA FetchTokenInv ==
  ASSUME AgentsInv, Watch, call' = call, agentGrant' = agentGrant, attested' = attested,
         ragged' = ragged, used' = used, tokens' = tokens,
         \/ relay' = relay
         \/ \E n \in Nonces : relay[n] = "parked" /\ relay' = [relay EXCEPT ![n] = "fetched"]
  PROVE  AgentsInv'
<1>1. PICK s \in Slots : TRUE
  BY ServiceAssumption
<1>2. PICK c : c = call[s] /\ AgentCall(c) /\ call = [t \in Slots |-> call[t]]
  BY DEF AgentsInv, AgentCalls
<1>3. Becomes(s, c)
  BY <1>2 DEF Becomes
<1>4. /\ relay' \in [Nonces -> {"none", "parked", "fetched"}]
      /\ \A n \in Nonces : relay'[n] # "none" => relay[n] # "none"
  BY DEF AgentsInv, AgentsTypeOK
<1>5. AgentsTypeOK'
  BY <1>4 DEF AgentsInv, AgentsTypeOK
<1>6. OneChange'
  BY <1>2, <1>3, ChangeSame
<1>7. /\ c.at \in {"person", "token"} =>
           /\ c.saw[1] # {}
           /\ c.saw[1] \subseteq NonceScope[NonceOf[c.row]] \cap during'[s].granted
      /\ c.at = "token" /\ c.saw[2] => during'[s].attested
  <2>1. /\ c.at \in {"person", "token"} =>
             /\ c.saw[1] # {}
             /\ c.saw[1] \subseteq NonceScope[NonceOf[c.row]] \cap during[s].granted
        /\ c.at = "token" /\ c.saw[2] => during[s].attested
    BY <1>2 DEF AgentsInv, ScopesGranted
  <2>2. c.at \in {"person", "token"} => call'[s].op = "present"
    BY <1>2, AgentPlaces
  <2>3. c.at \in {"person", "token"} => /\ during[s].granted \subseteq during'[s].granted
                                        /\ during[s].attested => during'[s].attested
    BY <2>2, WatchGrows
  <2> QED
    BY <2>1, <2>3
<1> QED
  BY <1>2, <1>3, <1>4, <1>5, <1>6, <1>7, AgentsKept

(* Every step.                                                             *)
LEMMA AgentsStepInv == AgentsInv /\ [AgentsNext]_agentsVars => AgentsInv'
<1> SUFFICES ASSUME AgentsInv, [AgentsNext]_agentsVars PROVE AgentsInv'
  OBVIOUS
<1>1. CASE UNCHANGED agentsVars
  <2>1. UNCHANGED <<call, agentGrant, attested, used, tokens, relay, during, ragged>>
    BY <1>1 DEF agentsVars
  <2>2. AgentsTypeOK' /\ AgentCalls'
    BY <2>1 DEF AgentsInv, AgentsTypeOK, AgentCalls, AgentCall
  <2>3. NoncesOnce' /\ ParkedHaveToken'
    BY <2>1 DEF AgentsInv, NoncesOnce, Spends, ParkedHaveToken
  <2>4. ScopesGranted' /\ TokensFollowGrant'
    BY <2>1 DEF AgentsInv, ScopesGranted, TokensFollowGrant
  <2>5. OneChange'
    <3>1. Changing' = Changing
      BY <2>1 DEF Changing
    <3> QED
      BY <2>1, <3>1 DEF AgentsInv, OneChange
  <2> QED
    BY <2>2, <2>3, <2>4, <2>5 DEF AgentsInv
<1>2. ASSUME Watch, RevokeCredential \/ \E n \in Nonces : FetchToken(n) PROVE AgentsInv'
  BY <1>2, FetchTokenInv DEF RevokeCredential, FetchToken
<1>3. ASSUME Watch, NEW s \in Slots,
             \/ \E F \in SUBSET Functions \ {{}} : GrantAgent(s, F)
             \/ AttestRead(s) \/ AttestWrite(s) \/ RevokeGrant(s) \/ RevokeAttestation(s)
      PROVE  AgentsInv'
  BY <1>3, GrantAgentInv, AttestReadInv, AttestWriteInv, RevokeGrantInv
<1>4. ASSUME Watch, NEW s \in Slots,
             \/ \E p \in Presentations : PresentCall(s, p)
             \/ ConsumeNonce(s) \/ CredentialRead(s) \/ GrantRead(s) \/ PersonhoodRead(s)
             \/ RecordToken(s) \/ ParkToken(s)
      PROVE  AgentsInv'
  BY <1>4, PresentCallInv, ConsumeNonceInv, CredentialReadInv, GrantReadInv, PersonhoodReadInv,
     RecordTokenInv, ParkTokenInv
<1>5. CASE AgentsNext
  <2>1. Watch
    BY <1>5 DEF AgentsNext
  <2>2. CASE RevokeCredential \/ \E n \in Nonces : FetchToken(n)
    BY <1>2, <2>1, <2>2
  <2>3. ASSUME NEW s \in Slots,
               \/ \E F \in SUBSET Functions \ {{}} : GrantAgent(s, F)
               \/ AttestRead(s) \/ AttestWrite(s) \/ RevokeGrant(s) \/ RevokeAttestation(s)
               \/ \E p \in Presentations : PresentCall(s, p)
               \/ ConsumeNonce(s) \/ CredentialRead(s) \/ GrantRead(s) \/ PersonhoodRead(s)
               \/ RecordToken(s) \/ ParkToken(s)
        PROVE  AgentsInv'
    BY <1>3, <1>4, <2>1, <2>3
  <2>4. ASSUME NEW s \in Slots,
               /\ Dies(s)
               /\ ragged' = (ragged \/ s \in Changing)
               /\ UNCHANGED <<agentGrant, attested, credential, used, tokens, relay>>
        PROVE  AgentsInv'
    BY <2>1, <2>4, AgentDiesInv
  <2> QED
    BY <1>5, <2>2, <2>3, <2>4, Zenon DEF AgentsNext
<1> QED
  BY <1>1, <1>5

LEMMA AgentsInvHolds == AgentsInv => TokensFollowGrant /\ AttestedWhileGranted
BY DEF AgentsInv, OneChange, AttestedWhileGranted
=============================================================================
