----------------------------- MODULE MCProducts -----------------------------
(***************************************************************************)
(* Small instances of the products, on accounts that are named by their    *)
(* opening balance: a3 and b3 have 3 minor units or asset units, n1 none.  *)
(* Where a property is stated of every part, its accounts are not shared   *)
(* with a part that could overdraw them.                                   *)
(***************************************************************************)
EXTENDS Products, TLC

CONSTANTS s1, s2, k1, k2, k3, k4, x1, x2, x3, d1, d2, u1

MCOpening ==
  [a1 |-> 1, b1 |-> 1, a2 |-> 2, b2 |-> 2, a3 |-> 3, b3 |-> 3, a4 |-> 4, a5 |-> 5,
   a7 |-> 7, edition |-> 2, claimed |-> 0,
   n1 |-> 0, n2 |-> 0, n3 |-> 0, n4 |-> 0, n5 |-> 0]
MCAccounts == DOMAIN MCOpening

All(S, v) == [x \in S |-> v]

(* Lending: two repayments of one loan.                                    *)
MCRepayAmount == (k1 :> 2) @@ (k2 :> 1)
MCRepayLoan == All({k1, k2}, k3)
MCBorrowed == All({k3}, 2)
MCWorth == All({k3}, 3)

(* Rails: a sale of crypto and a purchase, a deposit and a payout.         *)
MCRailOf == (k1 :> "deposit") @@ (k2 :> "payout") @@ (k3 :> "onramp") @@ (k4 :> "offramp")
MCRailAmount == All(RailKeys, 2)
MCRailFee == [k \in RailKeys |-> IF RailOf[k] = "onramp" THEN 1 ELSE 0]
MCMaxOrders == [k \in RailKeys |-> IF RailOf[k] = "onramp" THEN 2 ELSE 1]

(* Payment requests: one, open to two payers.                              *)
MCAsked == All({k1}, {"a1", "b1"})
MCAskAmount == All({k1}, 1)

(* The primary market: every operation, and two subscriptions.             *)
MCMarketOp ==
  [sub1 |-> "subscribe", sub2 |-> "subscribe", buy |-> "buy", sell |-> "sell",
   del |-> "deliver", xfer |-> "transfer", red |-> "redeem"]
MCMarketKeys == DOMAIN MCMarketOp
MCMarketQty == [k \in MCMarketKeys |-> IF k \in {"buy", "sub1"} THEN 1 ELSE 2]
MCMarketFee == All(MCMarketKeys, 1)

(* A raise: one investment that reaches the target and one that does not.  *)
MCInvestUnits == (k1 :> 1) @@ (k2 :> 2)

(* The order book: a buyer of two, sellers of one and of two.              *)
MCBookSide == (k1 :> "buy") @@ (k2 :> "sell") @@ (k3 :> "sell")
MCBookQty == (k1 :> 2) @@ (k2 :> 1) @@ (k3 :> 2)
MCLimit == (k1 :> 2) @@ (k2 :> 1) @@ (k3 :> 2)
MCTraderCash == (k1 :> "a4") @@ (k2 :> "n1") @@ (k3 :> "n2")
MCTraderUnits == (k1 :> "n3") @@ (k2 :> "a2") @@ (k3 :> "b2")

(* Brokerage: two purchases and a sale.                                    *)
MCTradeSide == (k1 :> "buy") @@ (k2 :> "buy") @@ (k3 :> "sell")

(* Exchange: two conversions and a cross-border send.                      *)
MCSwapKind == (k1 :> "convert") @@ (k2 :> "send") @@ (k3 :> "convert")

(* A teen: three purchases at the limit, one of which rounds up.           *)
MCBuyAmount == All(Buys, 1)
MCSpareChange == [k \in Buys |-> IF k = x3 THEN 1 ELSE 0]

(* A credit builder: charges that fill the secured limit.                  *)
MCChargeAmount == (k1 :> 1) @@ (k2 :> 2)

(* Operations: an R2 workflow, a supervised one and a CEO-gated one.       *)
MCRegime == [support |-> "R2", kyc |-> "R3", filing |-> "R3"]
MCRoleOf == [a |-> "admin", c |-> "compliance", x |-> "ceo"]

(* Onboarding: signals that ask for both steps, and one very weak signal.  *)
MCAssessments ==
  {[confidence |-> 18, required |-> {"document", "possession"}, weak |-> FALSE],
   [confidence |-> 18, required |-> {}, weak |-> TRUE]}

(* Equity: a grant of units and one of options, exercised twice.           *)
MCAwardType == (k1 :> "units") @@ (k2 :> "option")
MCUnitsTotal == All({k1, k2}, 2)
MCExerciseGrant == All({k3, k4}, k2)
MCExerciseQty == All({k3, k4}, 1)

(* Yield: who holds units redeems one while another subscribes to one.     *)
MCHolderUnits == (k1 :> "a2") @@ (k2 :> "n1")
MCHolderCash == (k1 :> "n2") @@ (k2 :> "a1")
MCSubscriptionOf == (k1 :> <<"redeem", k1, 1>>) @@ (k2 :> <<"subscribe", k2, 1>>)

(* Savings: two deposits into a goal and a withdrawal; interest on both    *)
(* products.                                                               *)
MCSaveOp == (x1 :> "deposit") @@ (x2 :> "deposit") @@ (k3 :> "withdraw")
MCProduct == All({x1, x2, k3}, "starter")
MCSaverCash == [starter |-> "b1", borderless |-> "n3"]
MCPot == [starter |-> "n1", borderless |-> "b2"]

(* Agents: two presentations of one nonce.                                 *)
MCNonceOf == All({x1, x2}, k3)
MCNonceScope == All({k3}, {"read", "pay"})

(* Wallets: ann pays bob, by his user id and by his address.               *)
MCBook == [ann |-> "a2", bob |-> "n1", op |-> "n3"]
MCSendOf == (k1 :> "custodial") @@ (k2 :> "built")
MCSendFrom == All({k1, k2}, "ann")
MCSendTo == All({k1, k2}, "bob")
MCSendMicro == All({k1, k2}, 1)
MCOtherTransfers == {[amount |-> 2, to |-> "bob"]}

(* The fraud engine: an asynchronous event and one whose caller waits; a   *)
(* candidate that may become prod or a canary.                             *)
MCMode == (d1 :> "async") @@ (d2 :> "score")
MCUserOf == All({d1, d2}, u1)
MCBucket == All({u1}, All({"rules-v1", "candidate"}, 1))
MCPromotions == {<<"candidate", "prod", 0>>, <<"candidate", "canary", 2>>}

(* Bound: the search does not go on from a second contested order.         *)
OneContested == Cardinality(contested) <= 1

(* Bound: nor from three rows of onboarding when a tier is raised past the *)
(* orchestrator.                                                           *)
RaisedEarly ==
  \/ \E s \in Slots : call[s].op \in KycCallers
  \/ grant # None /\ grant.by = "simulated"
  => RowCount <= 2

(* Bound: nor from a teen's third request to the guardian.                 *)
TwoRequests == Cardinality({k \in Buys : asked[k].request # "none"}) <= 2

(* Bound: nor from a fourth row of the rails.                              *)
ThreeRails == Cardinality({k \in RailKeys : rail[k].status # "none"}) <= 3

(* The requests are alike, and so are x1 and x2 wherever they are used.    *)
Symmetry == Permutations(Slots) \cup Permutations({x1, x2})
=============================================================================
