------------------------------ MODULE Products ------------------------------
(***************************************************************************)
(* The products and processes around the core, side by side in one state:  *)
(* they share the ledger and the requests, and nothing else of each other. *)
(*                                                                         *)
(* running is the one whose requests are served: two products meet only in *)
(* a balance, which each of them is checked with from what Opening gives.  *)
(***************************************************************************)
EXTENDS
  Lending, Rails, BillPay, Market, Drops, Raise, OrderBook,
  Trading, Exchange, TeenSpend, CreditBuilder, Operations, Onboarding, Journeys,
  Equity, Yield, Savings, Listings, Agents, Wallets, FraudEngine, DbPool

VARIABLE running

productsVars ==
  <<running, lendingVars, railVars, billVars, askVars, marketVars, dropVars, raiseVars,
    bookVars, tradingVars, exchangeVars, teenVars, creditVars, operationsVars,
    onboardingVars, journeyVars, equityVars, yieldVars, savingsVars, listingsVars,
    agentsVars, walletVars, fraudVars, poolVars>>

ProductsInit ==
  /\ running \in {"lending", "rails", "bills", "requests", "market", "drops", "raise", "book",
                  "trading", "exchange", "teen", "credit", "operations", "onboarding",
                  "journeys", "equity", "yield", "savings", "listings", "agents",
                  "wallets", "fraud", "holds", "pool"}
  /\ LendingInit /\ RailsInit /\ BillPayInit /\ PaymentRequestsInit
  /\ MarketInit /\ DropsInit /\ RaiseInit /\ OrderBookInit
  /\ TradingInit /\ ExchangeInit /\ TeenSpendInit /\ CreditInit
  /\ OperationsInit /\ OnboardingInit /\ JourneyInit
  /\ EquityInit /\ YieldInit /\ SavingsInit /\ ListingsInit /\ AgentsInit
  /\ WalletsInit /\ FraudInit /\ DbPoolInit

-----------------------------------------------------------------------------
(* The tables of the others stay as they are.                              *)
Others ==
  /\ UNCHANGED running
  /\ IF running = "lending" THEN TRUE ELSE UNCHANGED loan
  /\ IF running = "rails" THEN TRUE ELSE UNCHANGED <<rail, history, orders>>
  /\ IF running = "bills" THEN TRUE ELSE UNCHANGED <<bill, payouts, paidRows>>
  /\ IF running = "requests" THEN TRUE ELSE UNCHANGED <<ask, aged>>
  /\ IF running = "market" THEN TRUE ELSE UNCHANGED <<order, redemptions>>
  /\ IF running = "drops" THEN TRUE ELSE UNCHANGED <<drop, claim>>
  /\ IF running = "raise" THEN TRUE ELSE UNCHANGED <<offering, investment, late, torn>>
  /\ IF running = "book" THEN TRUE ELSE UNCHANGED <<book, placed, trades, contested>>
  /\ IF running = "trading" THEN TRUE ELSE UNCHANGED <<trade, settling, fills, lost>>
  /\ IF running = "exchange" THEN TRUE ELSE UNCHANGED <<swap, clouded>>
  /\ IF running = "teen" THEN TRUE ELSE UNCHANGED <<allowed, asked>>
  /\ IF running = "credit" THEN TRUE ELSE UNCHANGED <<secured, limit, opens, charged, statement, reported>>
  /\ IF running = "operations" THEN TRUE ELSE UNCHANGED <<skill, review, executed, trail, contended>>
  /\ IF running = "onboarding" THEN TRUE ELSE UNCHANGED <<session, grant, disturbed>>
  /\ IF running = "journeys" THEN TRUE ELSE UNCHANGED <<journey, steps, shared>>
  /\ IF running = "equity" THEN TRUE ELSE UNCHANGED <<released, month, muddled>>
  /\ IF running = "yield" THEN TRUE ELSE UNCHANGED <<declared, accrued, held>>
  /\ IF running = "savings" THEN TRUE ELSE UNCHANGED <<allocated, locked, answered, accrual, uneven>>
  /\ IF running = "listings" THEN TRUE ELSE UNCHANGED <<asset, versions, submission, split>>
  /\ IF running = "agents" THEN TRUE ELSE
       UNCHANGED <<agentGrant, attested, credential, used, tokens, relay, during, ragged>>
  /\ IF running = "wallets" THEN TRUE ELSE
       UNCHANGED <<onChain, legs, others, build, answers, latest, strayed, deposited>>
  /\ IF running = "fraud" THEN TRUE ELSE UNCHANGED engineVars
  /\ IF running \in {"fraud", "holds"} THEN TRUE ELSE UNCHANGED holdsVars
  /\ IF running = "pool" THEN TRUE ELSE UNCHANGED poolVars
  /\ IF running \in {"holds", "pool"} THEN UNCHANGED <<journals, bal, call>> ELSE TRUE

ProductsNext ==
  \/ running = "lending" /\ LendingNext /\ Others
  \/ running = "rails" /\ RailsNext /\ Others
  \/ running = "bills" /\ BillPayNext /\ Others
  \/ running = "requests" /\ PaymentRequestsNext /\ Others
  \/ running = "market" /\ MarketNext /\ Others
  \/ running = "drops" /\ DropsNext /\ Others
  \/ running = "raise" /\ RaiseNext /\ Others
  \/ running = "book" /\ OrderBookNext /\ Others
  \/ running = "trading" /\ TradingNext /\ Others
  \/ running = "exchange" /\ ExchangeNext /\ Others
  \/ running = "teen" /\ TeenSpendNext /\ Others
  \/ running = "credit" /\ CreditNext /\ Others
  \/ running = "operations" /\ OperationsNext /\ Others
  \/ running = "onboarding" /\ OnboardingNext /\ Others
  \/ running = "journeys" /\ JourneyNext /\ Others
  \/ running = "equity" /\ EquityNext /\ Others
  \/ running = "yield" /\ YieldNext /\ Others
  \/ running = "savings" /\ SavingsNext /\ Others
  \/ running = "listings" /\ ListingsNext /\ Others
  \/ running = "agents" /\ AgentsNext /\ Others
  \/ running = "wallets" /\ WalletsNext /\ Others
  \/ running = "fraud" /\ FraudNext /\ Others
  \/ running = "holds" /\ HoldsNext /\ Others
  \/ running = "pool" /\ DbPoolNext /\ Others

ProductsSpec == ProductsInit /\ [][ProductsNext]_productsVars

-----------------------------------------------------------------------------
(* Correctness: what each module says of its part, while that part runs    *)

(* A loan shows no less than what is owed, and closes when it is paid.     *)
(* (lendingService.ts:195, 205, 234-250, 291-308).                         *)
LoanBooksHold == running = "lending" => DebtNeverForgiven /\ LoanClosesPaid

(* Ledger and rows say what the payment providers did, retries, webhooks   *)
(* and returns included (onRampService.ts:170, 201, 228, offRampService.ts:*)
(* 170-201, bankRailService.ts:118-128, 160-181, 201-202), and ledger and  *)
(* chain differ for a reason that reconciliation finds and gates           *)
(* (hederaService.ts:337-374, 482-533, reconciliationService.ts:164-239).  *)
RailsTellTruth ==
  /\ running = "rails" => LedgerFollowsProvider /\ RailRowsBacked /\ OverdrawnByReturnsOnly
  /\ running = "wallets" => JournalsHaveLegs /\ DriftHasCause /\ RunTellsDrift /\ GateStopsSends

(* Subscriptions are backed, stock and units are not sold twice            *)
(* (marketplaceService.ts:259, 321, 387, 436-449, redemptionService.ts:86),*)
(* a listing's history follows its diagram, a slab has one asset           *)
(* (listingService.ts:108-181, sellerCollectibleService.ts:183-272), and   *)
(* an employee's units follow vesting (equityCompService.ts:178-240).      *)
StockAndEscrowHold ==
  /\ running = "market" => SubscriptionsInEscrow /\ UnitsShortByRedemptions
  /\ running = "listings" => VersionsFollowDiagram /\ OneAssetPerSlab
  /\ running = "equity" => UnitsFollowVesting

(* Trades keep to the limits and the escrow backs the book                 *)
(* (secondaryMarketService.ts:119-176, 187-207).                           *)
BookHolds == running = "book" => TradesWithinLimits /\ EscrowBacksBook

(* Accepted orders are settled once or wait (tradingService.ts:212-347).   *)
SettlementSound ==
  running = "trading" => NoOrderMislaid /\ FillsMatchJournals /\ OverdrawnByOverlap

(* Conversions tell their rate and spend what there is                     *)
(* (fxSettlementService.ts:80-131, crossBorderService.ts:72-109), and      *)
(* holders are paid once for what they held, deposits redeemed for what    *)
(* is there (corporateActionService.ts:100-142, tokenizedDepositService.ts:*)
(* 80-106).                                                                *)
ExchangeSound ==
  /\ running = "exchange" => RowsTellTheRate /\ OverspentByOverlap
  /\ running = "yield" => PaidOnceForHoldings /\ DepositNeverOverdrawn

(* A teen's spending keeps to the allowance and the cash, but for what     *)
(* overlaps (teenSpendService.ts:197-248, cardService.ts:153, 177), and    *)
(* the bureau hears what was paid (creditBuilderService.ts:123-256); a     *)
(* goal shows its savings and a day's interest is paid once                *)
(* (savingsGoalService.ts:107-208, interestAccrualService.ts:27-86).       *)
StarterHolds ==
  /\ running = "teen" => AllowanceHolds /\ TeenShortByRoundUps
  /\ running = "credit" => ReportsArePaid /\ OwedIsCharged
  /\ running = "savings" => GoalTellsSavings /\ InterestOncePerDay

(* A tier is raised on evidence, and nobody waits for nothing              *)
(* (riskOrchestratorService.ts:136-165, 257-284, 313-316, 377-390); an     *)
(* agent's token has what was granted while it was presented               *)
(* (presentationService.ts:198-302, userAgentGrantService.ts:74-163); and  *)
(* the fraud engine decides by promoted models, freezes with a case and    *)
(* sees every decision in its features (router.ts:106-162,                 *)
(* remediationService.ts:33-60, featureStore.ts:85-139).                   *)
OnboardingSound ==
  /\ running = "onboarding" => GrantsNeedEvidence /\ WaitingHasStep
  /\ running = "agents" => TokensFollowGrant /\ AttestedWhileGranted
  /\ running = "fraud" => /\ ShadowsOnlyWatch /\ HoldsHaveCases
                          /\ FreezesArrive /\ FeaturesCountDecisions
=============================================================================
