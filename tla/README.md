# A TLA+ model of the Goemon backend

Goemon is a bank-like application: a TypeScript backend (`src/backend/src`, about 36,000 lines) with
cash accounts, cards, escrow, merchant payments, trading, lending and collectibles; a fraud engine; web,
iOS and Android clients; and infrastructure code. Everything that can lose somebody's money, or decide
about a person, is in the backend's services over one database. This project models those services, checks
them with TLC on small instances, and proves what it can for every instance with TLAPS.

Paths below are relative to `src/backend/src` unless they start with `src/`.

## 1. Inventory of the system

| Component | State it keeps | Operations | Talks to | What is hard | Module |
|---|---|---|---|---|---|
| Ledger (`services/ledgerService.ts`) | `ledger_accounts`, `ledger_journals` (unique key), `ledger_entries` | `postJournal`, `getBalance`, get-or-create of accounts | everything with money | idempotency of journals | `Ledger` |
| Database (`db/index.ts`) | a pool of connections | `transaction`, `query` | every service | aborts are not retried; the pool has a limit and no timeout, and an audit entry takes a second connection | `DbPool` |
| Escrow and disputes (`services/escrowService.ts`) | `escrow_payments`, `escrow_events` | hold, release, refund, openDispute, resolveDispute | ledger, Hedera custody | a network leg between the status read and the transaction | `Escrow` |
| Goemon Pay (`services/paymentService.ts`) | `payment_intents`, `payment_events` | create, pay, capture, refund, dispute, cancel, lazy expiry | escrow; freeze; kill-switch | two tables, one state machine; racing payers; the escrow routes go past it | `GoemonPay` |
| Account holds (`services/accountHoldService.ts`) | append-only `account_holds` | place, release, isAccountFrozen | fraud engine callbacks, guardians, compliance skill | retried and concurrent callbacks, nothing unique | `AccountHolds` |
| Transfers (`services/transferService.ts`, `middleware/idempotency.ts`, `money/*`) | `transactions`, `idempotency_keys`, Temporal workflows | POST /transfer, workflow, activity | ledger, freeze, fraud screen, Temporal | retries, late attempts, fallback to the direct path, lost answers | `Transfers` |
| Cards (`services/cardService.ts`) | `cards`, `card_authorizations`, `card_rewards` | authorize, capture, void, refund, cashback | ledger, teen limits, fraud screen | journal and status in separate statements | `Cards` |
| Collectible purchases (`services/collectiblePurchaseService.ts`) | `collectible_purchases`, listing status | buy, ship, confirm, cancel, dispute, sync after resolution | escrow, treasury delivery, listings | reads first, writes last, no tests in the writes | `Purchases` |
| Lending (`services/lendingService.ts`) | `loans` | open, accrue, repay, liquidate | ledger | absolute values computed from an old read | `Lending` |
| On-ramp, off-ramp, bank rails | provider orders, bank transfers | create, complete, deposit, withdraw, return | providers, ledger | callbacks twice or late; a provider call inside a transaction | `Rails` |
| Bill pay | bills and their schedule | pay, cancel, run what is due | bank, ledger | two schedulers, a cancel, and a status never tested again | `BillPay` |
| Payment requests | `payment_requests` | fulfil, decline, cancel, expiry | transfers | money and status in two steps | `BillPay` |
| Primary market (`services/marketplaceService.ts`, `redemptionService.ts`) | orders, subscriptions, redemptions | subscribe, close, refund, order, transfer, redeem | ledger in cash and in units | stock and cash shared by callers | `Market` |
| Creator drops (`services/creatorDropService.ts`) | drops, claims | claim | ledger | the count that is read first and raised last | `Drops` |
| Issuance and listings (`tokenizationService.ts`, `listingService.ts`, `issuanceService.ts`, `sellerCollectibleService.ts`) | assets, append-only listing versions, submissions | create, mint, list, publish, delist, approve, reject | ledger | five statements of one approval | `Listings` |
| Secondary market (`services/secondaryMarketService.ts`) | order book | place, match, cancel | ledger | two takers of one order, overwritten rows | `OrderBook` |
| Trading (`services/tradingService.ts`) | orders, fills, a queue in memory | place, settlement loop | broker, ledger | overlapping drains, restarts | `Trading` |
| Capital raise (`services/capitalRaiseService.ts`) | offerings, investments | invest, close, cancel | ledger | closing while investing | `Raise` |
| Equity compensation (`services/equityCompService.ts`) | grants | vest and release, exercise | ledger | a key taken from what is vested, a count written back | `Equity` |
| Treasury, corporate actions, tokenized deposits | actions, payouts, subscriptions | subscribe, redeem, accrue yield, dividend | ledger | holders change while they are paid | `Yield` |
| FX and cross-border (`fxSettlementService.ts`, `crossBorderService.ts`) | conversions, sends | convert, send | rate provider, ledger | the rate of the row and the rate of the journal | `Exchange` |
| Teens (`teenSpendService.ts`) | policy, approval requests | gate, authorize, round up, approve, deny | cards, savings | a limit on a sum that is read before | `TeenSpend` |
| Credit builder (`creditBuilderService.ts`) | secured lines, statements, reports | charge, close a period, pay, report | ledger | lost updates | `CreditBuilder` |
| Savings (`savingsGoalService.ts`, `savingsProductService.ts`, `interestAccrualService.ts`) | goals, deposits, accruals | deposit with match, withdraw, accrue | ledger | a retry after half of a deposit | `Savings` |
| Operations engine (`operations/*`, `integrations/mechGovService.ts`) | runs, reviews, trail | run, govern, review | agents, administrators | two reviewers, repeated tasks | `Operations` |
| Onboarding (`services/riskOrchestratorService.ts`) | sessions, agent runs, tier | start, submit, decide, review | agents, administrators | read-decide-write without a lock | `Onboarding` |
| Journeys (`journeys/journeyRunner.ts`) | runs with a context | start, submit, review | step handlers | two submissions on two copies | `Journeys` |
| Agents' access (`userAgentGrantService.ts`, `agentPersonhoodService.ts`, `presentationService.ts`, `routes/present.ts`) | grants, attestations, credentials, nonces, tokens | grant, revoke, present, relay | signatures | checks one by one while they change | `Agents` |
| Hedera rail (`services/hederaService.ts` and signers) | the chain, `hedera_transfer_builds` | custody legs, sends, build and submit | escrow, ledger | executed legs that no transaction records | `Wallets`; custody legs in `Escrow` |
| Reconciliation (`services/reconciliationService.ts`) | `reconciliation_runs` | run, gate | ledger, chain, sends | ledger and chain are read at different moments | `Wallets` |
| Fraud engine (`src/fraud-engine/src`) | model registry, decisions, features, cases | score, ingest, remediate, promote, retrain | holds, by callbacks | an in-process bus; callbacks that fail are forgotten; backends in memory | `FraudEngine` |
| Fraud screening (`services/fraudService.ts`, `decisionGraphService.ts`) | - | screen | fraud engine | scores are external data | its refusals, in the callers |
| Audit (`services/auditService.ts`) | `audit_log` | log | everything | audit rows outlive aborted transactions | in `DbPool` |
| Accounts, auth, content, clients, infrastructure | - | - | - | no bookkeeping of their own | - |

How they interact. A route handler runs on one Node event loop and calls services; services call each
other directly and share the database. Every process runs many handlers at once, and there are several
processes, so every `await` is a place where another request can act. Money moves in one way only:
`postJournal` in a transaction. External parties (Temporal, Hedera, the card processor, payment providers, the
broker, the fraud engine) retry their calls and may answer late.

What makes a component correct, in one line each:
- **escrow**: money enters custody once, leaves once, whole, to the party its row names, in every race;
- **payments**: an intent that says paid is protected by its payer's escrow; a closed one is not charged;
- **holds**: the append-only log tells who is frozen, up to what concurrency can disturb;
- **transfers**: a key moves money once, a success that anybody is told of has moved it, the history is
  the ledger, a retry learns of the success;
- **cards**: no overdraft, a status is not ahead of its money, a void comes back, a capture completes;
- **purchases**: the asset follows the payment, the status follows the escrow, a unit is delivered once;
- **lending**: an open loan never shows less than what is missing; collateral returns for payment only;
- **rails, bills, requests**: the ledger moves no more than the provider did; what was charged is not charged
  again; a request is closed once;
- **markets**: escrow backs what is open, limits are kept, stock is sold once, up to what overlaps;
- **raises, equity, yield**: the issuer is paid only on target, an employee has what is vested, a holder is paid
  once for what was held;
- **teens, credit, savings**: limits hold but for what overlaps, the bureau hears the truth, a goal shows its
  savings;
- **operations, onboarding, journeys, agents**: people decide what is theirs, a tier needs evidence, an outcome
  follows from its context, a token from its grant;
- **wallets, reconciliation**: the ledger does not run ahead of the chain, drift has a cause, found drift stops sends;
- **fraud engine**: shadow models only watch, a hold has its case, a freeze arrives unless its call failed;
- **database**: whoever waits for a connection can get one.

`PROJECT.json` lists all components with their files and, under `hazards`, each place where this code is
hard to test.

## 2. Modules

| Module | Models | Extends |
|---|---|---|
| `Ledger` | `postJournal`, balances | |
| `EscrowPromise` | abstract: what an escrow promises | |
| `Escrow` | `escrowService.ts` with its Hedera legs; implements `EscrowPromise` | `Ledger` |
| `GoemonPay` | `paymentService.ts` and the escrow routes beside it | `Escrow` |
| `Purchases` | `collectiblePurchaseService.ts`, the escrow routes, the administrator's resolution | `Escrow` |
| `Transfers` | the transfer route, its idempotency middleware, workflow, activity and `transferService.ts` | `Ledger` |
| `Cards` | `cardService.ts` | `Ledger` |
| `AccountHolds` | `accountHoldService.ts` | |
| `DbPool` | `transaction()` over the pool, with `auditService.ts` inside | |
| `Service` | what the smaller services share: a slot per request, and its death | `Ledger` |
| `Lending`, `Rails`, `BillPay`, `Market`, `Drops`, `Raise`, `OrderBook`, `Trading`, `Exchange`, `TeenSpend`, `CreditBuilder`, `Operations`, `Onboarding`, `Journeys`, `Equity`, `Yield`, `Savings`, `Listings`, `Agents`, `Wallets` | the services of the inventory's last column | `Service` |
| `FraudEngine` | the fraud engine, with its callbacks into the holds | `Service`, `AccountHolds` |
| `Products` | those with `DbPool`, in one state | all of them |
| `Ledger_proofs`, `Transfers_proofs`, `Cards_proofs` | lemmas and theorems | the module of that name |
| `Escrow_proofs` | the escrow, then payments and purchases on top of it | `Escrow`, `GoemonPay`, `Purchases` |
| `Rails_proofs` | what all services need of a table of requests; then `Rails`, `Wallets`, `DbPool`, `AccountHolds`, `Operations` | these, `Ledger_proofs` |
| `Services_proofs` | `BillPay`, `Journeys`, `Exchange`, `Yield`, `Drops`, `Raise`, `Trading`, `Lending`, `OrderBook` | these, `Rails_proofs` |
| `Offers_proofs` | `Market`, `Equity`, `Listings`, `TeenSpend`, `CreditBuilder`, `Savings`, `Onboarding`, `Agents` | these, `Rails_proofs` |
| `Products_proofs` | `FraudEngine`; then what is proved of a service alone, carried over to the composition | `Products`, `Services_proofs`, `Offers_proofs` |
| `MC...` | the constants of the instances that TLC checks | the module of that name |

`GoemonPay` and `Purchases` are compositions: they extend the variables and actions of `Escrow`, and their
requests make their calls into it in the same slot. That `GoemonPay` only ever takes escrow steps is
proved (`PayImplementsEscrow`), and carries the escrow theorems over. `Purchases` takes one
step that is not an escrow step, the delivery of the asset; it keeps the escrow's promise
(`PurchasesKeepPromise`).

`Products` puts the services around the core side by side: one ledger, one set of slots, one `running` that
says whose requests are served. Two of these services meet only in a balance, and each is checked with an
opening balance that its requests cannot all be paid from, so that serving them together would multiply states
without adding a case. A property of `Products` says, for the service it names (`running = "..."` where it is one of several), the
properties its module states.

Definitions named as faulty in a comment (`HoldPostUnchecked`, `PaidAsHeld`, ...) are no part of a
specification. Each is a plausible mistake in one definition; with it in the place of that definition the
property it was written for is violated, so the property depends on the code being as it is.

### State and actions against the code

**Cutting a request into steps.** A request (a handler, a workflow's attempt) has a slot; the variable
`req`, `run` or `call` holds where it is and what it has read. It is cut at each `await` that another request
can be seen through. What is one step:
- a serializable transaction with everything in it (`db/index.ts:71-86`: BEGIN ISOLATION LEVEL SERIALIZABLE,
  COMMIT or ROLLBACK, the error thrown on). An abort ends the request (`Fail`, `Dies`), as there is no retry;
- one statement outside a transaction (a SELECT, an UPDATE with its WHERE);
- a network call, from its request to its receipt.

Reads that nothing is decided on are merged with the step that follows. Postgres is the database that is
modelled; SQLite, used in development, serialises everything on one connection (`db/index.ts:113-124`).
A call that a gate refuses before it has changed anything (a switch, a validation, an eligibility) is a call not made.

**History variables** (`contested`, `contended`, `torn`, `late`, `opens`, `lost`, `clouded`, `disturbed`, `shared`, `muddled`, `uneven`,
`split`, `ragged`, `held`, `during`, `byDecision`) record that two requests about one row overlapped or that one died, or what was true
meanwhile. No action reads them. A property that holds only without overlaps says so by them: what the code keeps when left
alone, through every legal sequence, is checked, and the README says what it loses otherwise.

**`Ledger`.** `journals` is `ledger_journals` with each journal's net effect on the accounts; `bal` what
`getBalance` sums. `PostJournal` returns the existing journal when the key is known (`ledgerService.ts:61-107`)
and is always used inside the transaction of its caller. Which accounts exist is a constant.

**`Escrow`.** `escrow[k]` is the row with idempotency key `k`, `log[k]` its events, `chainIn`/`chainOut` the
legs that the chain has executed, `req` the calls. `hold()` is `HoldCall` (look-up), `HoldFunds` (pre-check),
`HoldLeg` (network), `HoldCommit` (transaction); `settle()`, behind four operations, is `SettleCall`,
`SettleLeg`, `SettleCommit`; `openDispute()` is one transaction. `Fail` ends a request between any two steps and
leaves an executed leg behind.

**`GoemonPay`.** `intent`, `plog` are the two tables; `payEnabled`, `frozen` and `late` are the kill-switch, the
freeze and the clock, which may change at any time. `payIntent` is `PayCall`, `PayRead`, `PayExpire` or
`PayHold`, the escrow's own steps, then `PayLost` or `PayMark`, and `LogEvent`. Capture, refund, dispute and
cancel follow their code in the same way. `EscrowRoute` and `DisputeRoute` are the routes that bypass the intent.

Two things every instance takes for granted of its keys: one key stands for one amount (a repeated hold is answered with
the row that exists, so a different amount never reaches the ledger), and the keys of payments and purchases
(`pay:intent:<id>`, `collectible:purchase:<key>`) are used by their own service only.

**`AccountHolds`.** `account_holds` is abstracted to the three counts the code asks of it. `Place` and `Release`
read, `PlaceInsert` and `ReleaseInsert` write. Its callers are the actions of `FraudEngine`: the bus's consumer and analysts.

**`Transfers`.** A request `r` is what a client sends, as often as it likes. `Receive`, `Confirm`, `Store`,
`Refuse` are the middleware; `Enter`, `Screen`, `Commit` are `transfer()`; `StartFlow`, `AwaitFlow`,
`Unreachable`, `ConnectionLost` the money engine; `Attempt`, `Report`, `GiveUp` Temporal as the workflow's options
configure it (start to close 30 s, a limit on attempts). An attempt whose time is over is not stopped: the next
begins beside it, and its result is ignored (`Current`). A workflow id that is running is joined, an ended one may be
started again.

**`Cards`.** `authorize` is `AuthorizeCall`, `AuthorizeCommit`; capture, void and refund share `SettleCall`
(status read), `SettlePost` (journal), `SettleMark` (status), with `CashbackPost` and `RewardInsert` after a
capture.

**`Purchases`.** One asset, its listing and its treasury. Each operation reads the purchase's status, calls the
escrow, delivers or not, and writes status and listing in statements that test nothing. `Resolve` is the
administrator's route: the escrow's resolution, then `Sync`.

**`DbPool`.** `tx[t]` says where a transaction is, `free` and `queue` are pg's pool. `Connect` takes a connection
or waits in the queue; `LogAudit` asks for another while the first is held, because `logAudit` writes through
`getDb()` and not through its caller's transaction (`services/auditService.ts:36`); `AuditInsert`, `Commit`, `Rollback`
give back. The audit entry of a transaction that is rolled back stays.

**`Service` and the modules over it.** `call[s]` is the request in slot `s`: operation, position, row, and what it
saw. In each module an operation is a `...Call` that looks its row up, then one action per statement:

- *`Lending`*: `loan` is the row. `RepayPost` posts, `RepayRelease` returns the collateral, `RepayUpdate` writes
  principal and interest computed from `RepayCall`'s read; accrual and liquidation write the same columns.
- *`Rails`*: `rail`, `history`, `orders` are the row, its transactions, the provider's orders. Money in is
  `ProviderIn`, `CreditIn`, `InsertIn`, `RecordIn`, or a webhook (`WebhookCredit`, `WebhookMark`); money out is one
  transaction with the provider in its middle (`ProviderOut`, `CommitOut`), which may abort after it.
- *`BillPay`*: `PayBill`, or `Due` of any scheduler; `SendPayout` asks the bank, `SendCommit` posts and marks, `SendNext`
  inserts the next instance, `MarkFailed` writes when something threw. The module also has the payment requests
  (`paymentRequestService.ts`), with a specification of their own: `Fulfill`, `AskTransfer` (the direct path of `Transfers` in one step), `AskUpdate`; `Decline`,
  `CancelAsk`, and the clock `Age`.
- *`Market`*: every order is `OrderCall` and one transaction; only a redemption is `RedeemCall`, `RedeemPost`,
  `RedeemInsert`.
- *`Drops`*: the steps of `claimDrop`, each of which trusts the row read first.
- *`Raise`*: `InvestCall`, `InvestPost`, `InvestInsert`; a close or a cancel lists the committed rows once and goes
  through them (`OutcomePost`, `OutcomeMark`, `OutcomeDone`). Any number of them may be at work at once, and die anywhere
  (`RaiseDies`). `late` has the investments that were inserted behind a closing's reading; `torn` is set when two closings are at
  work at once or one dies with money moved.
- *`OrderBook`*: `PlaceCall`, `PlaceEscrow`, `BookInsert`, `MatchRead`, then per maker `FillPost`, `FillTrade`,
  `MakerUpdate`, `TakerUpdate`; `CancelBook`, `CancelRefund`, `CancelMark`. A request may die anywhere, after any overlap and after
  any other death (`BookDies`). `contested` has the orders that two requests had in hand at once (`InHand`: its own, and the makers
  that it has yet to go through), and those that a request died over half-way (`HalfDone`).
- *`Trading`*: `settling` is the queue in memory. `TakeTrade`, `Executed` with the broker's answer, `PostTrade`,
  `RecordFill`, `MarkTrade`, or `Defer`; `TradeThrows` and `Restart` lose what they held.
- *`Exchange`*: `Swap` quotes, `SwapPost` posts, `SwapRow` inserts with the rate that was quoted to *this* call.
- *`TeenSpend`*: the gate's read is `TeenCall`; `TeenAuthorize` is the card's transaction with the round-up that
  runs on another connection; `GuardianCall` and the writes of review and request.
- *`CreditBuilder`*: `Charge` and `ChargeCommit`, `CloseStatement`, `Autopay` with its journal, mark and the
  write of 0, `ReportStatement` to `ReportMark`. `OpenCredit` takes its limit as a parameter; the journal's key does not contain it, so
  the row of a second opening may show another limit than the first one's journal moved (`opens` has the limits asked for).
- *`Operations`*: `RunOperation`, `Governed` (mechanical governance), `CeoGate`, `Decide`; `AutoExecute`, or a review with
  `Resolve`, `ApproveExecute`, `ApproveRecord`, `ReviewMark`. `contended` has the runs whose review two people resolved side by side, or
  whose approver died after executing (`OperationDies`).
- *`Onboarding`*: a submission is seven steps from `StartRun` to `WriteStatus`; `Verdict` is the policy. Two other callers of
  `completeKycDecision` grant a tier with no session (`OtherKyc`, `CompleteKyc`): the user's own simulated check, which is served everywhere but in
  production (`identityService.ts:240-245`, `routes/identity.ts:52-60`), and the KYC review of the operations engine, executed for the person
  who approved it (`kycReviewSkill.ts:203-214`). `KycCallers` says which of them a deployment has.
- *`Journeys`*: `StepRun` walks in memory and writes the trail, `Persist` stores the whole context.
- *`Equity`*: `ReleaseCall`, `ReleasePost`, `ReleaseMark` and the same of an exercise; `NextMonth` is the clock.
- *`Yield`*: `Declare`, `Distribute`, `ReadHolder` one by one, `PayHolder` one by one, `Distributed`; subscriptions trade
  meanwhile.
- *`Savings`*: `DepositCall`, `DepositPost`, `GoalRead`, `GoalWrite`, `GuardianRead`, `GuardianPost`, `SaveAnswer`;
  withdrawals; `AccrueDay`, `InterestPost`, `InterestRow`.
- *`Listings`*: `versions[a]` only grows; a writer is `CurrentRead` and `InsertVersion`, which fails when the number is
  taken. An approval is five steps from `IssueCall` to `SubmissionRow`.
- *`Agents`*: `ConsumeNonce` is a transaction; `CredentialRead`, `GrantRead`, `PersonhoodRead`, `RecordToken`, `ParkToken`
  follow one by one, beside grants and revocations.
- *`Wallets`*: a send is `SendCall` (the gate), `OnChainTransfer`, `PostSend`, `CloseSend`; a built one is `Build` first and
  may `Expire`. A reconciliation run is `StartScan`, `ReadLedger` and `ReadChain` per account, and `RecordRun` or `RunErrs`.
  Submit executes whatever signed bytes the client sends and books the build's amount (`hederaService.ts:503-504`, `522-529`): they are those
  frozen (`OnChainTransfer`) or any other transfer of the sender's (`SubmitOther`, from the set `OtherTransfers`, counted in `others`).
- *`FraudEngine`*: `ReadModels` per status (the queries run side by side), `DecideEvent`, `ReadFeatures`, `WriteFeatures`, which also
  starts the consumer: `OpenCase`, `LogFreeze`, `CallFreeze`. `CaseAction` is an analyst's; `Promote`, `MintCandidate`,
  `RegisterCandidate` the fraud team's; `RestartEngine` loses requests, bus and minted backends.

## 3. Runs

| Run | Instance | Distinct states | Shows |
|---|---|---|---|
| `Escrow` | an escrow in USD and one in USDC, 2 slots, at most 2 legs per party | 608,977 | custody is whole, nobody overdrawn, rows, journals and events agree, the ledger does not run ahead of the chain, the promise is kept |
| `GoemonPay` | 1 intent, 2 payers, a merchant, 2 slots | 475,892 | racing payers, cancel, expiry, escrow routes, freeze, kill-switch and failures: intents, escrows, events and cash agree |
| `GoemonPayLive` | 1 intent, 1 payer, 1 slot | 7,068 | retries heal a payment that died; held funds are resolved |
| `Transfers` | 2 requests, 1 slot, 1 worker, 2 attempts, 4 tries, Temporal on | 189,002 | overdraft, truth of answers, history, and that a retry confirms |
| `Cards` | 2 authorizations, 2 slots | 29,927 | overdraft, status and money, whole cardholder, completed capture |
| `Purchases` | 2 buyers of 1 unit, 2 slots | 171,076 | delivery, status, stock, and that a retry delivers unless the unit went to the other buyer |
| `Products` | the twenty-four services of `Products`, 2 slots each | 791,502 | the properties below |
| `GoemonPayCancel` | 1 intent | violated | an intent is closed although its hold was posted |
| `AccountHoldsRelease` | 1 user, 2 decisions | violated | one release does not undo two places |
| `CardsVoid` | 1 authorization, 2 slots | violated | capture and void of one authorization are both paid |
| `PurchasesResolved` | 1 purchase | violated | a resolution pays the seller and delivers nothing |
| `DropsOverMint` | a drop of 2, 2 slots | violated | two buyers of the last unit are both paid and both recorded |

What `Products` shows, by property:
- `LoanBooksHold`: an open loan never shows less than the money that is missing, whatever overwrites its row;
  collateral returns, and the loan closes, behind the journals that pay it.
- `RailsTellTruth`: the ledger credits or debits no more than the provider took in or paid out; a status has its
  journals; an account is overdrawn by returned deposits only. Of wallets: a journal has an executed transfer, its own or, of a
  built send, what the client submitted in its place; drift has a cause, a run that
  nothing disturbed tells whether there is drift, and after a run that found it only requests already past the gate send.
- `ChargedBillsLeaveSchedule`: what was charged is never on the schedule again, among schedulers and cancellations.
- `RequestClosedOnce`: the second to close a request changes nothing, and `fulfilled` comes after its money.
- `StockAndEscrowHold`: a subscription escrow holds the open subscriptions and nothing else; units fall short by
  overlapping redemptions only; a listing follows its diagram and loses no price; an approved slab has one asset; an
  employee gets what is vested.
- `OverMintIsBounded`: an edition is exceeded by what was in flight together and no more.
- `IssuerPaidOnTarget`: the issuer is paid only out of a raise that reached its target, and every status has its journals; an offering
  that is settled, refunded or cancelled left no investment in escrow but those that were inserted behind the reading of its rows;
  and it has one outcome, all settled or all refunded, unless two closings were at work at once or one died with money moved.
- `BookHolds`: no trade is worse than a limit, no taker fills more than it asked, the escrow is what the journals put in less
  what they took out, whatever overlaps or dies; and every order that is not contested is backed by its own escrow, however others are.
- `SettlementSound`: an accepted order is in one place, settled once, and survives deferral; overdraft is bounded by
  overlapping drains.
- `ExchangeSound`: the audit row tells the rate the money moved at, unless calls overlap or die; a holder is paid once per
  action, for units held since it was declared; a deposit's redemption is never overdrawn.
- `StarterHolds`: the allowance is exceeded only by what was let through together; the bureau hears the truth; a teen
  owes no more than was charged nor than the limit, which is what was secured unless openings asked for different limits; a goal shows
  its savings, and a day's interest is paid once.
- `PeopleDecide`: a supervised run is executed by people only, a gated one by the CEO's roles only; an approved review was executed
  and is on the trail, a rejected one is on the trail and was not executed unless it was contended.
- `OnboardingSound`: a tier is raised by a person, on every step passed, or by the simulated check where that is served; nobody waits with nothing to do; a token has
  what was granted while it was presented, one per nonce. Of the fraud engine: only models that were promoted decide, a hold has a case and a request
  in its history, a freeze that was decided is placed unless the engine stopped or a call failed, features count all decisions.
- `JourneySound`: an outcome follows from the context it is stored with.
- `HoldsBounded`: the drift of the hold log, and double freezes of a decision, are less than the requests at once.
- `PoolMoves`: no connection is mislaid, and the pool stands still only when as many audit entries as it has connections wait for one more. The
  instance, two audited transactions on two connections, reaches that deadlock.

Bounds, and why they are enough.
- *Two slots.* Every property relates the steps of two requests of one row, or of two rows of one payer; a
  third request can only repeat one of them, or fail. Where the number matters (`HoldsBounded`, the bounds on overlap),
  it is in the property.
- *Keys and users.* Two or three rows that a payer can pay one by one and not together: the smallest case of an
  overdraft. Two payers of one intent. Rows with different payers and keys share nothing but balances. A drop of two and four claims;
  three orders on one book, so that a taker meets two makers; two transactions with an audit entry, on two connections, among others without.
- *`MaxLegs`* (2) bounds on-chain legs of one escrow to one party: one of a request that died, one of its retry.
- *`MaxAttempts`* (2; five in `money/moneyWorkflow.ts:18`) and *`MaxTries`* (4) bound the attempts of one workflow and of
  all workflows of a key: a second attempt, and a second workflow, are the cases that differ. With one worker a
  late attempt runs beside the direct path and the next workflow's start, not beside its own successor; two workers
  (425,346 states with 2 tries) take too long for a routine run, find nothing more, and the theorems cover any number.
- *`MaxPlaces`* (3) bounds the rows of `account_holds` for one user, *`MaxPayouts`* (3) a bank's payouts of one bill,
  *`MaxOrders`* a provider's orders for one key: the first, one of a retry, one that comes late.
- *`MaxAccrued`* (1), *`MaxAllocated`* (2), *`MaxVersions`* (2), *`MaxRows`* (3) bound what only grows: the interest a loan
  shows, a goal, the list of a listing's versions when a writer starts, the sessions and runs of an applicant.
  `MaxWalletLegs` (2) is the leg of a send that died and the one of its retry; `MaxScans` (1) and `MaxCallbacks` (1) are the
  runs and the callbacks at once: a run only reads, and callbacks at once are the question of `HoldsBounded`.
  Periods, days and months are one or two, as the code treats each by itself.
- *Confidence* in `Onboarding` is counted in steps of 0.05, which is exact: every boost, penalty and threshold is a multiple.
- *Constraints.* Five bounds cut the search where two kinds of event that are each explored in full would be multiplied by each other. They
  only leave states out, and each was lifted once, by itself, and the properties of its service held: `OneContested` (no second
  contested order; without it 1,437,897 states of the book instead of 37,219), `RaisedEarly` (no third row of onboarding when a tier was raised past the orchestrator;
  331,022 with both callers instead of 125,506 with the simulated one), `TwoRequests` (no third request to a guardian; about 140,000 instead of 36,260), `ThreeRails`
  (no fourth row of the rails). In `Purchases`, `TwoBuyersTrade`: from the second buyer on there are no disputes, resolutions or settlements past
  the purchase, which the first buyer meets in full (3,477,669 instead of 171,076).
- Slots and keys that are alike are interchangeable in safety runs (`SYMMETRY`); no liveness run uses symmetry.
- Deadlock is checked except in `Cards`, `Products` and `DropsOverMint`, where all rows may have reached a status from
  which nothing can be called, and all requests may be over; a real system stops there too. `PoolMoves` is the deadlock that matters in
  `Products`, and is stated as an invariant.

Fairness, and why the code justifies it. Weak fairness of a request's own steps: the event loop resumes an awaited
call once its result is there, and Temporal hands out attempts. Strong fairness only of what a *person or partner* repeats
(the payer's retry, the merchant's capture, the card processor's capture, the buyer's confirmation, the client's
repeated transfer), and, in `GoemonPay`, of the steps that fail again and again by chance. In `Transfers`,
`Cards` and `Purchases` this last assumption is instead `<>[]` "requests no longer die", which leaves any number
of failures before. Workers of Temporal may die for ever, freezes need not end, and nothing is assumed of the
kill-switch or the clock; the properties name those exceptions. Without the retries no liveness property holds: a
process that dies is not resumed by anything in this code except the Temporal workflow. `Products` states safety only: most of
its services have nobody who would retry a request that died, so nothing is promised to come about.

## 4. Where the code and its words disagree

1. `GoemonPayCancel`: "requires_payment → canceled | expired (no money ever moved)" (`services/paymentService.ts:20`).
   A payment posts its hold and, before it writes `paid`, the merchant cancels or another request expires the intent. The
   funds stay in escrow under a closed intent until somebody uses the escrow routes. The payer's retry is refused.
2. `AccountHoldsRelease`: "Release all holds for a user" (`services/accountHoldService.ts:68`). It appends one row;
   an account frozen by two decisions stays frozen while the route answers `frozen: false`.
3. `CardsVoid`: capture beside void, or capture after a void that died before its UPDATE, settles out money that
   was returned (`services/cardService.ts:198`; `src/backend/test/cards.test.ts:114` tests the sequential case only).
4. `PurchasesResolved`: a dispute through `/api/escrow/:id/dispute` leaves the purchase undisputed, so a later
   resolution pays the seller and the sync does nothing (`services/collectiblePurchaseService.ts:320`).
5. `DropsOverMint`: "never over-mints the edition" (`services/creatorDropService.ts:130`). The count that is tested at
   line 155 is read before the payment and raised after it, so two buyers of the last unit are both served.

Seen while modelling. The models contain these behaviours, and the properties are worded around them, as
they are consequences of the code that no run is spent on:
- *transfers*: a refusal is not final while its workflow runs (`money/moneyEngine.ts:67`); the ledger key
  `transfer:<key>` does not contain the user, so two users with one key share a journal (`transferService.ts:67`); a retry
  of a posted transfer by a frozen sender is refused (`transferService.ts:53`);
- *cards*: a capture that dies before `payCashback` pays no cashback, and two captures side by side insert two reward rows
  for one journal (`cardService.ts:211`, `237`);
- *escrow*: a release that is retried while its first leg is under way is executed twice on the chain (`escrowService.ts:193`); the comment above
  `release` says "From held or disputed" (`escrowService.ts:227`), the code releases from held only (`229`): a disputed escrow is left by
  `resolveDispute` alone (`256-258`);
- *purchases*: two buyers of one collectible may both be in escrow (`collectiblePurchaseService.ts:165`); when both escrows are released, the second
  buyer has paid, is refused the unit for ever (`marketplaceService.ts:529`) and stays `shipped`;
- *holds*: "retried remediation never double-freezes" (`accountHoldService.ts:36`) and "All calls are idempotent on `decisionId`, so a retried callback is a no-op"
  (`routes/internalRemediation.ts:5-6`): of callbacks that follow one another; two that are served side by side both find no hold (`46-57`), place one each, and one
  release lifts one of them;
- *pool*: as many audited transactions at once as there are connections wait for each other for ever (`db/index.ts:142`);
- *rails, requests*: a provider that is asked again under another delivery key moves money more than once; a second payer may
  be named on a request that the first one's transfer has paid;
- *raises*: "at close the raise SETTLES ... if the target is met, or REFUNDS everyone" (`capitalRaiseService.ts:5-7`). A closing that died between two
  investments and is repeated counts only what is still committed, so it may refund the rest of a raise that it had begun to settle; a close and a cancel that overlap
  can post both journals of one investment; an investment inserted behind the reading of the rows stays in escrow under a closed offering;
- *order book*: each fill "draws only on the two orders' escrows" (`secondaryMarketService.ts:7`): two takers of one resting order, or a taker beside its
  cancellation, both use what was left of it, and the second draws on the escrow of others;
- *credit builder*: the key `cb:open:<teen>` has no amount (`creditBuilderService.ts:84`), so an opening that died behind its journal, or runs beside another, inserts a
  limit that was not moved; of two charges at once one is lost from the balance, and a payment writes 0 over later charges (`138`, `210`);
- *operations*: "on reject, nothing executes" (`operationsWorkflow.ts:337-338`): a second reviewer's rejection, read before the approval was written, and a rejection after
  an approver died behind the execution both leave a rejected review whose operation was executed;
- *equity*: a release that dies between journal and row delivers again once vesting has advanced
  (`equityCompService.ts:182-198`); a retried exercise counts its units again (`204-237`);
- *savings*: a deposit whose guardian match is refused has been posted, and its retry adds to the goal again
  (`savingsGoalService.ts:107-137`); teen and borderless interest share one row per user and day, so the second product
  pays nothing (`db/migrations/021_starter_features.sql:67`);
- *yield*: a repeated `accrueYield` makes a new corporate action and pays again; a distribution reads balances one by one, without
  a record date (`corporateActionService.ts:72-112`);
- *wallets*: what a client submits is not compared with what was frozen for it (`hederaService.ts:503-529`): the ledger books the build's amount and
  recipient, the chain does what the bytes say, and the next reconciliation finds the difference; an `error` or `skipped` run lifts the gate although it should hold "until a clean run
  supersedes the drifted one" (`reconciliationService.ts:17-18`, `223-228`); a send to a user's wallet that is given by its address is booked as a payment
  outside and shows as drift (`hederaService.ts:194-196`); a build that expired keeps its unique key and cannot be built again;
- *fraud engine*: a re-freeze after an unfreeze of the same case is dropped, as its `decisionId` has a hold; after a restart a promoted
  candidate has no backend and the router falls back without a word; a restart drops what the bus had not handled;
- *listings*: an approval that dies, overlaps another or is refused half-way creates two assets for one slab
  (`sellerCollectibleService.ts:183-233`);
- *onboarding*: two submissions at once can put back `awaiting_verification` with nothing left to submit
  (`riskOrchestratorService.ts:279`); `finalizeDecision` "is the ONLY place a tier grant is authorized" (`riskOrchestratorService.ts:12`), but outside production a
  user completes the simulated check alone (`identityService.ts:240-245`), and the KYC review of the operations engine grants as well;
- *agents*: a grant that overlaps a revocation, or a revocation that dies, leaves the attestation active without the grant, although
  it is said to be "only valid while the grant is" (`userAgentGrantService.ts:161`).

## 5. Proofs

Everything below holds for every set of users, keys, slots, every amount and every opening balance that the
`ASSUME` of the module allows. The assumptions say that accounts are distinct where the code makes them so (a user's cash
account is no system account), amounts are positive, nobody starts overdrawn, and payer and payee differ by
constant only where the code's validation refuses otherwise.

| Module | Theorems | Inductive invariant |
|---|---|---|
| `Escrow_proofs` | `EscrowTypes`, `EscrowNoOverdraft`, `EscrowCustodyWhole`, `EscrowRowsMatchJournals`, `EscrowLedgerFollowsChain`, `EscrowEventLog`, `EscrowImplementsPromise` | the properties with `RowsWellFormed` (a row without status is empty; payer and payee differ) and `CallsInOrder` (a settlement past its read knows its recipient, a call past its leg has an executed leg) |
| | `PayTypes`, `PayPaidIntentBacked`, `PayCashExplained`, `PayEventsNeverAhead`, `PayStatusFollowsDiagram`, `PayImplementsEscrow`, `PayKeepsPromise` | with `SlotsInOrder` (what a payment knows of its own escrow call) and `HeldForOwner`; the diagram needs `RowsGoForward` of the escrow and `IntentsGoForward` of the intents, which no step breaks |
| | `PurchaseTypes`, `PurchaseDeliveryFollowsPayment`, `PurchaseStatusFollowsEscrow`, `PurchaseUnitDeliveredOnce`, `PurchasesKeepPromise` | with the escrow's invariant and `PurchasesInOrder`: what an operation knows of the escrow and of the delivery before it writes a status |
| `Transfers_proofs` | `TransfersTypes`, `TransfersNoUserOverdrawn`, `TransfersAnswersTellTruth`, `TransfersHistoryMatchesJournals`, `TransfersHistoryExplainsCash` | with `RunsInOrder`, `FlowsInOrder`, `AnswersInOrder`: whatever stands for a success has a journal under its key; `HistoryMatchesJournals`: a journal is the transfer of one request with that key, with one pair of rows |
| `Cards_proofs` | `CardsTypes`, `CardsNoOverdraft`, `CardsStatusFollowsMoney`, `CardsCardholderWhole` | with `RequestsInOrder`: what a request that is cut short has already posted; for `CardsCardholderWhole` the exact sum of what the journals took from a cardholder and gave back |
| `Rails_proofs` | `LedgerBehindChain`, `DriftStopsSends` | `SendSafe`: a request past its leg has an executed one, or other bytes executed in its place, a request past its journal has it; `GateStopsSends` follows from its last conjunct |
| | `HoldsDriftBounded`, `HoldsDoubleFreezeBounded`, `HoldsKeepBounds` | `PendingBounded`: a request that has read and not yet inserted counts as if it had |
| | `ConnectionsAccounted`, `OnlyAuditsStopThePool` | `PoolAccounted` (free and held connections are all there are) with `OnlyAuditedWait` (who holds one and waits for another is audited) |
| | `OperationsPeopleDecide` | `OperationsCall`: what a run or a resolution in flight knows (an automatic execution is of a run nobody gates, a resolver of a gated one has a CEO's role, a review about to be marked is on the trail); `RunsInOrder`: the review of a gated run names the CEO's roles; `Uncontended`: of a run that is not contended at most one person is at work, and it is not executed before that person executes it |
| `Services_proofs` | `RequestsClosedOnce` | `AskCalls`: a call about to write `fulfilled` has its journal; with `FulfilledIsPaid` and `PayersKeepCash` |
| | `JourneysSound` | `Reached` and `Paused`: what the context and the trail say when a walk, or the row, is at a step; `ServedAlone`: before two requests overlap there is one, and none once the run is completed |
| | `BillPayLeavesSchedule` | `BillCall`: what each step of a payment knows of the account and the row; `PayoutsCoverRows`: rows of the history and payments between payout and commit together are no more than the bank was asked for |
| | `DropsOverMintIsBounded` | `StockCovered`: claims that have passed the check and not yet paid count against the stock; `NumbersCounted`: numbers and the count follow the journals |
| | `RaiseIssuerPaidOnTarget` | `WholeInv`: `RaiseCall` (what a close has listed was committed and adds up to the target, and what it has already gone through is settled, or refunded); `ListsWhole` (of a closing at work, whatever is committed is on its list or late); `Untorn` (until it is torn one closing is at work, and only its own journals are there) |
| | `ExchangeInvariant` | `SwapsAlone`, `SwapsEnd` (a conversion that nothing overlapped and that did not die has the journal of its row), `SwapsCovered` (room for those that have checked) |
| | `YieldInvariant` | `HeldCurrent` (the history of holdings has the present one), `DividendsTell` (a payout is for a quantity that was held), `UnitsCovered` (room for the redemptions that have checked) |
| | `TradingInvariant` | `OrdersInv`: an order is in exactly one of queue, hands of one request, lost, or done; `TradesCovered`: the orders about to post are among those that overlapping drains let through |
| | `LendingInvariant` | `LoanRowSound`: the *principal* alone covers what is owed; `LoanCall`: so does what a call is about to write, once the journals of its own key are counted; `ReleasedPaid` |
| | `OrderBookInvariant` | `BookCalls`, `TakersAlone`, `RowsSound`: what a taker knows of the makers it has yet to go through, and what it has left; `UnitsExplained`, `CashInEscrowExplained`; `HandsInv`: an order that is not contested is in at most one request's hands, and the step which that request is at accounts for the difference between what the order has in escrow and its row |
| `Products_proofs` | `ProductsLoanBooks`, `ProductsSettlement`, `ProductsExchange`, `ProductsBook` | the invariant of the service that runs |
| | `ProductsStarter` | `TeenInv`: a purchase that passed the gate and is not yet authorized counts against the limit (`GateCovers`). `CreditInv`: `CreditCalls`, `StatementSound` (what a statement reports as paid has a journal), `OwedSound` and `SecurityTold` (the journal of the opening is of a limit that was asked for). `SavingsInv`: `DepositsEven`, `AccrualsEven` (while they follow one another, the one being served accounts for the difference between the goal, or the day's row, and the journals) |
| | `ProductsStock` | `MarketInv`: `OrdersPosted` (a row and the journals of its key tell the same), `MarketCall` (a redemption about to be recorded has its journal). `EquityInv`: `EvenCall`, `EvenRow` (of a grant that nothing overlapped, what a release or an exercise at work has posted is the difference between the row and what was delivered). `ListingsInv`: `Decided` (of a slab whose decisions did not overlap, who works on it and which asset it has), `ListingCall` (the version that a call is about to write follows the last one it read) |
| | `ProductsRails` | `RailsInv`: `RecordsApart` (two requests never record one row at once), `RowSound` (which journals a status implies), `RailAccounted` (the provider's orders account for every journal of money, row and answer on its way). `DriftInv`: `ChainTells`, `LedgerTells` (a wallet's USDC is its legs, its book the journals), `LegsBooked` (an executed leg is booked, or its request is about to), `ScanSafe` (what a run that nothing moved under has found is there) |
| | `ProductsOnboarding` | `OnbInv`: `RunsOwned` (two requests do not own one run of an agent), `GrantHasEvidence`, `OneAtATime`, `WaitsForStep` (who waits, or is about to, has a step to take). `AgentsInv`: `NoncesOnce` (a nonce that is used belongs to one presentation, or to its token), `ScopesGranted`, `ParkedHaveToken`, `OneChange` (changes of the grant that do not overlap). `FraudInv`: `EventsOnce`, `RoutesPromoted` (what a request routes by was promoted), `FreezesInOrder` (of each decision, how far its handling and its case are), `FoldsAlone` (a fold that overlaps no other has read what is there) |

`OnlyAuditsStopThePool` has no hypothesis on the load: whoever waits does so while a connection is free, or some holder can go on, or every connection is
held by a transaction that waits in its audit entry. The code can reach the last (`db/index.ts:142`), and so does the instance.

Each module has the same shape: a lemma that the initial states satisfy the invariant, frame lemmas for steps
that move no money, one lemma per action, one that combines them, and the theorems by temporal reasoning.
`Ledger_proofs` has what all of them cite of the ledger: what posting under a fresh key, or under any key, does to
journals and balances. The refinement theorem maps a committed hold, settlement or dispute to the step of the promise,
and every other step to a stutter. `RowsPersist` and
`EscrowStepFrame` say what an escrow step leaves alone (the parties and the terminal status of a row, journals
and accounts that are not the escrow's): the proofs about payments and purchases rest on them. `EscrowEventLog` and `EscrowRowsMatchJournals` are part of the same induction.

*Sums.* `PotBacksOpenEscrows`, `CashExplained`, `HistoryExplainsCash`, `CardholderWhole`, what is paid on a loan, what a
raise has committed and what orders have in escrow are sums over finite sets of rows, `SumFunctionOnSet` of the community modules, which is a fold. What the
fold computes is proved from its definition, without an induction scheme that takes a predicate: the lemmas of `Ledger_proofs` on
sums (`SumType`, `SumAdd`, `SumChange`, `SumUnion`: a sum changes by the term that is added, removed or changed, and by nothing else)
take a smallest subset (`LeastSet`) on which the claim fails, which exists because the set is finite, and refute it.
With them a sum is one more conjunct of an inductive invariant, in step with the balance it explains.

*Overlap.* Where a check is read in one step and acted on in a later one, the account may be overdrawn by what overlaps. The
invariant that gives the bound counts the requests in between: with `n` of them the account has at least `n - (slots - 1)`
times the largest amount to spare (`RoomCovers` and its lemmas: a request that checks, one that posts, one that leaves). It is not inductive
without that count, and the count is why the bound is one less than the slots: the first to check saw the money.

*Loans.* `DebtNeverForgiven` speaks of principal and interest of the row; neither is kept by a stale write by itself. The invariant is stronger:
the principal alone is never below what was lent less what was paid. It holds because a repayment takes interest first and writes
a principal that it computed from its own read, which was already no less, before its own journal. A repayment whose key has its journal by
then, from a call that died or runs beside it, is the one exception and is treated apart (`Leaves`).

*The order book.* Two takers of one resting order overwrite what it has left, so no statement about rows and escrow survives a race. Two things do,
and are proved without any condition: the escrow is, to the unit and the cent, what the journals of the orders put in and did not take out (`UnitsExplained`,
`CashInEscrowExplained`: sums over orders of sums over pairs of orders), and a trade keeps to both limits with no taker over what it asked for. The second rests on `TakersAlone`: an
order is filled as a taker by one request, that of its insertion, and what that request has left is what it asked for less its trades. Of an order that is not
`contested` the row is exact, whatever happens to the others: the one request that has it in hand says, by `Accounted`, how far the escrow is off the row at each step (a fill has been posted and the maker not yet
updated, the maker and not yet the taker), and the difference is gone when it ends. That the escrow splits at all needs the surplus of a buyer above the price to be given back within the fill: then a fill
takes `qty * limit` of a buy, at whatever price.

*Rails.* `LedgerFollowsProvider` compares two counts, journals and provider orders, that different requests change; no step keeps their order by itself. `RailAccounted`
carries a set of journal keys that is no larger than the orders and has the key of every journal, of the row, and of each answer that has yet to be credited: an order adds
one key, a credit adds none. The same holds of drift: a difference between a wallet's USDC and its book is a sum over sends, and `LegsBooked` says
which send is the cause.

*Onboarding, agents, the fraud engine.* Four of their promises hold for whoever is served alone, and the invariants say what "alone" gives each step: the one assessment of
a session that is not `disturbed`, the one change of a grant that is not `ragged`, the one fold per user. What holds in every race rests on something
used once: a run of an agent has one owner, a nonce one presentation, an event one decision.

*From a service to `Products`.* A property of `Products` speaks of the service that runs. `ProductsStep` shows that a step of the composition
is a step of that service, so the service's invariant is one of `Products`. `ProductsLoanBooks`, `ProductsSettlement`, `ProductsExchange`, `ProductsBook`, `ProductsStarter`, `ProductsStock`,
`ProductsRails` and `ProductsOnboarding` state the run's properties themselves. `BillPayLeavesSchedule`, `RequestsClosedOnce`, `DropsOverMintIsBounded`, `RaiseIssuerPaidOnTarget`, `OperationsPeopleDecide`, `JourneysSound`,
`HoldsKeepBounds` and `OnlyAuditsStopThePool` are theorems of the specifications of their own modules.

Assumptions of the services beyond amounts that are positive and accounts that are distinct: requests, investments, repayment
keys, purchases, charges, exercises, orders and savings deposits are finite in number; a subscriber, a holder of units and the treasury do not start overdrawn; the account that interest is paid from is no savings pot; a teen's cash is not negative at first; `LargestQty` is a bound on the quantities of `SubscriptionOf` (any bound: the theorem holds for each); a deposit's account is in a currency of its own
(`USDD`, `tokenizedDepositService.ts`); units of an asset and cash are different accounts; no rate, row, key, decision or
record of a grant is the value `None` that stands for SQL's NULL; rail requests and sends are finite in number; a user's cash is neither the clearing
nor the fee account of the rails; every wallet has a book of its own, which is not the clearing account of the wallets.

Only model-checked: the liveness properties. Of the safety properties that the passing runs check, each one is stated by a
theorem, of its own module's specification or of that of `Products`.

## 6. Not modelled, and the plan

Left out for good: scores, rules, features and labels of the fraud engine and of the decision graph, which are functions of external data (their
effect, a refusal or a freeze, is in the modules; what the engine does with a score is `FraudEngine`); signatures, DIDs and credential formats; language-model
skills, chat, coaching, games and content, which keep no state that another operation decides on; statements, exports and other reads; routes, which parse and call; user interfaces;
configuration, migrations as such, and infrastructure. These are why the modules name a small share of all lines: the map
covers the services with state of their own that another request can see.

Left out of the modelled parts: account get-or-create, issuing and freezing cards, merchant onboarding, brokerage account opening and
cost basis, custodial investing, households, the travel rule, issuing a tokenized deposit and its interest, a later mint of
an asset, the reissue of a credential, opening wallets, CCTP and the mirror subscription, the instant-payment simulation, the conductor and the model router.

What would come next: a property for the on-chain leg that is repeated (`escrowService.ts:193`), once the code records a leg before it is sent; and for
the second delivery of one unit, once a purchase reserves it.
