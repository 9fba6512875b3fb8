\* Does a drop mint more than its edition?
SPECIFICATION ProductsSpec
CONSTANTS
  s1 = s1
  s2 = s2
  k1 = k1
  k2 = k2
  k3 = k3
  k4 = k4
  x1 = x1
  x2 = x2
  x3 = x3
  d1 = d1
  d2 = d2
  u1 = u1
  None = None
  Slots = {s1, s2}
  Accounts <- MCAccounts
  Opening <- MCOpening
  Loans = {k3}
  RepayKeys = {k1, k2}
  RepayLoan <- MCRepayLoan
  RepayAmount <- MCRepayAmount
  Borrowed <- MCBorrowed
  Pledged <- MCBorrowed
  Worth <- MCWorth
  Ceiling <- MCBorrowed
  MaxAccrued = 1
  LoanCash = "a1"
  Holding = "b2"
  Collateral = "n1"
  LoanPool = "n2"
  LoanFee = "n3"
  Sink = "n4"
  Proceeds = "n5"
  RailKeys = {k1, k2, k3, k4}
  RailOf <- MCRailOf
  RailAmount <- MCRailAmount
  RailFee <- MCRailFee
  OrderIds = {x1, x2}
  MaxOrders <- MCMaxOrders
  RailCash = "a2"
  Clearing = "n1"
  Fees = "n2"
  Bills = {k1, k2}
  FirstBill = k1
  BillAmount = 1
  Recurring = TRUE
  MaxPayouts = 3
  BillCash = "b3"
  BillClearing = "n1"
  Asks = {k1}
  Asked <- MCAsked
  AskAmount <- MCAskAmount
  Payers = {"a1", "b1"}
  Requester = "n1"
  MarketKeys <- MCMarketKeys
  MarketOp <- MCMarketOp
  MarketQty <- MCMarketQty
  MarketGross <- MCMarketQty
  MarketFee <- MCMarketFee
  Subscriber = "a5"
  SubEscrow = "n1"
  MarketFees = "n2"
  Settlement = "n3"
  Units = "a2"
  OtherUnits = "n4"
  Treasury = "b2"
  Claims = {k1, k2, k3, k4}
  ClaimPrice = 1
  EditionSize = 2
  Fan = "a5"
  Creator = "n1"
  DropSupply = "edition"
  Claimed = "claimed"
  Investments = {k1, k2}
  InvestUnits <- MCInvestUnits
  UnitPrice = 1
  RaiseTarget = 2
  RaiseCap = 3
  Investor = "a4"
  Issuer = "n1"
  RaiseEscrow = "n2"
  RaiseTreasury = "b3"
  Investors = "n3"
  BookOrders = {k1, k2, k3}
  BookSide <- MCBookSide
  BookQty <- MCBookQty
  Limit <- MCLimit
  TraderCash <- MCTraderCash
  TraderUnits <- MCTraderUnits
  CashEscrow = "n4"
  UnitEscrow = "n5"
  Trades = {k1, k2, k3}
  TradeSide <- MCTradeSide
  TradePrice = 2
  TradeFee = 1
  TradeCash = "a4"
  TradePosition = "n1"
  BrokerCash = "n2"
  BrokerPosition = "n3"
  TradeFees = "n4"
  Swaps = {k1, k2, k3}
  SwapKind <- MCSwapKind
  SwapAmount = 2
  Rates = {1, 2}
  SpreadDivisor = 2
  FromCash = "a3"
  ToCash = "n5"
  PayeeCash = "n2"
  FxFrom = "n3"
  FxTo = "n4"
  FxFees = "n1"
  Buys = {x1, x2, x3}
  BuyAmount <- MCBuyAmount
  SpareChange <- MCSpareChange
  SpendLimit = 1
  TeenCash = "a3"
  TeenHolds = "n1"
  TeenSavings = "n2"
  Charges = {k1, k2}
  ChargeAmount <- MCChargeAmount
  Periods = {p1}
  PayKeys = {k3, k4}
  SecuredLimits = {2, 3}
  GuardianCash = "a7"
  GuardianSavings = "n1"
  CreditClearing = "n2"
  Runs = {r1}
  Skills = {"support", "filing", "kyc"}
  Supervised = {"kyc"}
  CeoGated = {"filing"}
  Regime <- MCRegime
  Admins = {"a", "c", "x"}
  RoleOf <- MCRoleOf
  Assessments <- MCAssessments
  Threshold = 16
  ReviewFloor = 10
  KycCallers = {"simulated"}
  MaxRows = 3
  RiskDecisions = {"approve", "review", "deny"}
  Users = {u1}
  Decisions = {d1, d2}
  HoldSlots = {s1, s2}
  MaxPlaces = 3
  NoDecision = NoDecision
  Txs = {t1, t2, t3, t4, t5}
  Audited = {t1, t2}
  PoolSize = 2
  Grants = {k1, k2}
  AwardType <- MCAwardType
  UnitsTotal <- MCUnitsTotal
  Exercises = {k3, k4}
  ExerciseGrant <- MCExerciseGrant
  ExerciseQty <- MCExerciseQty
  Strike = 1
  CliffMonths = 1
  DurationMonths = 2
  Employee = "a2"
  Company = "n1"
  GrantPool = "a3"
  EmployeeUnits = "n2"
  UnitHolders = {k1, k2}
  HolderUnits <- MCHolderUnits
  HolderCash <- MCHolderCash
  Actions = {k3}
  PerUnit = 1
  ParMinor = 1
  Subscriptions = {k1, k2}
  SubscriptionOf <- MCSubscriptionOf
  LargestQty = 1
  YieldSource = "n3"
  SubSink = "n4"
  TokenSupply = "b3"
  Redemptions = {k1, k2}
  RedeemMinor = 2
  DepositCash = "a3"
  DepositClearing = "b2"
  Saves = {x1, x2, k3}
  SaveOp <- MCSaveOp
  Product <- MCProduct
  SaveMinor = 1
  MatchDivisor = 1
  Days = {d1}
  DailyDivisor = 2
  MaxAllocated = 2
  SaverCash <- MCSaverCash
  Pot <- MCPot
  GuardianPurse = "a1"
  InterestSource = "n4"
  Submissions = {k1}
  Assets = {x1, x2}
  AskPrice = 1
  ListPrices = {2}
  MaxVersions = 2
  AssetEquity = "n1"
  AssetTreasury = "n2"
  Functions = {"read", "pay"}
  Presentations = {x1, x2}
  Nonces = {k3}
  NonceOf <- MCNonceOf
  NonceScope <- MCNonceScope
  PersonhoodEnforced = FALSE
  Wallets = {"ann", "bob", "op"}
  Custodian = "op"
  Book <- MCBook
  WalletClearing = "n2"
  Sends = {k1, k2}
  SendOf <- MCSendOf
  SendFrom <- MCSendFrom
  SendTo <- MCSendTo
  ByUser = {k1}
  SendMicro <- MCSendMicro
  MaxScans = 1
  Payable = {"bob"}
  MaxWalletLegs = 2
  OtherTransfers <- MCOtherTransfers
  Mode <- MCMode
  UserOf <- MCUserOf
  Models = {"rules-v1", "candidate"}
  BuiltIn = {"rules-v1"}
  Floor = "rules-v1"
  Scores = {1, 4}
  Bucket <- MCBucket
  MaxCallbacks = 1
  Promotions <- MCPromotions
CHECK_DEADLOCK FALSE
INVARIANT NeverOverMints
