SPECIFICATION Spec
CONSTANTS
  Ann = Ann
  Bob = Bob
  Contract = Contract
  Treasury = Treasury
  Users <- MCUsers
  AnimalTypes = {cattle}
  cattle = cattle
  BPS = 1000
  SecondsPerYear = 1
  MaxI128 = 1000000
  MaxTime = 3
  MaxPauseDuration = 2
  DefaultPause = 1
  PauseDurations = {2}
  DefaultMinLoan = 150
  DefaultMaxLoan = 200
  InitialBalance <- MCInitialBalance
  Appraisals = {400}
  Amounts = {100, 200}
  LoanDurations <- NoDeadline
  Ltvs = {450, 600}
  Thresholds = {480, 800}
  CloseFactors = {500, 1000}
  FeeRates = {50}
  LoanLimits <- NoLimits
  Caps = {}
  Liquidators = {Bob}
  Recipients <- MCRecipients
  MaxCollaterals = 1
  MaxLoans = 1
  MaxIds = 1
INVARIANTS
  LiquidatableOnlyBelowLtv
  PoolAccounting
PROPERTIES
  LifecycleSpec
