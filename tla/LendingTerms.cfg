SPECIFICATION Spec
CONSTANTS
  Ann = Ann
  Bob = Bob
  Contract = Contract
  Treasury = Treasury
  Users <- OneUser
  AnimalTypes = {cattle}
  cattle = cattle
  BPS = 1000
  SecondsPerYear = 1
  MaxI128 = 1000000
  MaxTime = 4
  MaxPauseDuration = 2
  DefaultPause = 1
  PauseDurations = {}
  DefaultMinLoan = 150
  DefaultMaxLoan = 200
  InitialBalance <- MCInitialBalance
  Appraisals = {300, 400}
  Amounts = {9, 200}
  LoanDurations <- NoDeadline
  Ltvs = {600}
  Thresholds = {500, 800}
  CloseFactors = {1000}
  FeeRates = {}
  LoanLimits <- FewLimits
  Caps = {300}
  Liquidators = {}
  Recipients <- NoRecipients
  MaxCollaterals = 1
  MaxLoans = 1
  MaxIds = 1
INVARIANTS
  InterestIsSimple
PROPERTIES
  HealthDropsOnlyWithThreshold
  QuotesHold
