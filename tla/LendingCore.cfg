SPECIFICATION Spec
CONSTANTS
  Ann = Ann
  Bob = Bob
  Contract = Contract
  Treasury = Treasury
  Users <- MCUsers
  AnimalTypes = {cattle}
  cattle = cattle
  BPS = 1000
  SecondsPerYear = 1
  MaxI128 = 1000000
  MaxTime = 2
  MaxPauseDuration = 2
  DefaultPause = 1
  PauseDurations = {}
  DefaultMinLoan = 200
  DefaultMaxLoan = 200
  InitialBalance <- MCInitialBalance
  Appraisals = {400}
  Amounts = {100, 200}
  LoanDurations <- NoDeadline
  Ltvs = {600}
  Thresholds = {800}
  CloseFactors = {1000}
  FeeRates = {}
  LoanLimits <- NoLimits
  Caps = {}
  Liquidators = {}
  Recipients <- MCRecipients
  MaxCollaterals = 2
  MaxLoans = 2
  MaxIds = 2
INVARIANTS
  
  LockIsLatest
