SPECIFICATION BackendSpec
CONSTANTS
  Requests = {r1, r2}
  Waiters = {r1, r2}
  Calls = {c1, c2}
  repay = repay
  health = health
  Sends = {repay, health}
  Endpoint <- MCEndpoint
  Hash <- MCHash
  Methods <- MCMethods
  PoolMin = 1
  PoolMax = 2
  MaxAttempts = 2
  Nobody = Nobody
  None = None
  Nonces = {n1, n2}
  Tokens = {k1, k2, k3}
  ApiKeys = {a1}
  ChallengeTtl = 1
  AccessTtl = 1
  RefreshTtl = 2
  EndOfSessions = 3
  Loops = {l1, l2}
  EventKinds = {"loan/requested", "loan_repaid"}
  PageSize = 1
  Retention = 2
  MaxLedger = 4
  MaxEvents = 2
  NoLoop = NoLoop
  Hooks = {h1}
  MaxFired = 2
  DeliveryAttempts = 3
  NoDelivery = NoDelivery
  Hour = 4
  LastHour = 6
  MaxDelay = 2
  MaxLag = 1
  MaxRows = 3
  PageLimit = 2
  NoPage = NoPage
  Idle = Idle
  ServiceCalls = {q1, q2}
  BatchSize = 2
  Debt = 6
  Values = {7, 10}
  MaxSequence = 2
  Window60 = 3
  Allowed <- MCAllowed
  LastTick = 4
  MaxPerTick = 3
  Worths = {1, 2}
  MaxAppraisals = 3
  NoEntry = NoEntry
  RateScale = 10
  RateModels <- MCRateModels
  MaxTotal = 4
INVARIANTS
  CleanExitWaitsForRpc
  NoRepayAgain
  OneTokenPerLogin
  EachEventOnce
  AlertAtLeastEveryThirdRun
  WalkSeesWhatStays
  
  LessThanTwiceTheLimit
  
PROPERTIES
  EventsHandled
  NoCopyOnceAccepted
  RowsSurvive
  RateRises
CHECK_DEADLOCK FALSE
