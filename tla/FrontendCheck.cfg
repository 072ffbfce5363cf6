SPECIFICATION FrontendSpec
CONSTANTS
  Clicks = {1, 2}
  Bound = 2
  PollFor = 2
  LastSecond = 4
  NotSent = NotSent
  Views = {header, page}
  Wallets = {wa, wb}
  NoWallet = NoWallet
  Subjects = {s1, s2}
  Fetches = {f1, f2}
  NoData = NoData
  Tabs = {t1, t2}
  Accounts = {wa, wb}
  MaxTexts = 2
  Nought = Nought
  Queries = {q1, none}
  NoQuery = none
  Chips = {k1}
  Limits = {1, 2}
  MaxTotal = 3
  MaxEntries = 3
  NoBar = NoBar
  Values = {0, 10, 20}
  Amounts = {0, 7, 14}
  MaxIds = 2
  MaxReloads = 1
  ToastIds = {m1, m2, m3, m4}
  MaxVisible = 3
  Windows = {w1, w2}
  Steps = 2
  Switches = {k1, k2}
  Saves = {p1, p2}
  Displays = {d1, d2}
  Unset = Unset
  Labels = {x1, x2}
  Currencies = {usd}
  CacheTtl = 1
  StaleTtl = 2
  LastMinute = 3
  NoRate = NoRate
  CounterAmounts = {0, 2, 4}
  Frames = 2
  NoFrame = NoFrame
INVARIANTS
  OneTransaction
  DisconnectedStaysAway
  StaleOnlyIfOvertaken
  OwnDraftOnly
  ListFollowsBar
  
  SwitchesShowSaved
  FreshAsTold
  CounterSettles
PROPERTIES
  PolledScreenSettles
  ToastsLeave
  GuideLeftAlone
CHECK_DEADLOCK FALSE
