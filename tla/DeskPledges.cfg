SPECIFICATION Spec
CONSTANTS
  Collaterals = {c1}
  Requests = {r1, r2}
  Runs = {cron}
  Cron = cron
  Values = {50, 100}
  Amounts = {80}
  Payments = {40}
  SCALE = 10000
  WarnThreshold = 13000
  MaxLoans = 2
  None = None
INVARIANTS
  PledgesInFlight
  DoublePledgeNeedsRestore
