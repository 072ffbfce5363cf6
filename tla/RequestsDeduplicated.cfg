SPECIFICATION RequestsSpec
CONSTANTS
  Requests = {r1}
  Waiters = {r1}
  Calls = {c1}
  repay = repay
  liquidate = liquidate
  Sends = {repay, liquidate}
  Endpoint <- MCEndpoint
  Hash <- MCHash
  Methods <- MCMethods
  PoolMin = 1
  PoolMax = 1
  MaxAttempts = 1
  Nobody = Nobody
  None = None
INVARIANTS
  OnlyIdenticalDeduplicated
CHECK_DEADLOCK FALSE
