SPECIFICATION Spec
CONSTANTS
  MaxTime = 3
  MaxPauseDuration = 1
  DefaultPause = 1
  PauseDurations = {}
  Oracles = {o1, o2, o3, o4}
  NotSet = NotSet
  MaxOracles = 3
  ArraySize = 5
  MaxPrice = 100
  DefaultWindow = 1
  DefaultStale = 1
  Prices = {10, 90}
  Quorums = {2}
  Windows = {0, 2}
  Thresholds = {0, 2}
  MaxObservations = 3
  MaxLoans = 1
SYMMETRY OracleSymmetry
INVARIANTS
  OracleForOpenLoans
  
