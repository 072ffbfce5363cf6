SPECIFICATION RemindersSpec
CONSTANTS
  ReminderRuns = {j1, j2}
  LastDay = 2
  Fetched = "page"
  NoRun = NoRun
PROPERTIES
  LowLoanReminded
CHECK_DEADLOCK FALSE
