SPECIFICATION Spec
CONSTANTS
  NumWorkers = 2
  StaleMin = 0
  Timeout = 2
  Main = Main
  NoFile = NoFile
  Planned = {2}
  MaxClock = 2
  MaxReports = 2
  MaxReplaced = 1
INVARIANT WaitReturns
