SPECIFICATION FairSpec
CONSTANTS
  MEM_ADDR_W = 16
  DATA_W = 28
  REQ_QD = 4
  RandAddrs = {30000}
  RandData = {9}
  Num = 2
INVARIANTS MonitorMirrorsMemory ScoreboardAgrees DriverGetsBeats CountsThisRun NoTestFails
PROPERTIES TestsEnd
