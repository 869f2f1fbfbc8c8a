SPECIFICATION Spec
CONSTANTS
  Modules = {"aou_reorder"}
  Envs = {"ooo"}
  Tasks = {"aou_flit:bmc", "aou_flit:cover"}
  Collector = {c1, c2}
  NoOne = NoOne
  MaxGates = 2
  MaxHands = 1
  MaxReads = 2
  MaxPages = 1
  Tools = {{"base", "verilator", "yosys", "flat", "hier", "time"}, {"base", "ci"}}
INVARIANTS WholeRuns PageNotBehindItsHeader RowsOfTheirGate
PROPERTIES AppendOnly
SYMMETRY Alike
CHECK_DEADLOCK FALSE
