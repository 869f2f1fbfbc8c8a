SPECIFICATION Spec
CONSTANTS
  NULL = NULL
  Starts <- MC_Starts
  Lens <- MC_Lens
  Tids = {"t1", "t2", "t3"}
  LabelOf <- MC_LabelOf
  MaxEvents = 4
  Agents = {"t1", "t2", "t3"}
  Times = {1, 2, 3, 4}
  STEP_MARKERS = {"sv", "formal"}
  Gaps = {0, 1, 2}
  MaxLines = 5
  DOMAINS <- MC_DOMAINS
  Series <- MC_Series
  Values <- MC_Values
  HEADLINES <- MC_HEADLINES
  direction <- MC_direction
  tol = 2
INVARIANTS ReturnCovers SameContainer StreamAccounted SpansAddUp RegressionsListed
CHECK_DEADLOCK FALSE
