SPECIFICATION FairSpec
CONSTANTS
  None = None
  HeldOff = {}
  Triggers = {"ini", "tgt"}
  Clears = {{}}
  MaxFaults = 1
INVARIANTS NoDataWhileActivating NoSpuriousError EnabledTogether
PROPERTIES BringUpCompletes TeardownCompletes
