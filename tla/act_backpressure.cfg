SPECIFICATION Spec
CONSTANTS
  None = None
  HeldOff = {"ini"}
  Triggers = {}
  Clears = {{}}
  MaxFaults = 0
INVARIANT NoDataWhileActivating
