SPECIFICATION FairSpec
CONSTANTS
  None = None
  HeldOff = {}
  Triggers = {"tgt"}
  Clears = {{}, {"ini","tgt"}}
  MaxFaults = 2
PROPERTY JointRecovery
