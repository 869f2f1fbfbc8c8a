SPECIFICATION FairSpec
CONSTANTS
  None = None
  NUM_RP = 2
  RX_D = 4
  Payloads = {"a"}
  Credit = 4
INVARIANTS LinkNeverStalls
PROPERTIES EveryFlitCrosses
