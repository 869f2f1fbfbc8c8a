SPECIFICATION Spec
CONSTANTS
  None = None
  NUM_RP = 3
  RX_D = 1
  Payloads = {"a", "b"}
  Credit = 2
INVARIANTS GrantedInTurn
PROPERTIES FlitHeld PlanesIsolated
