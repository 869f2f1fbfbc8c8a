SPECIFICATION FairSpec
CONSTANTS
  None = None
  DEPTH = 4
  Ids = {i1, i2}
  Data = {d1}
  MaxIssued = 7
INVARIANTS Window FreshTag
PROPERTIES KeepsPerIdOrder RoomAgain EveryResponseLeaves
