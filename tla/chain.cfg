SPECIFICATION FairSpec
CONSTANTS
  None = None
  Requests <- MixedRequests
  Partial = {1}
  MaxIssued = 3
  REQ_QD = 2
  WORDS = 16
  DataCode = 7
INVARIANTS ResponsesRight FlitsExpected CreditsWithinGrant CreditsComeHome MemoryMatches
PROPERTY EveryRequestAnswered
