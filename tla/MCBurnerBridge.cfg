\* Two workers, three verifications each. The real limits are 5 s, 1000, 3, 100 and 1 s.
SPECIFICATION BridgeSpec
CONSTANTS
  Sectors = {s1, s2}
  MAX_AGE = 1
  MAX_TOKENS_PER_SECTOR = 1
  MAX_STRIKES = 2
  MAX_RATE_REQUESTS = 2
  RATE_WINDOW = 1
  ExternalBurn = FALSE
  NoCall = NoCall
  MaxBirths = 6
  MaxTime = 3
  MaxBurns = 0
  MaxLoops = 5
SYMMETRY SectorSymmetry
CHECK_DEADLOCK FALSE
INVARIANTS
  StrikesAreRefusals
  PresentsOwnToken
  LeftBehind
  BurnIsTotal
PROPERTIES
  NoneVerifiedAfterBurn
  LedgerSpec
