\* Callers may burn without the lock. The real limits are 5 s, 1000, 3, 100 and 1 s.
SPECIFICATION Spec
CONSTANTS
  Sectors = {s1, s2}
  MAX_AGE = 1
  MAX_TOKENS_PER_SECTOR = 1
  MAX_STRIKES = 3
  MAX_RATE_REQUESTS = 2
  RATE_WINDOW = 1
  ExternalBurn = TRUE
  NoCall = NoCall
  MaxBirths = 2
  MaxTime = 3
  MaxBurns = 2
SYMMETRY SectorSymmetry
CHECK_DEADLOCK FALSE
INVARIANTS
  Conservation
  SlotLaw
  StrikesBelowBurn
  AtMostOneStranded
  HeldTokensAuthentic
  AdmittedOnce
PROPERTIES
  ExpiredHoldsSlot
  NoAdmissionAfterWipe
