\* Three targets for two case slots; one id does not convert. The real limits are 128, 32, 3 and 256.
SPECIFICATION Spec
CONSTANTS
  Targets = {t1, t2, t3}
  Unnumbered = {t3}
  Flows = TRUE
  HasERM = TRUE
  ErmSays <- AnyAnswer
  SectorZero = FALSE
  MAX_CASE_RECORDS = 2
  MAX_SIT_OPS = 1
  CASE_ESCALATE_AT = 2
  COUNT_RANGE = 3
  Modes = {"ADVISE", "STUN", "PURGE"}
  Incidents = {"HOSTILE_CONNECT", "OTHER"}
  Manual = TRUE
  MaxHits = 3
  MaxId = 8003
INVARIANTS
  OneCasePerTarget
  EscalatedIffRepeat
  SitMatchesCases
  CaseTellsTheHits
PROPERTIES
  RefusedIsInert
  HistoryPreserved
SYMMETRY Symmetry
VIEW WithoutAnswer
