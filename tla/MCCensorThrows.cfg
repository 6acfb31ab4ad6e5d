\* A target whose id std::stoull refuses.
SPECIFICATION Spec
CONSTANTS
  Targets = {t1}
  Unnumbered = {t1}
  Flows = TRUE
  HasERM = TRUE
  ErmSays <- AnyAnswer
  SectorZero = FALSE
  MAX_CASE_RECORDS = 2
  MAX_SIT_OPS = 1
  CASE_ESCALATE_AT = 2
  COUNT_RANGE = 3
  Modes = {"ADVISE", "STRIKE", "PURGE"}
  Incidents = {"HOSTILE_CONNECT", "OTHER"}
  Manual = FALSE
  MaxHits = 4
  MaxId = 8003
INVARIANT ExecutedIsReported
