\* More repeat offenders than the SIT list has room for.
SPECIFICATION Spec
CONSTANTS
  Targets = {t1, t2}
  Unnumbered = {}
  Flows = TRUE
  HasERM = TRUE
  ErmSays <- AnyAnswer
  SectorZero = FALSE
  MAX_CASE_RECORDS = 2
  MAX_SIT_OPS = 1
  CASE_ESCALATE_AT = 2
  COUNT_RANGE = 3
  Modes = {"ADVISE", "STRIKE", "PURGE"}
  Incidents = {"HOSTILE_CONNECT", "OTHER"}
  Manual = FALSE
  MaxHits = 4
  MaxId = 8003
INVARIANT EscalatedHasOperation
