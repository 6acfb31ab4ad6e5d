\* Three threads, a sector and an id out of range; up to two manual overrides.
SPECIFICATION Spec
CONSTANTS
  Threads = {t1, t2, t3}
  Sectors = {s1}
  BadIds = {s7}
  NoSector = NoSector
  MaxEvents = 3
  MaxOverrides = 2
INVARIANTS
  HaltFollowsIsolation
  AnswersStayTrue
  DetainedUntilOverride
  SafeVerdictUntilOverride
PROPERTIES
  StrandedUntilReleased
  MisfireContained
