\* Does every "safe" verdict hold at some instant of its query, overrides included?
SPECIFICATION Spec
CONSTANTS
  Threads = {t1, t2}
  Sectors = {s1, s2}
  BadIds = {s7}
  NoSector = NoSector
  MaxEvents = 2
  MaxOverrides = 2
SYMMETRY Symmetric
INVARIANTS
  SafeVerdictHeld
