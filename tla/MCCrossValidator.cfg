CONSTANTS
  Seeds = {s1, s2}
  Secrets = {f1, f2}
  Zeroed = zeroed
  SeedBuffers = {b1, b2}
  SecretBuffers = {c1}
  Cycles = {1}
  Rooms = {1, 2}
  Texts <- MCTexts
  Bars = "||"
  Slots = {x1, x2}
  Threads = {n1, n2}
  NoHash = NoHash
  MaxMints = 2
  MaxChecks = 1
SPECIFICATION Spec
SYMMETRY MCSymmetry
INVARIANTS
  ValidIffGenuine
  BaitIsArmed
CHECK_DEADLOCK FALSE
