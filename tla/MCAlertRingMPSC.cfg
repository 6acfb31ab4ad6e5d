\* Two producers, as the bench has seven: is an accepted alert ever lost?
SPECIFICATION Spec
CONSTANTS
  Producers = {p1, p2}
  ALERT_RING_SIZE = 4
  MaxAlerts = 3
SYMMETRY Symmetric
INVARIANTS
  AcceptedNotLost
