\* One producer and the drain worker over a ring of four slots, which wraps.
SPECIFICATION Spec
CONSTANTS
  Producers = {p1}
  ALERT_RING_SIZE = 4
  MaxAlerts = 7
INVARIANTS
  SlotsNotShared
  EveryPushAccounted
  PollIsTrue
PROPERTIES
  FifoSpec
  AcceptedIsDelivered
