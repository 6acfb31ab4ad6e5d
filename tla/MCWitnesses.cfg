\* A millisecond of 2 ns and words of 4: the window of 2 ms wraps to 0.
SPECIFICATION WitnessSpec
CONSTANTS
  Inputs <- MCInputs
  Windows = {1, 2}
  Mixes <- MCMixes
  NANOS_PER_MS = 2
  WORD = 4
  MaxTime = 4
  MaxMade = 2
INVARIANTS
  AcceptedIsGenuine
  AcceptedInTime
  GenuineIsAccepted
