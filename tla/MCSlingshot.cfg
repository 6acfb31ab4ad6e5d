CONSTANTS
  BATCH_SIZE = 2
  MaxTokens = 5
  MaxIgnitions = 3
SPECIFICATION FairSpec
INVARIANTS
  EveryTokenOnce
  SizeStillThere
PROPERTIES
  ServiceSpec
  TokensServed
CHECK_DEADLOCK FALSE
