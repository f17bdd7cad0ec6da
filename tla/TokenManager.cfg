\* Two callers and one fault; times in units of one activation.
SPECIFICATION FairSpec
CONSTANTS
  Caller = {c1, c2}
  Background = background
  Ttl = 4
  Activation = 1
  Ahead = 2
  Keep = 3
  NetMax = 1
  RealTtl = 5
  RealActivation = 1
  PoolLimit = 4
  MaxTime = 7
  MaxToken = 5
  MaxFault = 1
INVARIANTS
  TokensAreBounded
PROPERTIES
  ReturnsUsable
  WaitEnds
CHECK_DEADLOCK FALSE
