\* One request at a time, one worker, one crash or database error.
SPECIFICATION Spec
CONSTANTS
  None = None
  Session = {s1}
  Message = {m1, m2}
  Handler = {h1}
  Worker = {w1}
  Start = {1}
  Gap = {0, 1}
  MaxTime = 3
  MaxAt = 3
  MaxBody = 1
  MaxFault = 1
SYMMETRY MessageSymmetry
INVARIANTS
  TypeOK
  AtMostOnce
  VerdictHolds
  TimelineOrder
PROPERTIES
  KeepsReviewGate
CHECK_DEADLOCK FALSE
