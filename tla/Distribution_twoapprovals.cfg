\* Two reviewers approve the same session.
SPECIFICATION Spec
CONSTANTS
  None = None
  Session = {s1}
  Message = {m1}
  Handler = {h1, h2}
  Worker = {w1}
  Start = {1}
  Gap = {0}
  MaxTime = 1
  MaxAt = 1
  MaxBody = 0
  MaxFault = 0
SYMMETRY HandlerSymmetry
INVARIANTS
  AtMostOnce
CHECK_DEADLOCK FALSE
