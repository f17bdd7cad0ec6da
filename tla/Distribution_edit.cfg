\* One edit while the worker sends.
SPECIFICATION Spec
CONSTANTS
  None = None
  Session = {s1}
  Message = {m1}
  Handler = {h1}
  Worker = {w1}
  Start = {1}
  Gap = {0}
  MaxTime = 1
  MaxAt = 1
  MaxBody = 1
  MaxFault = 0
INVARIANTS
  SentTextIsFinal
CHECK_DEADLOCK FALSE
