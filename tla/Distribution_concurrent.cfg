\* Two open requests and two workers on one message.
SPECIFICATION Spec
CONSTANTS
  None = None
  Session = {s1}
  Message = {m1}
  Handler = {h1, h2}
  Worker = {w1, w2}
  Start = {1}
  Gap = {0}
  MaxTime = 1
  MaxAt = 1
  MaxBody = 0
  MaxFault = 1
SYMMETRY ActorSymmetry
INVARIANTS
  OncePerSchedule
  SentWasHeard
PROPERTIES
  ApprovedFirst
CHECK_DEADLOCK FALSE
