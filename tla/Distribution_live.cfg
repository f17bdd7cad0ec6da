\* One crash or database error at any step; one request at a time.
SPECIFICATION FairSpec
CONSTANTS
  None = None
  Session = {s1}
  Message = {m1, m2}
  Handler = {h1}
  Worker = {w1}
  Start = {1}
  Gap = {0, 1}
  MaxTime = 3
  MaxAt = 3
  MaxBody = 0
  MaxFault = 1
PROPERTIES
  ScheduledFinishes
  DueIsClaimed
CHECK_DEADLOCK FALSE
