\* One job, one upload that grows old; one request at a time, nothing fails.
SPECIFICATION Spec
CONSTANTS
  Job = {j1}
  Variable = {v1}
  Required = {v1}
  Source = {s1}
  Upload = {s1}
  Request = {r1}
  None = None
  MaxSaid = 1
  MaxFault = 0
PROPERTIES
  ExpiredAreDeleted
CHECK_DEADLOCK FALSE
