\* One job with a required variable and an upload; two requests.
SPECIFICATION Spec
CONSTANTS
  Job = {j1}
  Variable = {v1}
  Required = {v1}
  Source = {s1}
  Upload = {s1}
  Request = {r1, r2}
  None = None
  MaxSaid = 2
  MaxFault = 1
SYMMETRY RequestSymmetry
INVARIANTS
  ReviewHolds
  AllMapped
PROPERTIES
  TerminalStays
CHECK_DEADLOCK FALSE
