\* Media: one task, two requests, two days: a poll beside anything else.
SPECIFICATION ServicesSpec
CONSTANTS
  Task = {t1}
  Request = {r1, r2}
  Quota = 2
  Retention = 0
  MaxDay = 2
  MaxMediaFaults = 1
  DownTargets <- MCDownTargets
INVARIANTS
  RowsAreBacked
  ResultIsCharged
  ChainServesModels
PROPERTIES
  NothingUndone
  
  ComesToHead
CHECK_DEADLOCK FALSE
