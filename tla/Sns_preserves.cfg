\* One request at a time, one item, on any platform.
SPECIFICATION Spec
CONSTANTS
  Collectors = {r1}
  Media <- MCMedia
  Newest = 1
  MaxPosts = 2
  MaxRuns = 3
PROPERTIES
  MetricsKeepTheRest
CHECK_DEADLOCK FALSE
