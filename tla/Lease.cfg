CONSTANTS
  Instances = {a, b}
  TTL = 1
  MaxPause = 1
  MaxLives = 2
  Renewers = {"op", "timer"}
  Releases = TRUE
  Retries = TRUE
SPECIFICATION Spec
PROPERTIES OverwriteOnlyStale StandbyPromoted SupersededFenced
CHECK_DEADLOCK FALSE
