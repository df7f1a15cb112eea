CONSTANTS
  Instances = {a, b}
  TTL = 1
  MaxPause = 1
  MaxLives = 2
  Renewers = {"op"}
  Releases = TRUE
  Retries = FALSE
SPECIFICATION Spec
SYMMETRY Symmetry
PROPERTIES DropDeletesOwn
CHECK_DEADLOCK FALSE
