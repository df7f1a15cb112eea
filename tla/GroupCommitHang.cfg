CONSTANTS
  Writers = {w1, w2, w3}
  MaxReads = 1
  Panics = TRUE
SPECIFICATION Spec
PROPERTIES EveryWriteAnswered
CHECK_DEADLOCK FALSE
