CONSTANTS
  Writers = {w1, w2}
  Readers = {r1}
  MaxReads = 1
  Panics = TRUE
  Limit = 1
  BODY_SLOT_FACTOR = 1
SPECIFICATION ServingSpec
INVARIANTS ShedUntouched
PROPERTIES EveryRequestLeaves Stops
CHECK_DEADLOCK FALSE
