CONSTANTS
  Writers = {w1, w2, w3}
  MaxReads = 1
  Panics = TRUE
SPECIFICATION Spec
INVARIANTS AckedDurable NothingUnattended
PROPERTIES AnsweredUnlessPoisoned ImplementsContract
CHECK_DEADLOCK FALSE
