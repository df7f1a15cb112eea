SPECIFICATION Spec
CONSTANTS
    Names = {"a", "b"}
    Reads = {r1, r2}
    Writes = {w1, w2}
    Ticks = {t}
    Budget = 1
    MaxOpenings = 7
    Expiring = {"a"}
    FlushFails = TRUE
SYMMETRY MCSymmetry
INVARIANTS OneOpening ReadYourWrites NobodyStuck
CHECK_DEADLOCK FALSE
