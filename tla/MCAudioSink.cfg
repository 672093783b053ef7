SPECIFICATION Spec
CONSTANTS
    STREAMS = {s1, s2}
    RATES = {1, 4, 7}
    OUT_RATE = 6
    FRAMES = 4
    NOBODY = nobody
    CALLBACKS_END = FALSE
    MAX_RENDERS = 2
INVARIANTS
    NothingIsInvented
PROPERTIES
    NothingIsDropped
CHECK_DEADLOCK FALSE
