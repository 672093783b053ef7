SPECIFICATION Spec
CONSTANTS
    ASIDS = {1, 2}
    BUS_PAGES = 3
    PAGE_SIZE = 2
    HOSTS = {h1, h2}
    BYTE_SIZE = 2
    NOTHING = NOTHING
    MAX_READ = 3
SYMMETRY Symmetry
INVARIANTS
    BusAlwaysReadsTheGame
CHECK_DEADLOCK FALSE
