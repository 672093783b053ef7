SPECIFICATION HandlesSpec
CONSTANTS
    c = c
    z = z
    a = a
    b = b
    NONE = NONE
    DRIVES = {c}
    PACKAGE_DRIVES = {z}
    NAMES = {a, b}
    MOVED <- NoneMoved
    MOVED_TO <- Nowhere
    PACKAGE <- OneFile
    VERSIONS = {FALSE}
    HANDLES = {1}
    MODES <- Modes
    MAX_DEPTH = 1
    MAX_ENTRIES = 2
    MAX_SIZE = 1
    POSITIONS = 3
    OFFSETS <- BackAndForth
    ASKED <- AllWithUids
    UID_SIZE = 1
INVARIANTS
    PackageContentsIntact
    ListingIsFair
PROPERTIES
    ReadsStayInside
