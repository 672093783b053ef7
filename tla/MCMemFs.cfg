SPECIFICATION Spec
CONSTANTS
    c = c
    a = a
    b = b
    DRIVES = {c}
    PACKAGE_DRIVES = {}
    NAMES = {a, b}
    MOVED <- LibsAndPrograms
    MOVED_TO <- SysBin
    PACKAGE <- NoFiles
    VERSIONS = {TRUE}
    HANDLES = {1}
    MODES <- WriteOnly
    MAX_DEPTH = 3
    MAX_ENTRIES = 3
    MAX_SIZE = 1
PROPERTIES
    RenameMovesTheWhole
    OpenFilesFollow
    MadeIsFound
