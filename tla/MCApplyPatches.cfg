SPECIFICATION PatchSpec
CONSTANTS
    FILES <- MCFiles
    FilesOf <- MCFilesOf
    Needs <- MCNeeds
    SERIES <- MCSeries
    EDIT = edit
    clock = clock
    timer = timer
    gl = gl
    f1 = f1
    f2 = f2
    f3 = f3
PROPERTIES
    ImplementsPatchedTree
    EditsAreKept
    IsIdempotent
