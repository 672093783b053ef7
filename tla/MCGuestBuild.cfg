SPECIFICATION Spec
CONSTANTS
    MESA_PARTS <- MCMesaParts
    MESA_ARCHIVES <- MCMesaArchives
    MESA_CHECKED <- MCMesaChecked
    FF_LIBS = {avcodec, avutil}
    AVCODEC = avcodec
    ARCHIVES = {epoc, drivers}
    OBJECTS = {machine}
    NONE = NONE
    CUT = CUT
INVARIANTS
    PackageIsTheSeries
PROPERTIES
    SoundIsWhole
SYMMETRY ArchivesAreAlike
VIEW WithoutVerdict
