SPECIFICATION Spec
CONSTANTS
    N_BUTTONS = 2
    PHONES <- MCPhones
    Screen <- MCScreen
    MAX_SIZE = 2
    SLOTS = {s1}
    NONE = NONE
    MAX_FRAMES = 2
INVARIANTS
    MachineIsTheReference
    KeysComeInTurn
    PictureIsTheLatest
