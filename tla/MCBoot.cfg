SPECIFICATION Spec
CONSTANTS
    PHONE_APPS = {1}
    INSTALLER = 2
    NGAGE = 5
    GAMES = {3, 4}
    NO_APP = 0
    OPTIONS_FRAME = 2
    INSTALL_FRAME = 6
    PRESS = 2
    GIVE_UP_FRAME = 12
    MAX_LAUNCHES = 2
INVARIANTS
    TheGameIsTheProjects
    BusFollowsTheGame
    TheGameRunsOnce
    NoKeyIsLeftHeld
PROPERTY InitReturns
CHECK_DEADLOCK FALSE
