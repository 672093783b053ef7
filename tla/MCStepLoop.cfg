SPECIFICATION FairSpec
CONSTANTS
    EPOCH_US = 1
    INSTRUCTIONS_PER_SECOND = 3
    MICROS = 2
    FRAME_US = 3
    MAX_SLICE = 2
    RUNNABLE = TRUE
    GRAPHICS = TRUE
    TIMERS = {t1, t2}
    DELAYS = {0, 1, 4}
    DIALOGS = {d1, d2}
    SLACK = 1
    MAX_NOW = 10
INVARIANTS
    CostIsExact
    NeverIdlesPastTarget
    TimersAreNearlyOnTime
    FrameEndsOnTime
    AnsweredOutsideTheLock
    EmptyMachineIsExact
PROPERTIES
    IdleJumpsLandOnDeadlines
    ImplementsMachineTime
    ImplementsDialogQueue
    FramesEnd
    AskersAreAnswered
CHECK_DEADLOCK FALSE
