CONSTANTS
    LEVEL_MAX = 2
    ADJUST_ARM = 1
    READOUT = 1
    SHORT = 1
    BAR_STEP = 0
    BAR_EXIT = 0
    FLASHES = 1
    CONFIRM = 0
    HEAT_TIMEOUT = 0
    HEAT_PERIOD = 1
    Pattern <- MCPattern
    MASSAGE_TIMEOUT = 5
    VENT = 3
    PUMP_DELAY = 2
    INFLATE_MAX = 8
    LUMBAR_SET = 2
    TENTH = 2
    LONGEST_PAUSE = 4
    Durations = {1}
    Stored = {0}
    Recalled = {1}
SPECIFICATION Spec
INVARIANTS
    OneOwner
    LumbarCeiling
    LevelIsAir
    MassageEnds
PROPERTIES
    StepsPlay
    VentsComplete
