CONSTANTS
    LEVEL_MAX = 2
    ADJUST_ARM = 6
    READOUT = 1
    SHORT = 4
    BAR_STEP = 0
    BAR_EXIT = 0
    FLASHES = 1
    CONFIRM = 0
    HEAT_TIMEOUT = 8
    HEAT_PERIOD = 2
    Pattern <- NoPattern
    MASSAGE_TIMEOUT = 2
    VENT = 1
    PUMP_DELAY = 0
    INFLATE_MAX = 2
    LUMBAR_SET = 1
    TENTH = 1
    LONGEST_PAUSE = 3
    SETTLE = 3
    STAGGER = 0
    TIMEOUT = 4
    STALL = 1
    ARM = 1
    ARRIVED = 1
    TRAVEL_RECLINE = 4
    TRAVEL_HEADREST = 2
    SEEK = 1
    PRESET_STEP = 2
    PRESET_ARM = 6
    MotionButtons <- Headrests
    Comfort = {}
    HOLD = 5
    DOUBLE = 2
    WORD = 20
    Durations = {1}
    Samples = {"zero", "low", "high"}
    Stores <- BothAxes
    PRESSES = 4
SPECIFICATION Spec
PROPERTIES
    BothAxesDriven
