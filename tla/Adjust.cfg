CONSTANTS
    LEVEL_MAX = 3
    ADJUST_ARM = 5
    READOUT = 2
    SHORT = 3
    BAR_STEP = 1
    BAR_EXIT = 2
    FLASHES = 1
    CONFIRM = 1
    Durations = {0, 1, 2}
SPECIFICATION Spec
INVARIANTS
    WindowCloses
    DeferredStaysUp
