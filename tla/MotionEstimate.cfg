CONSTANTS
    SETTLE = 4
    STAGGER = 1
    TIMEOUT = 10
    STALL = 5
    ARM = 3
    ARRIVED = 2
    TRAVEL_RECLINE = 7
    TRAVEL_HEADREST = 3
    Durations = {0, 1, 2}
SPECIFICATION Spec
PROPERTY ArrivalReplacesEstimate
