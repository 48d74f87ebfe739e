CONSTANTS
    SETTLE = 4
    STAGGER = 1
    TIMEOUT = 9
    STALL = 4
    ARM = 3
    ARRIVED = 2
    TRAVEL_RECLINE = 4
    TRAVEL_HEADREST = 2
    Durations = {0, 1, 2}
SPECIFICATION Spec
INVARIANTS
    LatchedIsStopped
    MotorIsCut
PROPERTIES
    RelaysSafe
    Staggered
    ArrivalIsEarned
    EstimateFollowsDrive
