CONSTANTS
    Buttons = {"power", "recline_up"}
    ShortHold = {"recline_up"}
    HOLD = 8
    SHORT = 6
    DOUBLE = 5
    SILENT = 3
    WORD = 12
    Durations = {0, 1, 2}
SPECIFICATION Spec
INVARIANTS
    SilentIsReleased
PROPERTIES
    Protocol
    DoubleTapInWindow
