CONSTANTS
    PAGE = 2
    STORE = 4
    SIZE = 6
    Erased = FF
    Old = old
    a = a
    b = b
    Images <- BothImages
    auto_install = TRUE
SPECIFICATION Spec
PROPERTIES
    NextAttempt
