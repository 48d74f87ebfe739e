CONSTANTS
    Chars = {c1, c2}
    NoChar = NoChar
    SIZE = 4
SPECIFICATION RingSpec
PROPERTIES
    ImplementsQueue
