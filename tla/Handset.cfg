CONSTANTS
    Codes = {0, 3, 4, 6}
    Noise = {3, 4, 6, 7, 10, 249, 250}
SPECIFICATION Spec
INVARIANTS
    Resync
PROPERTIES
    ImplementsLink
    HeardAgain
