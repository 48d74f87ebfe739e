CONSTANTS
    SLOTS = 2
    FIELDS = 2
    MODULUS = 8
    Levels = {0, 1, 2}
    Garbage = {4, 7}
    Refusing = {1, 2, 3}
    Faults = {"spoilt", "stuck"}
SPECIFICATION Spec
INVARIANTS
    AppendOnly
PROPERTIES
    AtomicSave
    Durable
