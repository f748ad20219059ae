SPECIFICATION Spec
CONSTANTS
    A = A
    B = B
    Ferments <- One
    NoFerment = NoFerment
    MaxWork = 2
    Boundaries = {1}
    MaxCommands = 2
CHECK_DEADLOCK FALSE
INVARIANTS CompactionNeverBlocks
