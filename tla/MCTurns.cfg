SPECIFICATION FairSpec
CONSTANTS
    A = A
    B = B
    Ferments <- Two
    NoFerment = NoFerment
    MaxWork = 2
    Boundaries = {1}
    MaxCommands = 2
CHECK_DEADLOCK FALSE
INVARIANTS TypeOK OneCompaction SleepIsExplained
PROPERTIES NudgesEnd PauseOutlastsCompaction
