SPECIFICATION Spec
CONSTANTS
    a1 = a1
    a2 = a2
    MaxGen = 3
    Askers <- TwoAskers
CHECK_DEADLOCK FALSE
PROPERTIES NewerStateStays
