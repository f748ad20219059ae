SPECIFICATION FairSpec
CONSTANTS
    a1 = a1
    a2 = a2
    MaxGen = 4
    Askers <- TwoAskers
CHECK_DEADLOCK FALSE
INVARIANTS LiveStateIsNewest
PROPERTIES OnlyLateAnswersLeak StartSettles
