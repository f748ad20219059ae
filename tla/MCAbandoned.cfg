SPECIFICATION Spec
CONSTANTS
    MaxPhases = 1
    MaxSteps = 1
    g1 = g1
    Groups = {g1}
    NoGroup = NoGroup
    PhasePlans <- OnePhasePlans
    StepPlans <- OnePhaseLists
    ParallelEnabled = TRUE
    Calls = {c1}
    Menus = FALSE
    ManualPolicy = TRUE
PROPERTIES AbandonedIsFinal
CHECK_DEADLOCK FALSE
