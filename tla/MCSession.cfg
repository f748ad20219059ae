SPECIFICATION Spec
CONSTANTS
    MaxPhases = 3
    MaxSteps = 3
    g1 = g1
    Groups = {g1}
    NoGroup = NoGroup
    PhasePlans <- SessionPlans
    StepPlans <- SessionLists
    ParallelEnabled = TRUE
    Calls = {c1}
    Menus = TRUE
    ManualPolicy = TRUE
CONSTRAINT SmallMenu
INVARIANTS TypeOK OneActiveGroup OneRunningCohort PausedIsQuiet StatusMatchesPhases CompleteIsFinished
PROPERTIES SessionIsAtomic OnlyMenuSplitsGroups RunningStepKept PausedIsFrozen
CHECK_DEADLOCK FALSE
