SPECIFICATION Spec
CONSTANTS
    MaxPhases = 2
    MaxSteps = 1
    g1 = g1
    Groups = {g1}
    NoGroup = NoGroup
    PhasePlans <- SmallPlans
    StepPlans <- SmallLists
    ParallelEnabled = TRUE
    NoLog = NoLog
    BrokenLog = BrokenLog
    Legacy = FALSE
    MenuActivation = FALSE
    Losses = FALSE
    Deletes = TRUE
PROPERTIES DeletedIsGone
CHECK_DEADLOCK FALSE
