SPECIFICATION Spec
CONSTANTS
    MaxPhases = 3
    MaxSteps = 2
    g1 = g1
    Groups = {g1}
    NoGroup = NoGroup
    PhasePlans <- SequentialPlans
    StepPlans <- SequentialLists
    ParallelEnabled = TRUE
    MaxFaults = 2
    MaxInterrupts = 1
INVARIANTS WayForward RecoveryWorks CompletedPhasesAreDone
PROPERTIES Completes
CHECK_DEADLOCK FALSE
