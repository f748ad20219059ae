SPECIFICATION Spec
CONSTANTS
    MaxPhases = 3
    MaxSteps = 2
    g1 = g1
    Groups = {g1}
    NoGroup = NoGroup
    PhasePlans <- LogPlans
    StepPlans <- LogLists
    ParallelEnabled = TRUE
    NoLog = NoLog
    BrokenLog = BrokenLog
    Legacy = FALSE
    MenuActivation = FALSE
    Losses = TRUE
    Deletes = TRUE
INVARIANTS FoldMatchesSnapshot LogIsSound
PROPERTIES TornKeepsWorkWhole LogIsAtomic
CHECK_DEADLOCK FALSE
