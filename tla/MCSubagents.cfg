SPECIFICATION FairSpec
CONSTANTS
    Agents = {a1, a2}
    Limits = {1, 2}
    Overlap = FALSE
    MaxFaults = 1
INVARIANTS TypeOK SlotsCounted QueueIsSound NoIdleSlot ToldOnce OnlyDoneAnnounced
PROPERTIES StartsWithinLimit EveryEndIsHeard QueuedStarts
