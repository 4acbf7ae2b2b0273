SPECIFICATION FairReceive
CONSTANTS
    Parts = 3
    MaxBlocks = 2
    Slots = 2
    Depth = 2
    MaxMessages = 10
    MaxFaults = 4
INVARIANTS HandledInOrder InStep NoMixture CompleteBlockTaken
PROPERTY EveryMessageHandled
CHECK_DEADLOCK FALSE
