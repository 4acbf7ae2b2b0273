SPECIFICATION FairSpec
CONSTANTS
    Size = 4
    Parts = 3
    MaxFaults = 3
PROPERTIES FileArrives AttemptEnds
