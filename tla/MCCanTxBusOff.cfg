SPECIFICATION FairSpec
CONSTANTS
    Packets <- PollAndIap
    Own = {2}
    Depth = 2
    Boxes = 2
    SendRetries = 2
    Prios = {0, 1}
    MaxAsks <- TwoPollsOrBoth
    MaxFaults = 1
PROPERTY BusOffIsSurvived
CHECK_DEADLOCK FALSE
