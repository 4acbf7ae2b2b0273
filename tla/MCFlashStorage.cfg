SPECIFICATION Spec
CONSTANTS
    CatSlots = 2
    Slots = 4
    Span = 2
    Sector = 6
    Retries = 2
    MaxWrites = 6
    MaxBoots = 3
INVARIANTS NewestFound LastReportedKept ReadsWithinLap ReadsAskedOrNothing
CHECK_DEADLOCK FALSE
