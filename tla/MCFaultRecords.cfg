SPECIFICATION Spec
CONSTANTS
    CatSlots = 2
    Slots = 3
    Span = 2
    Sector = 2
    Retries = 1
    MaxWrites = 5
    MaxBoots = 2
INVARIANT ReportedReadable
CHECK_DEADLOCK FALSE
