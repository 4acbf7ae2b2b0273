SPECIFICATION FairSpec
CONSTANTS
    Orders = {o1, o2}
    Odd = {o2}
    Zero = Zero
    Default = Default
    Garbage = Garbage
    None = None
    MailMax = 1
    EarlyOrders = FALSE
INVARIANTS ParaPersisted ParaWasOrdered CopiesAgree
PROPERTY OrderStored
