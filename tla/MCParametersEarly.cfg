SPECIFICATION Spec
CONSTANTS
    Orders = {o1, o2}
    Odd = {o2}
    Zero = Zero
    Default = Default
    Garbage = Garbage
    None = None
    MailMax = 2
    EarlyOrders = TRUE
INVARIANT ParaWasOrdered
