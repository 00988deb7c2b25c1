SPECIFICATION MCSpec
CONSTANTS
    MaxOrders = 3
    Customers = {k1, k2}
    Hooks = {h1, h2}
    Reconcilers = {c1}
    Due = 2
    MaxDesk = 1
    BatchSize = 1
    None = None
SYMMETRY MCSymmetry
INVARIANTS
    PaymentsTypeOK
    CapturedMeansPaid
    PendingOrdersBounded
    OneRunPerEvent
CHECK_DEADLOCK FALSE
