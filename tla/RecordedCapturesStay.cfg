SPECIFICATION Spec
CONSTANTS
    MaxOrders = 2
    Customers = {k1}
    Hooks = {h1, h2}
    Reconcilers = {c1}
    Due = 2
    MaxDesk = 1
    BatchSize = 1
    None = None
PROPERTIES
    RecordedCapturesStay
CHECK_DEADLOCK FALSE
