SPECIFICATION LiveSpec
CONSTANTS
    MaxOrders = 1
    Customers = {k1}
    Hooks = {h1, h2}
    Reconcilers = {c1, c2}
    Due = 1
    MaxDesk = 0
    BatchSize = 1
    Bookings = {b1}
    Drivers = {d1}
    Vehicles = {v1}
    Quotes <- MCOneQuote
    Workers = {w1}
    Crons = {p1}
    MaxCrashes = 2
    None = None
PROPERTIES
    HybridBookingsOpen
    CapturesAreRecorded
CHECK_DEADLOCK FALSE
