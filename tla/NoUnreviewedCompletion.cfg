SPECIFICATION TrackingSpec
CONSTANTS
    Bookings = {b1}
    Drivers = {d1, d2}
    Vehicles = {v1}
    Quotes <- MCOneQuote
    Workers = {w1}
    Crons = {}
    None = None
    MaxCrashes = 0
    Trackers = {t1}
    Threshold = 1
    MaxBatch = 1
    MaxPosts = 2
SYMMETRY MCSymmetry
PROPERTIES
    NoUnreviewedCompletion
CHECK_DEADLOCK FALSE
