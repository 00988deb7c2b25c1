SPECIFICATION Spec
CONSTANTS
    Bookings = {b1}
    Drivers = {d1, d2}
    Vehicles = {v1}
    Quotes <- MCOneQuote
    Workers = {w1, w2}
    Crons = {c1}
    None = None
    MaxCrashes = 1
SYMMETRY MCSymmetry
INVARIANTS
    TypeOK
    AuditIsOnePath
    AssignmentHistoryAgrees
    OutboxMatchesAudit
    AtMostOneLateTransition
    DriversAdvanceOwnTrips
PROPERTIES
    ImplementsTrip
CHECK_DEADLOCK FALSE
