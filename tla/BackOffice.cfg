SPECIFICATION OfficeSpec
CONSTANTS
    b1 = b1
    b2 = b2
    o1 = o1
    o2 = o2
    d1 = d1
    d2 = d2
    d3 = d3
    v1 = v1
    v2 = v2
    Bookings = {b1, b2}
    Orgs = {o1, o2}
    OrgOf <- MCOrgOf
    Generators = {g1, g2}
    Voiders = {x1}
    LastMonth = 2
    LastNumber = 2
    Bypass = Bypass
    None = None
    Drivers = {d1}
    ApiKeys = {k1}
    Hours = {8, 17}
    HalfDay = 4
    Servers = {s1, s2}
    ApiWorkers = {w1, w2}
    Never = Never
    WindowMs = 3
    MaxPerKey = 2
    Horizon = 8
    NoBucket = NoBucket
    TripDrivers = {d1}
    TripCars = {v1}
    FlagThreshold = 2
    MaxIntended = 2
    NoOne = NoOne
    RoomIn <- MCRoom
    Codes = {plate, default}
    DefaultSlug = default
    Clerks = {c1, c2}
    Tenants = {o1, o2}
    Staffings <- MCStaffings
    Nothing = Nothing
    Fares = {110}
    Extras = {0, 40}
    TaxRates = {0, 5}
    MaxRules = 2
    MaxPaid = 160
    NoAmount = NoAmount
    Trips = {t1, t2}
    Phones = {p1, p2}
    KnownPhones = {p1}
    Pickable = {d1, d2, d3}
    Vans = {v1, v2}
    PairedWith <- MCPaired
    MaxAsked = 3
    ListRows = {r1, r2, r3}
    Places = {1, 2, 3}
    PageSize = 1
    MaxChanges = 1
    Unread = Unread
    LocationPosts = {l1, l2}
    Ticks = {1, 2, 3}
    Spots = {0, 2}
    MaxSpeed = 1
    PickupSpot = 0
    FirstPointMax = 1
    MaxPoints = 2
    MapLimit = 2
    NoPoint = NoPoint
    Unset = Unset
    Priorities = {1, 2}
    SeedPriority = 3
    Segments = {corporate}
    MaxPolicies = 2
    Blank = Blank
    Null = Null
SYMMETRY MCSymmetry
INVARIANTS
    OfficeTypesOK
    NumbersBillOneBooking
    StoredPdfIsTheInvoice
    RequestsAddUp
    ScreensKeepUp
    RegistersAreTidy
    BillsAgree
CHECK_DEADLOCK FALSE
