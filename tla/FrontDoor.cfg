SPECIFICATION Spec
CONSTANTS
    Users = {u1, u2}
    Phones = {p1}
    Mailboxes = {m1, m2}
    Workers = {w1, w2}
    Nobody = Nobody
    NoPath = NoPath
SYMMETRY MCSymmetry
INVARIANTS
    TypesOK
    OwnersCanSignIn
    RolesFollowRows
    NoRedirectLoop
PROPERTIES
    VisitsEndWhereTheyBelong
CHECK_DEADLOCK FALSE
