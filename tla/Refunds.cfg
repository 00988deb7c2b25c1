SPECIFICATION Spec
CONSTANTS
    MaxRefunds = 3
    MaxRefs = 2
    Admins = {a1, a2}
    Deciders = {d1, d2}
    Hooks = {h1, h2}
    Amount = 2
    None = None
SYMMETRY MCSymmetry
INVARIANTS
    RefundsTypeOK
    FourEyes
    OneCallPerRefund
    OpenRefundsFitThePayment
    RefundedMeansAllGivenBack
CHECK_DEADLOCK FALSE
