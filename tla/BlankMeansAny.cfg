SPECIFICATION DispatchPolicySpec
CONSTANTS
    Priorities = {1, 2}
    SeedPriority = 3
    Segments = {corporate}
    MaxPolicies = 3
    Blank = Blank
    Null = Null
INVARIANTS BlankMeansAny
CHECK_DEADLOCK FALSE
