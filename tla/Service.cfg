SPECIFICATION ServiceSpec
CONSTANTS
    p1 = p1
    p2 = p2
    p3 = p3
    Absent = Absent
    Providers <- MCProviders
    Mqtt = p1
    Monitor = p2
    NumSubscribers = 2
    MaxEvents = 3
INVARIANTS
    TokensMatchItems
    RequirementsServed
    AllOrNoneActive
PROPERTIES
    InOrder
    EventuallySeen
    LoadingEnds
CHECK_DEADLOCK FALSE
