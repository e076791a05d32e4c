SPECIFICATION Spec
CONSTANTS
    main = main
    extra = extra
    lan = lan
    any = any
    far = far
    gw = gw
    eth0 = eth0
    Tables <- MCTables
    Main = main
    Destinations <- MCDestinations
    Gateways <- MCGateways
    Interfaces <- MCInterfaces
    Covers <- MCCovers
    Configurations <- MCConfigurations
    LeaseRoutes <- MCLeaseRoutes
    OtherRoutes <- MCOtherRoutes
    NoGateway = NoGateway
    NoInterface = NoInterface
    NoRoute = NoRoute
    NoConfig = NoConfig
    NoTable = NoTable
    NoEntity = NoEntity
    NoArgs = NoArgs
    NoEvent = NoEvent
    MaxChanges = 2
INVARIANTS
    ConfiguredPresent
    UnconfiguredGone
CHECK_DEADLOCK FALSE
