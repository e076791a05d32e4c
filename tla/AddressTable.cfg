SPECIFICATION Spec
CONSTANTS
    a1 = a1
    a2 = a2
    eth0 = eth0
    plain = plain
    scoped = scoped
    Addresses <- MCAddresses
    Interfaces <- MCInterfaces
    InterfaceOf <- MCInterfaceOf
    AddressConfigs <- MCAddressConfigs
    Reported = plain
    NoConfig = NoConfig
    NoEntity = NoEntity
    NoLease = NoLease
    MaxChanges = 2
INVARIANTS
    ConfiguredPresent
    UnconfiguredGone
    PresentIsTrue
PROPERTIES
    ComesToRest
CHECK_DEADLOCK FALSE
