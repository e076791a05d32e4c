SPECIFICATION Spec
CONSTANTS
    eth = eth
    vlan = vlan
    bridge = bridge
    Interfaces <- MCInterfaces
    Physical <- MCPhysical
    Configurations <- MCConfigurations
    NoInterface = NoInterface
    NoConfig = NoConfig
    NoLink = NoLink
    NoEntity = NoEntity
    NoEvent = NoEvent
    MaxChanges = 2
INVARIANTS
    StateIsTrue
    UpKept
    VirtualPresent
    RemovedGone
CHECK_DEADLOCK FALSE
