SPECIFICATION Spec
CONSTANTS
    lan = lan
    eth = eth
    host = host
    plain = plain
    quoted = quoted
    value = value
    Zones = {lan, wan}
    Interfaces <- MCInterfaces
    Destinations = {host}
    Descriptions <- MCDescriptions
    Unquotable = {quoted}
    Values = {value}
    Families = {"ip"}
    Indexes <- MCIndexes
    NoArgument = NoArgument
    Clients = {c1, c2}
    Idle = Idle
    InitSections <- MCInitSections
    MaxCommands = 2
SYMMETRY MCSymmetry
INVARIANTS
    NamesUnique
    RulesetIsRunning
PROPERTIES
    AtomicUnlessRaced
