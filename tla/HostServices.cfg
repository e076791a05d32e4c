SPECIFICATION Spec
CONSTANTS
    h1 = h1
    h2 = h2
    h3 = h3
    l1 = l1
    l2 = l2
    t1 = t1
    t2 = t2
    Stopped = Stopped
    NotThere = NotThere
    Raises = Raises
    NoTable = NoTable
    Hosts <- MCHosts
    Name <- MCName
    Unparsable <- MCUnparsable
    Links <- MCLinks
    Tables <- MCTables
    CacheSections <- MCCacheSections
    AuthoritativeSections <- MCAuthoritativeSections
    DhcpSections <- MCDhcpSections
    Default <- MCDefault
    AllAtWork <- MCAllAtWork
    Scopes <- MCScopes
    MaxEdits = 2
    MaxCommits = 2
    MaxChanges = 2
    MaxFaults = 2
    MaxReports = 2
    MaxRestarts = 1
INVARIANTS
    ServedIsCurrent
    ClientsRunAsConfigured
    LastLeaseReported
PROPERTIES
    AddressReachesCache
CHECK_DEADLOCK FALSE
