SPECIFICATION RpcFairSpec
CONSTANTS
    k1 = k1
    k2 = k2
    Clients <- MCClients
    CallsOf <- MCCallsOf
    MaxCalls = 2
    NoJob = NoJob
PROPERTIES
    EveryCallEnds
    RefinesRemoteCall
