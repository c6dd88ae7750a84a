CONSTANTS
    r1 = r1
    r2 = r2
    t1 = t1
    t2 = t2
    t3 = t3
    NoReplica = NoReplica
    NoTunnel = NoTunnel
    NoLease = NoLease
    Replicas <- OneReplica
    Tunnels <- TwoTunnels
    Readers <- NoReaders
    LeaseTTL = 1
    ApiErrors = FALSE
    CleanReconnect = FALSE
    MaxCrashes = 0
SPECIFICATION Spec
INVARIANT ActiveTunnelIsFound
