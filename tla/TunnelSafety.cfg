CONSTANTS
    r1 = r1
    r2 = r2
    t1 = t1
    t2 = t2
    t3 = t3
    NoReplica = NoReplica
    NoTunnel = NoTunnel
    NoLease = NoLease
    Replicas <- TwoReplicas
    Tunnels <- TwoTunnels
    Readers <- NoReaders
    LeaseTTL = 0
    ApiErrors = TRUE
    CleanReconnect = FALSE
    MaxCrashes = 1
SPECIFICATION Spec
SYMMETRY Symmetry
INVARIANTS TypeOK NoOrphanClaim NoStaleEntry
PROPERTY ImplementsTunnelRegistry
