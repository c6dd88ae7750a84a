CONSTANTS
    r1 = r1
    r2 = r2
    t1 = t1
    t2 = t2
    t3 = t3
    NoReplica = NoReplica
    NoTunnel = NoTunnel
    NoLease = NoLease
    Replicas <- TwoReplicas
    Tunnels <- TwoTunnels
    Readers <- OneReplica
    LeaseTTL = 1
    ApiErrors = FALSE
    CleanReconnect = TRUE
    MaxCrashes = 1
SPECIFICATION FairSpec
INVARIANT ServedSocketIsAdvertised
PROPERTIES LiveEdgeBecomesRoutable DeadEdgeBecomesUnroutable
