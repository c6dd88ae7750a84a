CONSTANTS
    MaxConns = 2
    MaxAttempts = 2
    MaxCrashes = 1
    CleanReconnect = TRUE
    e1 = e1
    e2 = e2
    NoSyncer = NoSyncer
    Syncers <- MCSyncers
    MaxFlips = 2
    MaxSetbacks = 2
SPECIFICATION MCSpec
INVARIANTS TypesOK SyncsUnderClaim
PROPERTIES
    ImplementsLeasedWork
    DeadEdgeShownDisconnected LiveEdgeShownConnected
    EngagementSettles
CHECK_DEADLOCK FALSE
