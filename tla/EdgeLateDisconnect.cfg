CONSTANTS
    MaxConns = 2
    MaxAttempts = 5
    MaxCrashes = 0
    CleanReconnect = TRUE
SPECIFICATION FairSpec
PROPERTY HubViewUpToDate
CHECK_DEADLOCK FALSE
