SPECIFICATION MCSpec
CONSTANTS
    k1 = k1
    k2 = k2
    NoToken = NoToken
    Tokens <- TwoTokens
    MaxConns = 2
    MaxAttempts = 2
    MaxCrashes = 1
    u1 = u1
    w1 = w1
    Members <- OneUser
    Owner = u1
    Workspaces <- OneWorkspace
    DefaultWs = w1
    MaxCalls = 1
    MaxMishaps = 1
INVARIANTS TypeOK NoStrandedAgent SoftTypeOK NothingLostInGrace
PROPERTIES
    TokenNeverRevived TokenOffered
    UndeleteHolds DeletionCompletes UndeletedIsUsable
CHECK_DEADLOCK FALSE
