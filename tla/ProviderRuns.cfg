SPECIFICATION MCSpec
CONSTANTS
    s1 = s1  s2 = s2
    Servers <- MCServers
    MaxWorkers = 2
    MaxRecoveryAttempts = 1
    MaxGates = 1
    MaxEvents = 2
    NoWorker = NoWorker
    q1 = q1  q2 = q2
    Studios <- MCStudios
    MaxRuns = 2
    MaxRev = 2
    MaxUpsets = 1
    NoStudio = NoStudio
INVARIANTS
    AgentRunTypeOK ExclusiveExecution RecoveriesBounded
    AssistantTypeOK ExclusiveWriter
PROPERTIES
    RunNeverStuck
    ImplementsTurnLog OrphanIsClosed
CHECK_DEADLOCK FALSE
