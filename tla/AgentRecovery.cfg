SPECIFICATION AgentRunFairSpec
CONSTANTS
    Servers = {s1, s2}
    MaxWorkers = 2
    MaxRecoveryAttempts = 2
    MaxGates = 0
    MaxEvents = 1
    NoWorker = NoWorker
PROPERTY StrandedRunResumes
CHECK_DEADLOCK FALSE
