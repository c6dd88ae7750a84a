SPECIFICATION MCSpec
CONSTANTS
    p1 = p1  p2 = p2
    c1 = c1  c2 = c2
    s1 = s1
    None = None
    Puts <- MCPuts
    Calls <- MCCalls
    Sweepers <- MCSweepers
    ApiErrors = TRUE
    q1 = q1  q2 = q2
    NoLeader = NoLeader
    Candidates <- MCCandidates
    MaxOrphans = 1
    d1 = d1  d2 = d2
    Dials <- MCDials
    Backlog = 1
    AllowCancel = TRUE
INVARIANTS
    TypesOK
    SingleRedemption TermsDoNotOverlap AnswersCoverWaiters
PROPERTIES
    LiveEntrySpared ImplementsOneShot ExpiredReclaimed
    LeaseNotHeldIdle
    DialReturns DeadTunnelDetectedWhileReading
CHECK_DEADLOCK FALSE
