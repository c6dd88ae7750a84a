CONSTANTS
    d1 = d1
    d2 = d2
    d3 = d3
    Dials <- TwoDials
    Backlog = 1
    AllowCancel = TRUE
SPECIFICATION DialFairSpec
CHECK_DEADLOCK FALSE
PROPERTIES DeadTunnelDetected
