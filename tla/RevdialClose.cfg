CONSTANTS
    d1 = d1
    d2 = d2
    d3 = d3
    Dials <- TwoDials
    Backlog = 1
    AllowCancel = FALSE
SPECIFICATION DialSpec
CHECK_DEADLOCK FALSE
INVARIANT CloseIsHarmless
