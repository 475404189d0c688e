SPECIFICATION Spec
CONSTANTS
    Widths = {1, 2}
    MaxPages = 1
    MaxResizes = 2
    MaxClicks = 2
CHECK_DEADLOCK FALSE
INVARIANTS
    
    LastClickWins
PROPERTY
    ShownEventually
