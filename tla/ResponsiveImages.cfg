SPECIFICATION ImagesSpec
CONSTANTS
    RuleSets <- MCRuleSets
    Widths = {0, 1, 2, 3}
    MaxAttached = 2
    MaxChanges = 3
INVARIANT OneShown
PROPERTY Follows
CHECK_DEADLOCK FALSE
