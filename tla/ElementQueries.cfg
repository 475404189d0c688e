SPECIFICATION Spec
CONSTANTS
    Elements = {"panel"}
    Images = {"panel"}
    Matches <- MCMatches
    Boxes <- MCBoxes
    Sheets <- MCSheets
    Scales = {1, 2}
    MaxInits = 2
    MaxSteps = 6
INVARIANTS IdsMatchSelectors ListensWhileSetUp
PROPERTIES Detected Adapts
CHECK_DEADLOCK FALSE
