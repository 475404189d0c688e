SPECIFICATION Spec
CONSTANTS
    Docs = {main, frame}
    Main = main
    CloneNames = {"p"}
    OtherNames = {"nav"}
    Browsers <- MCBrowsers
    NewFeatures = {"retina", "print"}
    MaxDepth = 3
    MaxCalls = 3
CHECK_DEADLOCK FALSE
INVARIANTS
    DocumentRestored
    ClassesAgree
    MadeByOwnDocument
PROPERTY
    KeptResults
