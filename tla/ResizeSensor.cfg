SPECIFICATION Spec
CONSTANTS
    Listeners = {l1, l2}
    Sizes = {1, 2}
    MaxSensors = 2
    MaxListening = 3
    MaxSteps = 5
INVARIANTS OneCallPerFrame NoMissedResize PollingGoesOn
PROPERTIES CallReachesAll Refines
CHECK_DEADLOCK FALSE
