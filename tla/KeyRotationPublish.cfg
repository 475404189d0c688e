SPECIFICATION FairSpec
CONSTANTS
    s1 = s1
    s2 = s2
    Servers = {s1, s2}
    Goroutines <- RotateAndPublish
    rotationFrequency = 2
    idTokenValidFor = 3
    MinMaxAge = 1
    MaxTime = 4
    MaxTokens = 0
    MaxFaults = 1
INVARIANTS CacheCoherent FreshKeySetCurrent
PROPERTIES NoEarlyRotation DueKeysRotate
