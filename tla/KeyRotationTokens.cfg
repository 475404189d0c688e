SPECIFICATION Spec
CONSTANTS
    s1 = s1
    s2 = s2
    Servers = {s1, s2}
    Goroutines <- RotateAndSign
    rotationFrequency = 2
    idTokenValidFor = 3
    MinMaxAge = 1
    MaxTime = 9
    MaxTokens = 1
    MaxFaults = 1
INVARIANT LiveTokensVerify
