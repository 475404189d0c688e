SPECIFICATION LiveSpec
CONSTANTS
    i = i
    m = m
    n = n
    o = o
    None = None
    Ingresses = {i, n}
    Specs <- TypeSpecs
    useIngressClassOnly = FALSE
    ReloadFails = TRUE
    MaxChanges = 3
INVARIANT ChangesApplied
PROPERTIES AppliedEventually JoinedEventually
CHECK_DEADLOCK FALSE
