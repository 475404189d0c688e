SPECIFICATION Spec
CONSTANTS
    i = i
    m = m
    n = n
    o = o
    None = None
    Ingresses = {m, n, o}
    Specs <- MergeSpecs
    useIngressClassOnly = FALSE
    ReloadFails = FALSE
    MaxChanges = 4
INVARIANTS DeletedGone MinionsJoined OldestPathWins
CHECK_DEADLOCK FALSE
