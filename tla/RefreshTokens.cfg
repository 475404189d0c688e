SPECIFICATION Spec
CONSTANTS
    r1 = r1
    r2 = r2
    r3 = r3
    A = A
    B = B
    k1 = k1
    k2 = k2
    k3 = k3
    Requests = {r1, r2, r3}
    Clients = {A, B}
    Codes = {k1, k2, k3}
    CodeClient <- TwoClients
    Offline = {k1, k2, k3}
    Revocable = {A}
    MaxIDs = 3
    MaxFaults = 1
SYMMETRY RequestSymmetry
INVARIANTS ClaimedOnce CodeRedeemedOnce RefPresent RevokedStaysRevoked RefsResolve NoLockout
CHECK_DEADLOCK FALSE
