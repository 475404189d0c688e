SPECIFICATION Spec
CONSTANTS
    r1 = r1
    r2 = r2
    r3 = r3
    A = A
    B = B
    k1 = k1
    k2 = k2
    k3 = k3
    Requests = {r1, r2}
    Clients = {A, B}
    Codes = {k1, k2, k3}
    CodeClient <- TwoClients
    Offline = {k1, k2, k3}
    Revocable = {}
    MaxIDs = 4
    MaxFaults = 0
SYMMETRY RequestSymmetry
INVARIANT OneTokenPerClient
CHECK_DEADLOCK FALSE
