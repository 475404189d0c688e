SPECIFICATION LiveSpec
CONSTANTS
    a1 = a1
    a2 = a2
    ldap = ldap
    github = github
    u1 = u1
    h1 = h1
    h2 = h2
    h3 = h3
    g1 = g1
    g2 = g2
    Backends = {"memory", "sql", "kubernetes"}
    AuthReqs = {a1}
    Connectors = {ldap, github}
    Password = {ldap}
    Users = {u1}
    Handlers = {h1, h2}
    Collectors = {g1, g2}
    MaxTime = 2
    RespondsCode = {a1}
    ValidFor = 0
    CodeValidFor = 0
    MaxCodes = 2
INVARIANTS ResponseOnce AnsweredFromLogin
PROPERTIES UnexpiredKept ExpiredCollected
