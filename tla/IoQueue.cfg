SPECIFICATION Spec
CONSTANTS
    a = a
    b = b
    c = c
    d = d
    e = e
    Threads = {a, b, c, d, e}
    bufsize = 3
    Values = {1, 2}
    Roles <- MCRoles
INVARIANTS TypeOK SleepersTold
PROPERTIES ImplementsChannel CloseReleases
