CONSTANTS
    n1 = n1  n2 = n2
    r1 = r1  r2 = r2  r3 = r3
    c1 = c1  c2 = c2
    None = None
    Nodes = {n1, n2}
    Page = n1
    Requests = {r1, r2, r3}
    Logins = {c1, c2}
    Sources = {"cpu", "docker"}
    Limit = 1
    MaxFaults = 2
SPECIFICATION Spec
SYMMETRY Symmetry
INVARIANTS TypeOK RowsHaveNodes NewestAreKept  CacheMatchesServer
CHECK_DEADLOCK FALSE
