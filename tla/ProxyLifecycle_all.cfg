CONSTANTS
    i1 = i1  i2 = i2  d1 = d1  d2 = d2  d3 = d3  r1 = r1  r2 = r2  r3 = r3
    NoProxy = NoProxy  Same = Same
    Ids = {i1, i2}
    Domains = {d1, d2}
    Requests = {r1, r2}
    Ops = {"create", "update", "restart", "delete", "pause", "unpause"}
    Faults = {"xray", "tele", "remove", "save", "nginx", "crash"}
    LockGrants = TRUE
    MaxFaults = 1
SPECIFICATION Spec
SYMMETRY Symmetry
INVARIANTS TypeOK ContainersAreStored 
 
CHECK_DEADLOCK FALSE
