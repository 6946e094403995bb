CONSTANTS
    i1 = i1  i2 = i2  i3 = i3  d1 = d1  d2 = d2  d3 = d3  p1 = p1  r1 = r1  r2 = r2
    Shared = Shared  Fallback = Fallback
    Ids = {i1, i2}
    Domains = {d1, d2}
    Ports = {Shared, p1}
    Limits = {0, 1}
    Requests = {r1, r2}
    Ops = {"create", "edit", "rebuild", "restart", "delete", "pause", "unpause"}
    MaxInitial = 2
    MaxFaults = 1
SPECIFICATION Spec
SYMMETRY Symmetry
INVARIANTS TypeOK  
CHECK_DEADLOCK FALSE
