CONSTANTS
    o1 = o1  o2 = o2  o3 = o3
    Nobody = Nobody  Partial = Partial  Mixed = Mixed
    Orders = {o1, o2, o3}
    Faults = {"acme", "dns", "lost", "delete", "disk", "crash"}
    MaxFaults = 2
SPECIFICATION Spec
SYMMETRY Symmetry
INVARIANTS TypeOK LeftoversAreExcused  
CHECK_DEADLOCK FALSE
