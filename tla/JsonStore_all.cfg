CONSTANTS
    s1 = s1  s2 = s2  p1 = p1  f1 = f1   x1 = x1  r1 = r1
    Missing = Missing  Partial = Partial  Mixed = Mixed
    Tasks <- AllTasks
    Kind <- AllKind
    LockGrants = TRUE
    MaxIpUpdates = 2
    MaxStops = 1
SPECIFICATION Spec
INVARIANTS TypeOK NeverTorn 
CHECK_DEADLOCK FALSE
