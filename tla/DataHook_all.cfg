CONSTANTS
    k1 = k1  k2 = k2
    f1 = f1  f2 = f2
    None = None
    Keys = {k1, k2}
    Fetches = {f1, f2}
    MaxVersion = 2
SPECIFICATION Spec
INVARIANTS TypeOK RestingPageIsCurrent
PROPERTIES DataNeverGoesBack 
CHECK_DEADLOCK FALSE
