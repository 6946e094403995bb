CONSTANTS
    MaxFaults = 3
    None = None
SPECIFICATION Spec
INVARIANTS TypeOK StartsUnlessHindered
CHECK_DEADLOCK FALSE
