CONSTANTS
    i1 = i1  i2 = i2
    None = None
    Installs = {i1, i2}
    MaxActions = 1
SPECIFICATION Spec
INVARIANTS TypeOK InstalledTokenWorks
PROPERTIES DataSurvives EveryInstallEnds
CHECK_DEADLOCK FALSE
