CONSTANTS
    Calls = {c1, c2}
    WaitAdoptsNext = TRUE
SPECIFICATION FairMutexSpec
PROPERTIES EveryAcquireResumes
CHECK_DEADLOCK FALSE
