CONSTANTS
    Calls = {c1, c2, c3, c4}
    WaitAdoptsNext = FALSE
SPECIFICATION FairMutexSpec
INVARIANTS MutexTypeOK MutualExclusion
PROPERTIES ImplementsLock EveryAcquireResumes
CHECK_DEADLOCK FALSE
