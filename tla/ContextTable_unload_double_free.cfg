\* A thread unloads its graph while a finished job still holds its thread
\* buffer, and tries again.
CONSTANTS
    t1 = t1
    t2 = t2
    Threads <- MC_Threads
    Ids <- MC_Ids
    MaxLoads = 2
    LoadMayFail = FALSE
    ConcurrentDeinit = FALSE
SPECIFICATION Spec
INVARIANT
    NoDoubleFree
