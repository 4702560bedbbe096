\* Threads load, use and unload their own graphs; loads may fail; deinit
\* runs after every thread has returned.
CONSTANTS
    t1 = t1
    t2 = t2
    Threads <- MC_Threads
    Ids <- MC_Ids
    MaxLoads = 2
    LoadMayFail = TRUE
    ConcurrentDeinit = FALSE
SPECIFICATION Spec
SYMMETRY MC_Symmetry
INVARIANTS
    TypeOK
    IdsUnique
    NoNullDeref
    NoUseAfterFree
