\* One thread at a time inside load_graph (graphs loaded before the worker
\* threads start), two loads and one job per thread, failing scratch files
\* and simulator runs.  A data block of two pages makes the second block
\* malloc_buf moves the top past differ from the first.
CONSTANTS
    t1 = t1
    t2 = t2
    Threads <- MC_Threads
    Ids <- MC_Ids
    MaxLoads = 2
    MaxJobs = 1
    TextSize = 1
    RodataSize = 1
    DataSize = 2
    ConcurrentLoads = FALSE
    FileMayFail = TRUE
SPECIFICATION Spec
SYMMETRY MC_Symmetry
INVARIANTS
    TypeOK
    ArenaSound
    SimEntryTracksGraph
    NoWildOutput
