\* Threads load their graphs at the same time, as the worker threads of
\* multithread_non_pipeline_test do (each calls AIPU_load_graph_helper).
CONSTANTS
    t1 = t1
    t2 = t2
    Threads <- MC_Threads
    Ids <- MC_Ids
    MaxLoads = 1
    MaxJobs = 1
    TextSize = 1
    RodataSize = 1
    DataSize = 2
    ConcurrentLoads = TRUE
    FileMayFail = FALSE
SPECIFICATION Spec
SYMMETRY MC_Symmetry
INVARIANT
    ArenaSound
