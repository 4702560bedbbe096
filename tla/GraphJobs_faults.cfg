\* Timed waits (the non-pipeline threads' time_out) and failing RUNJOB
\* ioctls; t1 builds again after its job timed out or failed, so job ids
\* are reused: every error path of the wait and the flush, and the
\* invariants that survive them.
CONSTANTS
    t1 = t1
    t2 = t2
    Threads <- MC_Threads
    MaxBuilds <- MC_Rebuild
    TimedWait = TRUE
    SubmitMayFail = TRUE
    SharedHandles = FALSE
    PollModes <- MC_BothModes
    RelocModes <- MC_AnyGraph
SPECIFICATION Spec
VIEW MC_NoGhostView
INVARIANTS
    JobBufferHeld
