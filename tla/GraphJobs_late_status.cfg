\* Timed waits: a late status for a reused job id is applied to the new job.
CONSTANTS
    t1 = t1
    t2 = t2
    Threads <- MC_Threads
    MaxBuilds <- MC_MaxBuilds
    TimedWait = TRUE
    SubmitMayFail = FALSE
    SharedHandles = FALSE
    PollModes <- MC_SleepMode
    RelocModes <- MC_GoodGraph
SPECIFICATION Spec
INVARIANT DoneMeansFinished
