\* Untimed waits, RUNJOB accepted: clean_job can delete a job the poll thread still holds.
CONSTANTS
    t1 = t1
    t2 = t2
    Threads <- MC_Threads
    MaxBuilds <- MC_OneBuild
    TimedWait = FALSE
    SubmitMayFail = FALSE
    SharedHandles = FALSE
    PollModes <- MC_SleepMode
    RelocModes <- MC_GoodGraph
SPECIFICATION Spec
INVARIANT NoUseAfterFree
