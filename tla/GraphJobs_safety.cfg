\* Waits without a timeout (time_out <= 0) and every RUNJOB accepted, the
\* configuration of the pipeline scheduling threads.  t1 builds a second
\* job on its buffer after the first is cleaned, so job ids are reused.
\* No symmetry: it is unsound for the liveness properties.
CONSTANTS
    t1 = t1
    t2 = t2
    Threads <- MC_Threads
    MaxBuilds <- MC_Rebuild
    TimedWait = FALSE
    SubmitMayFail = FALSE
    SharedHandles = FALSE
    PollModes <- MC_SleepMode
    RelocModes <- MC_GoodGraph
SPECIFICATION Spec
INVARIANTS
    TypeOK
    JobBufferHeld
    SchedJobAccounted
    DoneMeansFinished
    UntimedWaitNeverTimesOut
    WaitReportsDeviceOutcome
PROPERTIES
    ImplementsJobLifecycle
    
    WaitReturns
