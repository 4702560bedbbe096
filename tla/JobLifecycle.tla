----------------------------- MODULE JobLifecycle -----------------------------
(***************************************************************************)
(* What the job interface of a graph promises (spec.md, GraphInstance job  *)
(* state machine): a job is built on a thread buffer that no other job     *)
(* holds, BUILT -> SCHED on a successful flush, SCHED -> DONE or EXCEPTION *)
(* when the backend reports, SCHED -> TIMEOUT when a wait's deadline       *)
(* passes; DONE, EXCEPTION and TIMEOUT are left only by clean_job, which   *)
(* gives the buffer back.  GraphJobs is checked to implement it.           *)
(***************************************************************************)
CONSTANTS JobIds, Handles, NoBuf

VARIABLES jobs, bound

Terminal == {"DONE", "EXCEPTION", "TIMEOUT"}

Init ==
    /\ jobs = [i \in JobIds |-> "NONE"]
    /\ bound = [i \in JobIds |-> NoBuf]

\* A new job takes an unused id and a buffer no job holds.
Build(i, h) ==
    /\ jobs[i] = "NONE"
    /\ \A k \in JobIds : bound[k] # h
    /\ jobs' = [jobs EXCEPT ![i] = "BUILT"]
    /\ bound' = [bound EXCEPT ![i] = h]

Flush(i) ==
    /\ jobs[i] = "BUILT"
    /\ jobs' = [jobs EXCEPT ![i] = "SCHED"]
    /\ UNCHANGED bound

Finish(i, st) ==
    /\ jobs[i] = "SCHED"
    /\ jobs' = [jobs EXCEPT ![i] = st]
    /\ UNCHANGED bound

Clean(i) ==
    /\ jobs[i] \in Terminal
    /\ jobs' = [jobs EXCEPT ![i] = "NONE"]
    /\ bound' = [bound EXCEPT ![i] = NoBuf]

Next ==
    \E i \in JobIds :
       \/ \E h \in Handles : Build(i, h)
       \/ Flush(i)
       \/ \E st \in Terminal : Finish(i, st)
       \/ Clean(i)

Spec == Init /\ [][Next]_<<jobs, bound>>
=============================================================================
