---------------------------- MODULE MC_GraphJobs ----------------------------
(* Instantiates GraphJobs for TLC: two application threads sharing one     *)
(* graph with the poll thread, one or two jobs each.                       *)
EXTENDS GraphJobs, TLC

CONSTANTS t1, t2

MC_Threads == {t1, t2}
\* Build budgets: two jobs per thread, one job per thread, and two jobs for
\* t1 only (enough for t1 to build again after its job timed out).
MC_MaxBuilds == [t \in MC_Threads |-> 2]
MC_OneBuild == [t \in MC_Threads |-> 1]
MC_Rebuild == (t1 :> 2) @@ (t2 :> 1)
\* rt_cfg.poll_opt: true as in multithread_share_graph_test, or either
\* value, false being the polling wait of benchmark_test and debugger_test.
MC_SleepMode == {TRUE}
MC_BothModes == {TRUE, FALSE}
\* The loaded graph: one whose param_map passes the relocation bounds, or
\* either that or one with an entry past the rodata buffer.
MC_GoodGraph == {TRUE}
MC_AnyGraph == BOOLEAN
\* The state without the use-after-free ghosts (freed, uaf), which no
\* action reads except to update them: for runs that check no property of
\* them.
MC_NoGhostView == <<tbufs, isFree, jstate, jbuf, jgen, ngen, sched, locked,
                    sleeping, running, doneq, pc, hnd, job, wobj, bh, builds, ppc,
                    pbatch, pobj, pollOpt, paramOk, wst>>
=============================================================================
