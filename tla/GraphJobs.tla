------------------------------ MODULE GraphJobs ------------------------------
(***************************************************************************)
(* One loaded graph of the AIPU user-mode driver (AIRT::Graph), its thread  *)
(* buffers and jobs, shared by several application threads, a status-poll  *)
(* thread (AIPU_poll_jobs_status -> MainContext::poll_job_status) and the  *)
(* kernel job queue.  This is the arrangement of                            *)
(* test/src/multithread_share_graph_test: rt_cfg.poll_opt is true, so      *)
(* waiters sleep on the job's condition variable (wait_for_job_end_sleep)  *)
(* and only the poll thread moves a job out of SCHED.                       *)
(*                                                                         *)
(* A job id is the graph id << 16 plus the smallest free index; the model   *)
(* keeps the index.  Every job object also gets a fresh generation number   *)
(* (a ghost: the address of the job_desc_t) so that a stale pointer or a    *)
(* late status for a reused id can be told from the current job.           *)
(***************************************************************************)
EXTENDS Integers, Sequences, SequencesExt, FiniteSets

CONSTANTS
    Threads,        \* application threads (model values)
    MaxBuilds,      \* named bound: build_new_job calls of each thread
    TimedWait,      \* TRUE: wait with time_out > 0 (pthread_cond_timedwait)
    SubmitMayFail,  \* TRUE: the IPUIOC_RUNJOB ioctl may fail
    SharedHandles,  \* TRUE: threads build on each other's buffer handles
    PollModes,      \* the values rt_cfg.poll_opt may be configured to
    RelocModes      \* TRUE: param_map passes build_new_job's bound checks

ASSUME /\ MaxBuilds \in [Threads -> Nat]
       /\ {TimedWait, SubmitMayFail, SharedHandles} \subseteq BOOLEAN
       /\ PollModes \subseteq BOOLEAN /\ PollModes # {}
       /\ RelocModes \subseteq BOOLEAN /\ RelocModes # {}

\* job_state_t of job_desc.h; "NONE" marks an index absent from Graph::jobs.
JobStates == {"NO_STATE", "DONE", "EXCEPTION", "BUILT", "SCHED", "TIMEOUT"}
\* The states a kernel status record (job_status_desc) carries.
DevStates == {"DONE", "EXCEPTION"}

\* Each thread owns at most one thread buffer and one job at a time, so
\* the smallest free handle or job index never exceeds the thread count.
HandleIds == 0 .. Cardinality(Threads) - 1
JobIds    == 0 .. Cardinality(Threads) - 1
TotalBuilds == SumFunction(MaxBuilds)
Gens      == 1 .. TotalBuilds
NoH  == -1
NoJ  == -1
Obj  == JobIds \X (Gens \cup {0})
Status == [id : JobIds, gen : Gens, st : DevStates]
\* The aipu_status_t values wait_for_job_end can return, "NONE" before any.
WaitCodes == {"NONE", "SUCCESS", "JOB_EXCEPTION", "JOB_TIMEOUT",
              "JOB_NOT_EXIST", "JOB_NOT_SCHED"}

VARIABLES
    tbufs,     \* Graph::tbufs: the allocated thread-buffer handles
    isFree,    \* tbuf_info_t::is_free per handle
    jstate,    \* Graph::jobs: job index -> state of the current job_desc_t
    jbuf,      \* job_desc_t::buf_handle
    jgen,      \* ghost: generation (address) of the current job_desc_t
    ngen,      \* ghost: generations handed out so far
    freed,     \* ghost: generations whose job_desc_t has been deleted
    sched,     \* Graph::sched (std::deque of job ids)
    locked,    \* job objects whose job_desc_t::lock is held
    sleeping,  \* threads blocked in pthread_cond_(timed)wait on their object
    running,   \* kernel: jobs submitted and not yet finished or killed
    doneq,     \* kernel: finished job statuses not yet read by a poll
    pc,        \* application thread program counter
    hnd,       \* the thread's buffer handle
    job,       \* the thread's job id
    wobj,      \* the job object a waiting thread looked up (get_job_ptr)
    bh,        \* the handle a thread is building a job on
    builds,    \* build_new_job calls made by the thread
    ppc,       \* poll thread program counter
    pbatch,    \* statuses returned by the last ctrl.poll_status
    pobj,      \* the job object the poll thread looked up
    uaf,       \* ghost: a deleted job_desc_t was locked, written or signalled
    pollOpt,   \* rt_cfg.poll_opt, set by AIPU_config_global before any job
    wst,       \* the state a poll-mode waiter is about to write to its job
    paramOk,   \* the loaded graph's param_map entries lie within the tbuf
    wret,      \* the code the thread's last wait_for_job_end returned, and
               \* the generation of the job it was about
    devst      \* ghost: the status the accelerator reported per generation

appVars  == <<pc, hnd, job, wobj, bh, builds, wst>>
jobVars  == <<jstate, jbuf, jgen, ngen, freed, sched>>
cfgVars  == <<pollOpt, paramOk>>
vars == <<tbufs, isFree, jobVars, locked, sleeping, running, doneq,
          appVars, ppc, pbatch, pobj, uaf, cfgVars, wret, devst>>

TypeOK ==
    /\ tbufs \subseteq HandleIds
    /\ isFree \in [HandleIds -> BOOLEAN]
    /\ jstate \in [JobIds -> JobStates \cup {"NONE"}]
    /\ jbuf \in [JobIds -> HandleIds]
    /\ jgen \in [JobIds -> Gens \cup {0}]
    /\ ngen \in 0 .. TotalBuilds
    /\ freed \subseteq Gens
    /\ sched \in Seq(JobIds)
    /\ locked \subseteq Obj
    /\ sleeping \subseteq Threads
    /\ running \subseteq Obj
    /\ doneq \in Seq(Status)
    /\ pc \in [Threads -> {"idle", "b_claim", "w_lock", "w_sleep",
                           "w_check", "w_timeout", "w_poll", "w_pkill",
                           "w_pupdate", "done"}]
    /\ hnd \in [Threads -> HandleIds \cup {NoH}]
    /\ job \in [Threads -> JobIds \cup {NoJ}]
    /\ wobj \in [Threads -> Obj]
    /\ bh \in [Threads -> HandleIds \cup {NoH}]
    /\ builds \in [Threads -> Nat]
    /\ \A t \in Threads : builds[t] <= MaxBuilds[t]
    /\ ppc \in {"poll", "lookup", "lock", "signal", "exited"}
    /\ pbatch \in Seq(Status)
    /\ pobj \in Obj
    /\ uaf \in BOOLEAN
    /\ pollOpt \in PollModes
    /\ paramOk \in BOOLEAN
    /\ wst \in [Threads -> DevStates \cup {"TIMEOUT", "NONE"}]
    /\ wret \in [Threads -> [code : WaitCodes, gen : Gens \cup {0}]]
    /\ devst \in [Gens \cup {0} -> DevStates \cup {"NONE"}]

-----------------------------------------------------------------------------
(* Helpers of AIRT::Graph.                                                 *)

\* is_job_exist_inner: built, scheduled, or is_job_end_inner (DONE or
\* EXCEPTION).  A TIMEOUT or NO_STATE job does not "exist".
is_job_exist_inner(i) == jstate[i] \in {"BUILT", "SCHED", "DONE", "EXCEPTION"}

\* create_job_id_inner: the smallest index that does not "exist".
create_job_id_inner ==
    CHOOSE i \in JobIds : ~is_job_exist_inner(i)
                          /\ \A k \in JobIds : k < i => is_job_exist_inner(k)

\* create_buf_handle_inner: the smallest handle not in tbufs.
create_buf_handle_inner ==
    CHOOSE h \in HandleIds : h \notin tbufs
                             /\ \A k \in HandleIds : k < h => k \in tbufs

\* delete_from_sched_queue_inner: the first occurrence of job i leaves sched.
delete_from_sched_queue_inner(i) == sched' = RemoveFirst(sched, i)

\* get_sched_job_cnt: sched.size().
get_sched_job_cnt == Len(sched)

\* get_tbuf_ptr(h) is non-null: handle h is in tbufs.
get_tbuf_ptr(h) == h \in tbufs

\* The job object a get_job_ptr(i) returns now.
CurObj(i) == <<i, jgen[i]>>
IsCurrent(o) == jstate[o[1]] # "NONE" /\ jgen[o[1]] = o[2]
\* State of an object: a replaced (leaked) object was TIMEOUT or NO_STATE
\* when create_job_id_inner reused its index, and nothing writes it since.
ObjState(o) == IF IsCurrent(o) THEN jstate[o[1]] ELSE "NO_STATE"
\* Touching o is a use after free when its job_desc_t has been deleted.
Touch(o) == uaf' = (uaf \/ o[2] \in freed)
\* The kernel forgets every record of job index i (IPUIOC_KILL_TIMEOUT_JOB).
kill_timeout_job(i) == running' = {o \in running : o[1] # i}

\* Graph::is_job_sched for a job in state s ("NONE": get_job_ptr is null).
is_job_sched(s) ==
    CASE s = "NONE"  -> "JOB_NOT_EXIST"
      [] s = "BUILT" -> "JOB_NOT_SCHED"
      [] OTHER       -> "SUCCESS"

\* Graph::is_job_end: DONE, EXCEPTION or TIMEOUT (unlike is_job_end_inner).
is_job_end(s) == s \in {"DONE", "EXCEPTION", "TIMEOUT"}

\* Mutant: only the first if-chain of get_job_status, which sets *status
\* but returns SUCCESS for every state.
get_job_status_status_only(s) == "SUCCESS"

\* Graph::get_job_status: the code returned for a job in state s; a state
\* that is not terminal gives NO_STATUS with SUCCESS.
get_job_status(s) ==
    CASE s = "EXCEPTION" -> "JOB_EXCEPTION"
      [] s = "TIMEOUT"   -> "JOB_TIMEOUT"
      [] OTHER           -> "SUCCESS"

\* The thread t returns code c from wait_for_job_end for generation g.  The
\* ghost keeps the codes that claim an outcome (SUCCESS, JOB_EXCEPTION); an
\* error code claims none and is kept as "NONE".
OutcomeCodes == {"SUCCESS", "JOB_EXCEPTION"}
Return(t, c, g) ==
    wret' = [wret EXCEPT ![t] = IF c \in OutcomeCodes THEN [code |-> c, gen |-> g]
                                                    ELSE [code |-> "NONE", gen |-> 0]]
\* Ghost bookkeeping when t lets go of its job id: the result of its wait
\* is no longer about a job it holds.
Forget(t) == Return(t, "NONE", 0)

-----------------------------------------------------------------------------
(* Application-thread operations, each for the calling thread t.           *)

\* Graph::alloc_thread_buffer (GROUP strategy): allocates stack, rodata and
\* reuse buffers, unwinding them on failure, then inserts the handle under
\* tbuf_lock.  A failed allocation leaves nothing behind.
alloc_thread_buffer(t) ==
    /\ pc[t] = "idle" /\ hnd[t] = NoH
    /\ \/ /\ tbufs' = tbufs \cup {create_buf_handle_inner}
          /\ isFree' = [isFree EXCEPT ![create_buf_handle_inner] = TRUE]
          /\ hnd' = [hnd EXCEPT ![t] = create_buf_handle_inner]
       \/ UNCHANGED <<tbufs, isFree, hnd>>          \* BUF_ALLOC_FAIL
    /\ UNCHANGED <<jobVars, locked, sleeping, running, doneq, pc, job, wobj, bh,
                   builds, ppc, pbatch, pobj, uaf, cfgVars, wst, wret, devst>>

\* Mutant: the is_free check is dropped, a busy buffer is freed.
free_thread_buffer_unchecked(t) ==
    /\ pc[t] = "idle" /\ hnd[t] # NoH
    /\ tbufs' = tbufs \ {hnd[t]}
    /\ hnd' = [hnd EXCEPT ![t] = NoH]
    /\ pc' = [pc EXCEPT ![t] = "done"]
    /\ UNCHANGED <<isFree, jobVars, locked, sleeping, running, doneq, job,
                   wobj, bh, builds, ppc, pbatch, pobj, uaf, cfgVars, wst, wret, devst>>

\* Graph::free_thread_buffer: a handle not free is refused (BUSY_HANDLE);
\* otherwise its buffers are freed and the handle erased.  The thread is
\* then finished with the graph.
free_thread_buffer(t) ==
    /\ pc[t] = "idle" /\ hnd[t] # NoH
    /\ \/ /\ ~isFree[hnd[t]]                        \* BUSY_HANDLE
          /\ UNCHANGED <<tbufs, isFree, hnd, pc>>
       \/ /\ isFree[hnd[t]]
          /\ tbufs' = tbufs \ {hnd[t]}
          /\ hnd' = [hnd EXCEPT ![t] = NoH]
          /\ pc' = [pc EXCEPT ![t] = "done"]
          /\ UNCHANGED isFree
    /\ UNCHANGED <<jobVars, locked, sleeping, running, doneq, job, wobj, bh,
                   builds, ppc, pbatch, pobj, uaf, cfgVars, wst, wret, devst>>

\* The handles a thread may pass to build_new_job: its own, or with
\* SharedHandles any allocated one.
BuildHandles(t) == IF SharedHandles THEN tbufs ELSE {hnd[t]} \ {NoH}

\* Mutant: no bound on the number of builds (the counter overruns).
build_new_job_unbounded(t) ==
    /\ pc[t] = "idle" /\ job[t] = NoJ
    /\ \E h \in BuildHandles(t) :
          /\ isFree[h]
          /\ pc' = [pc EXCEPT ![t] = "b_claim"]
          /\ bh' = [bh EXCEPT ![t] = h]
    /\ UNCHANGED <<tbufs, isFree, jobVars, locked, sleeping, running, doneq,
                   hnd, job, wobj, builds, ppc, pbatch, pobj, uaf, cfgVars, wst, wret, devst>>

\* Graph::build_new_job up to the is_free test, done without any lock: a
\* busy buffer is refused (BUSY_HANDLE), a free one goes on to be claimed.
build_new_job(t) ==
    /\ pc[t] = "idle" /\ job[t] = NoJ
    /\ builds[t] < MaxBuilds[t]
    /\ \E h \in BuildHandles(t) :
          \/ /\ ~isFree[h]                           \* BUSY_HANDLE
             /\ UNCHANGED <<pc, bh>>
          \/ /\ isFree[h]
             /\ pc' = [pc EXCEPT ![t] = "b_claim"]
             /\ bh' = [bh EXCEPT ![t] = h]
    /\ UNCHANGED <<tbufs, isFree, jobVars, locked, sleeping, running, doneq,
                   hnd, job, wobj, builds, ppc, pbatch, pobj, uaf, cfgVars, wst, wret, devst>>

\* ... tbuf->is_free = false, then relocation of rodata and descriptors.  A
\* param_map entry outside the rodata buffer or the section lists returns
\* INVALID_SIZE with is_free left false and no job.  Otherwise the job is
\* configured and, under job_queue_lock, stored at create_job_id_inner() --
\* overwriting a TIMEOUT or NO_STATE entry.  A buffer freed meanwhile is
\* written through the stale tbuf pointer and stays out of tbufs.
build_claim(t) ==
    LET h == bh[t]
        i == create_job_id_inner
    IN
    /\ pc[t] = "b_claim"
    /\ isFree' = IF h \in tbufs THEN [isFree EXCEPT ![h] = FALSE] ELSE isFree
    /\ \/ /\ ~paramOk                              \* INVALID_SIZE
          /\ UNCHANGED <<jstate, jbuf, jgen, ngen, job>>
       \/ /\ paramOk
          /\ jstate' = [jstate EXCEPT ![i] = "BUILT"]
          /\ jbuf' = [jbuf EXCEPT ![i] = h]
          /\ jgen' = [jgen EXCEPT ![i] = ngen + 1]
          /\ ngen' = ngen + 1
          /\ job' = [job EXCEPT ![t] = i]
    /\ builds' = [builds EXCEPT ![t] = @ + 1]
    /\ pc' = [pc EXCEPT ![t] = "idle"]
    /\ bh' = [bh EXCEPT ![t] = NoH]
    /\ UNCHANGED <<freed, sched, tbufs, locked, sleeping, running, doneq, hnd,
                   wobj, ppc, pbatch, pobj, uaf, cfgVars, wst, wret, devst>>

\* DeviceCtrl::schedule_job_on_aipu (ARM) for a job flush_job has just made
\* SCHED: IPUIOC_RUNJOB hands it to the kernel; when the ioctl fails the job
\* is set to NO_STATE but SUCCESS is still returned.
schedule_job_on_aipu(i) ==
    \/ /\ jstate' = [jstate EXCEPT ![i] = "SCHED"]
       /\ running' = running \cup {CurObj(i)}
    \/ /\ SubmitMayFail                              \* RUNJOB ioctl error
       /\ jstate' = [jstate EXCEPT ![i] = "NO_STATE"]
       /\ UNCHANGED running

\* Graph::flush_job: a job not BUILT is refused (JOB_SCHED); otherwise, under
\* job_queue_lock, it becomes SCHED and joins sched, and
\* schedule_job_on_aipu submits it.
flush_job(t) ==
    LET i == job[t] IN
    /\ pc[t] = "idle" /\ i # NoJ
    /\ \/ /\ jstate[i] # "BUILT"                     \* NOT_EXIST, JOB_SCHED
          /\ UNCHANGED <<jstate, sched, running>>
       \/ /\ jstate[i] = "BUILT"
          /\ sched' = Append(sched, i)
          /\ schedule_job_on_aipu(i)
    /\ UNCHANGED <<tbufs, isFree, jbuf, jgen, ngen, freed, locked, sleeping,
                   doneq, appVars, ppc, pbatch, pobj, uaf, cfgVars, wret, devst>>

\* MainContext::wait_for_job_end: a missing or BUILT job is refused
\* (is_job_sched), a DONE/EXCEPTION/TIMEOUT job returns get_job_status at
\* once (is_job_end); otherwise, with poll_opt, wait_for_job_end_sleep looks
\* the job object up and goes to lock its mutex, and without it the thread
\* polls the kernel for its own job.  The three lookups are one step: only
\* clean_job, by the thread itself, takes a terminal job out of the table.
wait_for_job_end(t) ==
    LET i == job[t]
        s == jstate[i]
    IN
    /\ pc[t] = "idle" /\ i # NoJ
    /\ \/ /\ is_job_sched(s) # "SUCCESS"
          /\ Return(t, is_job_sched(s), jgen[i])
          /\ UNCHANGED <<pc, wobj>>
       \/ /\ is_job_sched(s) = "SUCCESS" /\ is_job_end(s)
          /\ Return(t, get_job_status(s), jgen[i])
          /\ UNCHANGED <<pc, wobj>>
       \/ /\ is_job_sched(s) = "SUCCESS" /\ ~is_job_end(s)
          /\ wobj' = [wobj EXCEPT ![t] = CurObj(i)]
          /\ pc' = [pc EXCEPT ![t] = IF pollOpt THEN "w_lock" ELSE "w_poll"]
          /\ UNCHANGED wret
    /\ UNCHANGED <<tbufs, isFree, jobVars, locked, sleeping, running, doneq,
                   hnd, job, bh, builds, ppc, pbatch, pobj, uaf, cfgVars, wst,
                   devst>>

\* Mutant: the wait loop only ends on DONE, not on EXCEPTION.
wait_lock_done_only(t) ==
    LET o == wobj[t] IN
    /\ \/ pc[t] = "w_lock"
       \/ pc[t] = "w_sleep" /\ t \notin sleeping
    /\ o \notin locked
    /\ Touch(o)
    /\ \/ /\ ObjState(o) = "DONE"
          /\ pc' = [pc EXCEPT ![t] = "w_check"]
          /\ UNCHANGED sleeping
       \/ /\ ObjState(o) # "DONE"
          /\ sleeping' = sleeping \cup {t}
          /\ pc' = [pc EXCEPT ![t] = "w_sleep"]
    /\ UNCHANGED <<tbufs, isFree, jobVars, locked, running, doneq, hnd, job,
                   wobj, bh, builds, ppc, pbatch, pobj, cfgVars, wst, wret, devst>>

\* wait_for_job_end_sleep between pthread_mutex_lock and the unlock, on
\* entry (w_lock) or on return from a wait (w_sleep, no longer a waiter).
\* Without a timeout it loops on pthread_cond_wait until DONE or EXCEPTION;
\* with one it calls pthread_cond_timedwait once, whatever the state.
wait_lock(t) ==
    LET o == wobj[t] IN
    /\ \/ pc[t] = "w_lock"
       \/ pc[t] = "w_sleep" /\ t \notin sleeping
    /\ o \notin locked
    /\ Touch(o)
    /\ \/ /\ \/ TimedWait /\ pc[t] = "w_sleep"
             \/ ~TimedWait /\ ObjState(o) \in {"DONE", "EXCEPTION"}
          /\ pc' = [pc EXCEPT ![t] = "w_check"]
          /\ UNCHANGED sleeping
       \/ /\ \/ TimedWait /\ pc[t] = "w_lock"
             \/ ~TimedWait /\ ObjState(o) \notin {"DONE", "EXCEPTION"}
          /\ sleeping' = sleeping \cup {t}
          /\ pc' = [pc EXCEPT ![t] = "w_sleep"]
    /\ UNCHANGED <<tbufs, isFree, jobVars, locked, running, doneq, hnd, job,
                   wobj, bh, builds, ppc, pbatch, pobj, cfgVars, wst, wret, devst>>

\* pthread_cond_timedwait reaching its deadline: the thread stops waiting.
wait_timed_out(t) ==
    /\ TimedWait /\ pc[t] = "w_sleep" /\ t \in sleeping
    /\ sleeping' = sleeping \ {t}
    /\ UNCHANGED <<tbufs, isFree, jobVars, locked, running, doneq, appVars,
                   ppc, pbatch, pobj, uaf, cfgVars, wret, devst>>

\* Mutant: only DONE counts as ended, an EXCEPTION job is killed.
wait_check_done_only(t) ==
    LET o == wobj[t] IN
    /\ pc[t] = "w_check"
    /\ Touch(o)
    /\ \/ /\ ObjState(o) = "DONE"
          /\ pc' = [pc EXCEPT ![t] = "idle"]
          /\ wobj' = [wobj EXCEPT ![t] = <<0, 0>>]
          /\ Return(t, "SUCCESS", o[2])
          /\ UNCHANGED running
       \/ /\ ObjState(o) # "DONE"
          /\ kill_timeout_job(o[1])
          /\ pc' = [pc EXCEPT ![t] = "w_timeout"]
          /\ UNCHANGED <<wobj, wret>>
    /\ UNCHANGED <<tbufs, isFree, jobVars, locked, sleeping, doneq, hnd, job,
                   bh, builds, ppc, pbatch, pobj, cfgVars, wst, devst>>

\* After pthread_mutex_unlock, job->state is read without the lock: DONE
\* returns SUCCESS and EXCEPTION JOB_EXCEPTION; anything else kills the job
\* in the kernel.
wait_check(t) ==
    LET o == wobj[t] IN
    /\ pc[t] = "w_check"
    /\ Touch(o)
    /\ \/ /\ ObjState(o) \in {"DONE", "EXCEPTION"}
          /\ pc' = [pc EXCEPT ![t] = "idle"]
          /\ wobj' = [wobj EXCEPT ![t] = <<0, 0>>]
          /\ Return(t, IF ObjState(o) = "DONE" THEN "SUCCESS"
                                               ELSE "JOB_EXCEPTION", o[2])
          /\ UNCHANGED running
       \/ /\ ObjState(o) \notin {"DONE", "EXCEPTION"}
          /\ kill_timeout_job(o[1])
          /\ pc' = [pc EXCEPT ![t] = "w_timeout"]
          /\ UNCHANGED <<wobj, wret>>
    /\ UNCHANGED <<tbufs, isFree, jobVars, locked, sleeping, doneq, hnd, job,
                   bh, builds, ppc, pbatch, pobj, cfgVars, wst, devst>>

\* ... then job->state = JOB_STATE_TIMEOUT, written without the lock, and
\* JOB_TIMEOUT is returned.
wait_set_timeout(t) ==
    LET o == wobj[t] IN
    /\ pc[t] = "w_timeout"
    /\ Touch(o)
    /\ jstate' = IF IsCurrent(o) THEN [jstate EXCEPT ![o[1]] = "TIMEOUT"]
                                 ELSE jstate
    /\ pc' = [pc EXCEPT ![t] = "idle"]
    /\ wobj' = [wobj EXCEPT ![t] = <<0, 0>>]
    /\ Return(t, "JOB_TIMEOUT", o[2])
    /\ UNCHANGED <<tbufs, isFree, jbuf, jgen, ngen, freed, sched, locked,
                   sleeping, running, doneq, hnd, job, bh, builds, ppc,
                   pbatch, pobj, cfgVars, wst, devst>>

\* dev_op_wrapper_poll(fd, .., 1, time_out, true, id): poll() on the device
\* returns once any status is queued (POLLIN), or at the deadline of a
\* timed wait; IPUIOC_QUERYSTATUS with get_single_job then answers with the
\* queued statuses of that job id only (their positions in doneq).
dev_op_wrapper_poll(i) == {k \in DOMAIN doneq : doneq[k].id = i}

\* wait_for_job_end without poll_opt: ctrl.poll_status(jobs_status, 1,
\* time_out, 1, job_id) takes the oldest status of this job, if any; an
\* empty answer is taken for a timeout.
wait_poll(t) ==
    LET mine == dev_op_wrapper_poll(job[t]) IN
    /\ pc[t] = "w_poll"
    /\ doneq # <<>> \/ TimedWait
    /\ \/ /\ mine # {}
          /\ wst' = [wst EXCEPT ![t] = doneq[Min(mine)].st]
          /\ doneq' = RemoveAt(doneq, Min(mine))
          /\ pc' = [pc EXCEPT ![t] = "w_pupdate"]
       \/ /\ mine = {}
          /\ pc' = [pc EXCEPT ![t] = "w_pkill"]
          /\ UNCHANGED <<wst, doneq>>
    /\ UNCHANGED <<tbufs, isFree, jobVars, locked, sleeping, running, hnd, job,
                   wobj, bh, builds, ppc, pbatch, pobj, uaf, cfgVars, wret, devst>>

\* ... no status: ctrl.kill_timeout_job(job_id), then the job is updated to
\* TIMEOUT.
wait_poll_kill(t) ==
    /\ pc[t] = "w_pkill"
    /\ kill_timeout_job(job[t])
    /\ wst' = [wst EXCEPT ![t] = "TIMEOUT"]
    /\ pc' = [pc EXCEPT ![t] = "w_pupdate"]
    /\ UNCHANGED <<tbufs, isFree, jobVars, locked, sleeping, doneq, hnd, job,
                   wobj, bh, builds, ppc, pbatch, pobj, uaf, cfgVars, wret, devst>>

\* Graph::update_job_status(&jobs_status[0], 0) or (job_id, TIMEOUT): the job
\* of that id now (get_job_ptr), its state written under job->lock with no
\* signal; none (another thread cleaned the id) is JOB_NOT_EXIST.  The
\* timeout path returns JOB_TIMEOUT whatever the update did; the status path
\* returns what update_job_status returned, SUCCESS for DONE and EXCEPTION.
wait_poll_update(t) ==
    LET i == job[t] IN
    /\ pc[t] = "w_pupdate"
    /\ \/ /\ jstate[i] = "NONE"                     \* JOB_NOT_EXIST
          /\ UNCHANGED jstate
       \/ /\ jstate[i] # "NONE" /\ CurObj(i) \notin locked
          /\ jstate' = [jstate EXCEPT ![i] = wst[t]]
    /\ pc' = [pc EXCEPT ![t] = "idle"]
    /\ wobj' = [wobj EXCEPT ![t] = <<0, 0>>]
    /\ wst' = [wst EXCEPT ![t] = "NONE"]
    /\ Return(t, CASE wst[t] = "TIMEOUT" -> "JOB_TIMEOUT"
                    [] jstate[i] = "NONE" -> "JOB_NOT_EXIST"
                    [] OTHER              -> "SUCCESS", jgen[i])
    /\ UNCHANGED <<tbufs, isFree, jbuf, jgen, ngen, freed, sched, locked,
                   sleeping, running, doneq, hnd, job, bh, builds, ppc,
                   pbatch, pobj, uaf, cfgVars, devst>>

\* Mutant: the NOT_END check is dropped, a SCHED job can be cleaned.
clean_job_no_sched_check(t) ==
    LET i == job[t] IN
    /\ pc[t] = "idle" /\ i # NoJ
    /\ jstate[i] \in {"DONE", "EXCEPTION", "TIMEOUT", "NO_STATE", "SCHED"}
    /\ isFree' = [isFree EXCEPT ![jbuf[i]] = TRUE]
    /\ delete_from_sched_queue_inner(i)
    /\ jstate' = [jstate EXCEPT ![i] = "NONE"]
    /\ freed' = freed \cup {jgen[i]}
    /\ job' = [job EXCEPT ![t] = NoJ]
    /\ jbuf' = [jbuf EXCEPT ![i] = 0]
    /\ jgen' = [jgen EXCEPT ![i] = 0]
    /\ UNCHANGED <<ngen, tbufs, locked, sleeping, running, doneq, pc, hnd,
                   wobj, bh, builds, ppc, pbatch, pobj, uaf, cfgVars, wst, wret, devst>>

\* Graph::clean_job: a missing job is JOB_NOT_EXIST, a BUILT job NOT_SCHED,
\* a SCHED job NOT_END; any other job frees its thread buffer (if the handle
\* is still allocated), leaves sched and is erased and deleted under
\* job_queue_lock.  The thread forgets the id unless the call was refused;
\* the ghost outcome of a deleted job is dropped with it.
clean_job(t) ==
    LET i == job[t] IN
    /\ pc[t] = "idle" /\ i # NoJ
    /\ \/ /\ jstate[i] = "NONE"                     \* JOB_NOT_EXIST
          /\ job' = [job EXCEPT ![t] = NoJ]
          /\ Forget(t)
          /\ UNCHANGED <<isFree, jobVars, devst>>
       \/ /\ jstate[i] \in {"BUILT", "SCHED"}        \* NOT_SCHED, NOT_END
          /\ UNCHANGED <<isFree, jobVars, job, wret, devst>>
       \/ /\ jstate[i] \in {"DONE", "EXCEPTION", "TIMEOUT", "NO_STATE"}
          /\ isFree' = IF get_tbuf_ptr(jbuf[i])
                       THEN [isFree EXCEPT ![jbuf[i]] = TRUE] ELSE isFree
          /\ delete_from_sched_queue_inner(i)
          /\ jstate' = [jstate EXCEPT ![i] = "NONE"]
          /\ freed' = freed \cup {jgen[i]}
          /\ job' = [job EXCEPT ![t] = NoJ]
          /\ jbuf' = [jbuf EXCEPT ![i] = 0]      \* no job_desc_t: no fields
          /\ jgen' = [jgen EXCEPT ![i] = 0]
          /\ devst' = [devst EXCEPT ![jgen[i]] = "NONE"]
          /\ Forget(t)
          /\ UNCHANGED ngen
    /\ UNCHANGED <<tbufs, locked, sleeping, running, doneq, pc, hnd, wobj, bh,
                   builds, ppc, pbatch, pobj, uaf, cfgVars, wst>>

-----------------------------------------------------------------------------
(* The kernel: a submitted job finishes with DONE or EXCEPTION and its      *)
(* status waits for a poll (the KMD is not part of this repository).       *)

device_done(o, st) ==
    /\ o \in running
    /\ running' = running \ {o}
    /\ doneq' = Append(doneq, [id |-> o[1], gen |-> o[2], st |-> st])
    /\ devst' = [devst EXCEPT ![o[2]] = st]
    /\ UNCHANGED <<tbufs, isFree, jobVars, locked, sleeping, appVars, ppc,
                   pbatch, pobj, uaf, cfgVars, wret>>

-----------------------------------------------------------------------------
(* The poll thread of job_status_poll.cpp: AIPU_poll_jobs_status in a loop, *)
(* leaving the loop on the first error.                                    *)

\* MainContext::get_max_poll_job_cnt: one more than the jobs in the sched
\* queues of the loaded graphs (here the one graph).
get_max_poll_job_cnt == 1 + get_sched_job_cnt

\* Mutant: off by one, the last status taken from the kernel is not kept.
poll_status_drop_last(n) ==
    /\ ppc = "poll" /\ doneq # <<>>
    /\ n = IF get_max_poll_job_cnt < Len(doneq) THEN get_max_poll_job_cnt
                                                ELSE Len(doneq)
    /\ pbatch' = SubSeq(doneq, 1, n - 1)
    /\ doneq' = SubSeq(doneq, n + 1, Len(doneq))
    /\ ppc' = IF n = 1 THEN "poll" ELSE "lookup"
    /\ UNCHANGED <<tbufs, isFree, jobVars, locked, sleeping, running, appVars,
                   pobj, uaf, cfgVars, wret, devst>>

\* MainContext::poll_job_status: ctrl.poll_status returns up to
\* get_max_poll_job_cnt() finished statuses, oldest first.
poll_status(n) ==
    /\ ppc = "poll" /\ doneq # <<>>
    /\ n = IF get_max_poll_job_cnt < Len(doneq) THEN get_max_poll_job_cnt
                                                ELSE Len(doneq)
    /\ pbatch' = SubSeq(doneq, 1, n)
    /\ doneq' = SubSeq(doneq, n + 1, Len(doneq))
    /\ ppc' = "lookup"
    /\ UNCHANGED <<tbufs, isFree, jobVars, locked, sleeping, running, appVars,
                   pobj, uaf, cfgVars, wret, devst>>

\* update_job_status(status, 1), first get_job_ptr: a missing job makes
\* poll_job_status return JOB_NOT_EXIST, dropping the rest of the batch,
\* and the poll thread leaves its loop for good.
poll_lookup ==
    LET i == Head(pbatch).id IN
    /\ ppc = "lookup"
    /\ \/ /\ jstate[i] = "NONE"
          /\ ppc' = "exited"
          /\ pbatch' = <<>>
          /\ UNCHANGED pobj
       \/ /\ jstate[i] # "NONE"
          /\ pobj' = CurObj(i)
          /\ ppc' = "lock"
          /\ UNCHANGED pbatch
    /\ UNCHANGED <<tbufs, isFree, jobVars, locked, sleeping, running, doneq,
                   appVars, uaf, cfgVars, wret, devst>>

\* ... pthread_mutex_lock(&job->lock); job->state = status->state.
poll_lock ==
    /\ ppc = "lock" /\ pobj \notin locked
    /\ Touch(pobj)
    /\ locked' = locked \cup {pobj}
    /\ jstate' = IF IsCurrent(pobj)
                 THEN [jstate EXCEPT ![pobj[1]] = Head(pbatch).st] ELSE jstate
    /\ ppc' = "signal"
    /\ UNCHANGED <<tbufs, isFree, jbuf, jgen, ngen, freed, sched, sleeping,
                   running, doneq, appVars, pbatch, pobj, cfgVars, wret, devst>>

poll_signal ==
    /\ ppc = "signal"
    /\ Touch(pobj)
    /\ \/ \E t \in sleeping : /\ wobj[t] = pobj
                              /\ sleeping' = sleeping \ {t}
       \/ /\ \A t \in sleeping : wobj[t] # pobj
          /\ UNCHANGED sleeping
    /\ locked' = locked \ {pobj}
    /\ pbatch' = Tail(pbatch)
    /\ ppc' = IF Tail(pbatch) = <<>> THEN "poll" ELSE "lookup"
    /\ pobj' = <<0, 0>>
    /\ UNCHANGED <<tbufs, isFree, jobVars, running, doneq, appVars, cfgVars, wret, devst>>

-----------------------------------------------------------------------------

\* Every application thread has freed its buffer: the test program ends.
Finished ==
    /\ \A t \in Threads : pc[t] = "done"
    /\ UNCHANGED vars

\* MainContext::set_runtime_config (AIPU_config_global before the threads
\* start): rt_cfg, and with it poll_opt, is copied from the caller.
set_runtime_config == pollOpt \in PollModes

Init ==
    /\ tbufs = {}
    /\ isFree = [h \in HandleIds |-> TRUE]
    /\ jstate = [i \in JobIds |-> "NONE"]
    /\ jbuf = [i \in JobIds |-> 0]
    /\ jgen = [i \in JobIds |-> 0]
    /\ ngen = 0
    /\ freed = {}
    /\ sched = <<>>
    /\ locked = {}
    /\ sleeping = {}
    /\ running = {}
    /\ doneq = <<>>
    /\ pc = [t \in Threads |-> "idle"]
    /\ hnd = [t \in Threads |-> NoH]
    /\ job = [t \in Threads |-> NoJ]
    /\ wobj = [t \in Threads |-> <<0, 0>>]
    /\ bh = [t \in Threads |-> NoH]
    /\ builds = [t \in Threads |-> 0]
    /\ ppc = "poll"
    /\ pbatch = <<>>
    /\ pobj = <<0, 0>>
    /\ uaf = FALSE
    /\ set_runtime_config
    /\ paramOk \in RelocModes
    /\ wst = [t \in Threads |-> "NONE"]
    /\ wret = [t \in Threads |-> [code |-> "NONE", gen |-> 0]]
    /\ devst = [g \in Gens \cup {0} |-> "NONE"]

AppCall(t) ==
    \/ alloc_thread_buffer(t) \/ free_thread_buffer(t) \/ build_new_job(t)
    \/ build_claim(t) \/ flush_job(t) \/ wait_for_job_end(t) \/ clean_job(t)

WaitStep(t) ==
    \/ wait_lock(t) \/ wait_timed_out(t) \/ wait_check(t)
    \/ wait_set_timeout(t) \/ wait_poll(t) \/ wait_poll_kill(t)
    \/ wait_poll_update(t)

PollStep ==
    \/ \E n \in 1 .. TotalBuilds : poll_status(n)
    \/ poll_lookup \/ poll_lock \/ poll_signal

DeviceStep(o) == \E st \in DevStates : device_done(o, st)

Next ==
    \/ \E t \in Threads : AppCall(t) \/ WaitStep(t)
    \/ \E o \in Obj : DeviceStep(o)
    \/ PollStep
    \/ Finished

\* OS threads are scheduled fairly, the accelerator finishes what it runs,
\* and the poll thread keeps calling AIPU_poll_jobs_status.  The
\* application's own API calls get no fairness: it may stop calling.
Fairness ==
    /\ \A t \in Threads : WF_vars(WaitStep(t))
    /\ \A o \in Obj : WF_vars(DeviceStep(o))
    /\ WF_vars(PollStep)

Spec == Init /\ [][Next]_vars /\ Fairness

-----------------------------------------------------------------------------
(* Properties.                                                             *)

\* Kernel statuses that no update_job_status has written yet: the kernel's
\* queue and the poll batch, less the head once poll_lock has written it.
Unapplied ==
    ToSet(doneq) \cup ToSet(IF ppc = "signal" THEN Tail(pbatch) ELSE pbatch)

\* Every job in Graph::jobs holds its own thread buffer: the handle is still
\* allocated, marked busy, and no other job uses it -- free_thread_buffer
\* refuses a busy handle and build_new_job a busy buffer, even when another
\* thread cleans or overwrites the job.
JobBufferHeld ==
    \A i \in JobIds : jstate[i] # "NONE" =>
       /\ jbuf[i] \in tbufs /\ ~isFree[jbuf[i]]
       /\ \A k \in JobIds \ {i} : jstate[k] # "NONE" => jbuf[k] # jbuf[i]

\* A wait with time_out <= 0 waits indefinitely (spec.md wait_job, the same
\* contract for both wait strategies): no job is ever marked TIMEOUT, by
\* wait_for_job_end_sleep's unlocked check or by the polling wait.
UntimedWaitNeverTimesOut ==
    ~TimedWait => \A i \in JobIds : jstate[i] # "TIMEOUT"

\* A busy thread buffer belongs to a job still in Graph::jobs, so clean_job
\* can give it back and free_thread_buffer can then release it.  Not a
\* property of the code: build_new_job's INVALID_SIZE return (graph.cpp
\* 1227-1248) leaves the buffer busy with no job (README, known divergences).
BusyBufferHasJob ==
    \A h \in tbufs : ~isFree[h] => \E i \in JobIds : jstate[i] # "NONE" /\ jbuf[i] = h

\* A job flush_job left SCHED is still on the accelerator, or its status is
\* on its way through poll_job_status, or its own waiter has killed it and
\* is about to mark it TIMEOUT: nobody waits on a job that can never
\* complete, and the kill by id of kill_timeout_job reaches no other job.
SchedJobAccounted ==
    \A i \in JobIds :
       jstate[i] = "SCHED" =>
          \/ CurObj(i) \in running
          \/ \E s \in Unapplied : s.id = i /\ s.gen = jgen[i]
          \/ \E t \in Threads : pc[t] = "w_timeout" /\ wobj[t] = CurObj(i)

\* A job the driver reports DONE or EXCEPTION is not still running on the
\* accelerator: update_job_status never applies a status meant for another
\* job that had the same id.
DoneMeansFinished ==
    \A i \in JobIds :
       jstate[i] \in {"DONE", "EXCEPTION"} => CurObj(i) \notin running

\* What wait_for_job_end returns is what the accelerator reported for the
\* caller's job, whichever path answered (get_job_status at once, the
\* sleeping wait, the polling wait): SUCCESS only for a job that finished
\* DONE, JOB_EXCEPTION only for one that raised an exception (spec.md: both
\* wait strategies satisfy the same wait_job contract).
WaitReportsDeviceOutcome ==
    \A t \in Threads :
       /\ wret[t].code = "SUCCESS" => devst[wret[t].gen] = "DONE"
       /\ wret[t].code = "JOB_EXCEPTION" => devst[wret[t].gen] = "EXCEPTION"

\* Once a job is DONE, EXCEPTION or TIMEOUT it keeps that state until
\* clean_job deletes it: neither a late update_job_status nor a waiter's
\* timeout path rewrites a finished job.  Not a property of the code with
\* timed waits, where a late DONE overwrites TIMEOUT (README, known
\* divergences).
TerminalStateStable ==
    [][\A i \in JobIds :
          jstate[i] \in {"DONE", "EXCEPTION", "TIMEOUT"} /\ jgen'[i] = jgen[i]
             => jstate'[i] \in {jstate[i], "NONE"}]_vars

\* No job_desc_t is locked, written or signalled after clean_job deleted it.
NoUseAfterFree == ~uaf

\* The job table seen through the interface: an index absent from
\* Graph::jobs holds no buffer.
Lifecycle == INSTANCE JobLifecycle
    WITH Handles <- HandleIds, NoBuf <- NoH,
         jobs <- jstate,
         bound <- [i \in JobIds |-> IF jstate[i] = "NONE" THEN NoH ELSE jbuf[i]]

\* The driver's job table only moves the way the spec's state machine
\* allows: build on a buffer no job holds, flush, one report or timeout,
\* clean -- through every interleaving of threads, poll thread and kernel.
ImplementsJobLifecycle == Lifecycle!Spec

WaitReturns ==
    \A t \in Threads : pc[t] \in {"w_lock", "w_sleep", "w_check", "w_timeout",
                                 "w_poll", "w_pkill", "w_pupdate"}
                          ~> pc[t] = "idle"

=============================================================================
