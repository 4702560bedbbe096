----------------------------- MODULE SimBackend -----------------------------
(***************************************************************************)
(* The x86 simulation backend of AIRT::DeviceCtrl (device_ctrl.cpp, the    *)
(* X86_LINUX branches) under the graphs application threads load, run and  *)
(* unload: the software arena simulation_malloc_top that alloc_text_buffer,*)
(* malloc_buf and simulation_alloc_data_buffer carve device addresses      *)
(* from, the std::map graphs of simulation resources keyed by graph id,    *)
(* and glock around the simulator run in schedule_job_on_aipu.  On the     *)
(* Graph side: Graph::load (X86 branch) as load_graph calls it through     *)
(* create_graph_object, the one thread buffer it creates, and              *)
(* Graph::unload.  MainContext's table is reduced to the id reservation    *)
(* of load_graph (ContextTable models the rest of it).                     *)
(*                                                                         *)
(* Sizes are in pages: every size the backend adds to the arena has been   *)
(* through ALIGN_PAGE, and every alignment is one page, so                 *)
(* get_aligned_addr returns the top unchanged.                             *)
(***************************************************************************)
EXTENDS Integers, FiniteSets

CONSTANTS
    Threads,          \* application threads, each loading its own graphs
    Ids,              \* graph ids create_unique_graph_id_inner hands out
    MaxLoads,         \* load_graph calls per thread
    MaxJobs,          \* jobs built per loaded graph
    TextSize,         \* ALIGN_PAGE(text_size): the text buffer
    RodataSize,       \* ALIGN_PAGE(rodata_size + dcr_size)
    DataSize,         \* stack, static and reuse sections, laid out together
    ConcurrentLoads,  \* TRUE: threads may be inside load_graph together
    FileMayFail       \* TRUE: scratch files and the simulator may fail

ASSUME /\ Ids = 1 .. Cardinality(Ids)
       /\ {MaxLoads, MaxJobs} \subseteq Nat
       \* alloc_text_buffer refuses a zero text_size; parse_bss_section a
       \* zero stack, so the data block is at least a page.
       /\ {TextSize, RodataSize, DataSize} \subseteq Nat \ {0}
       /\ {ConcurrentLoads, FileMayFail} \subseteq BOOLEAN

\* No entry in DeviceCtrl::graphs; a present entry is a simulation_res_t
\* whose data block and output list may have been set.
Absent == [in |-> FALSE, data |-> FALSE, outputs |-> FALSE]
NoThread == "none"     \* glock not held
NoPa == -1             \* a buffer_desc_t whose va is nullptr

VARIABLES
    top,      \* DeviceCtrl::simulation_malloc_top
    graphs,   \* DeviceCtrl::graphs: id -> simulation_res_t or Absent
    glock,    \* the thread holding DeviceCtrl::glock, or NoThread
    table,    \* MainContext::graphs: id -> "absent", "null" (placeholder), "graph"
    pc,       \* per thread: where it is
    gid,      \* per thread: the id of its graph (0: none)
    reg,      \* per thread: the value of simulation_malloc_top it read
    text,     \* per thread: its Graph's pbuf.text.pa (NoPa: va nullptr)
    rodata,   \* per thread: its tbuf->rodata.pa
    stack,    \* per thread: its tbuf->stack.pa, the base of the data block
    tb,       \* per thread: its Graph's thread buffer: "none", "free", "busy"
    job,      \* per thread: its job: "NONE", "BUILT", "DONE", "EXCEPTION"
    loads,    \* per thread: load_graph calls made
    jobs,     \* per thread: jobs built on the graph it holds
    dpc,      \* the main thread: "run", then "done" after deinit
    live,     \* arena ranges of buffers not yet given back (history)
    wild      \* simulator output was copied to a freed buffer (history)

thrVars == <<pc, gid, reg, text, rodata, stack, tb, job, loads, jobs>>
vars == <<top, graphs, glock, table, thrVars, dpc, live, wild>>

SimRes == [in : BOOLEAN, data : BOOLEAN, outputs : BOOLEAN]
Pa == Nat \cup {NoPa}
Kinds == {"text", "rodata", "data"}
ArenaBuf == [g : Ids, kind : Kinds, lo : Nat, hi : Nat]
LoadPcs == {"l_text", "l_text_top", "l_load_text", "l_ro", "l_ro_top",
            "l_stack", "l_stack_top", "l_data", "l_io", "l_fail"}

TypeOK ==
    /\ top \in Nat
    /\ graphs \in [Ids -> SimRes]
    /\ glock \in Threads \cup {NoThread}
    /\ table \in [Ids -> {"absent", "null", "graph"}]
    /\ pc \in [Threads -> LoadPcs \cup {"idle", "s_lock", "s_run", "done"}]
    /\ gid \in [Threads -> Ids \cup {0}]
    /\ reg \in [Threads -> Nat]
    /\ text \in [Threads -> Pa] /\ rodata \in [Threads -> Pa]
    /\ stack \in [Threads -> Pa]
    /\ tb \in [Threads -> {"none", "free", "busy"}]
    /\ job \in [Threads -> {"NONE", "BUILT", "DONE", "EXCEPTION"}]
    /\ loads \in [Threads -> 0 .. MaxLoads]
    /\ jobs \in [Threads -> 0 .. MaxJobs]
    /\ dpc \in {"run", "done"}
    /\ live \subseteq ArenaBuf
    /\ wild \in BOOLEAN

\* DeviceCtrl::init (X86): simulation_malloc_top = 0; the map starts empty.
Init ==
    /\ top = 0
    /\ graphs = [i \in Ids |-> Absent]
    /\ glock = NoThread
    /\ table = [i \in Ids |-> "absent"]
    /\ pc = [t \in Threads |-> "idle"]
    /\ gid = [t \in Threads |-> 0]
    /\ reg = [t \in Threads |-> 0]
    /\ text = [t \in Threads |-> NoPa]
    /\ rodata = [t \in Threads |-> NoPa]
    /\ stack = [t \in Threads |-> NoPa]
    /\ tb = [t \in Threads |-> "none"]
    /\ job = [t \in Threads |-> "NONE"]
    /\ loads = [t \in Threads |-> 0]
    /\ jobs = [t \in Threads |-> 0]
    /\ dpc = "run"
    /\ live = {}
    /\ wild = FALSE

-----------------------------------------------------------------------------
(* Helpers.                                                                *)

Set(f, t, v) == [f EXCEPT ![t] = v]
Goto(t, p) == pc' = Set(pc, t, p)
Buf(g, kind, lo, size) == [g |-> g, kind |-> kind, lo |-> lo, hi |-> lo + size]
BufsOf(t, kinds) == {b \in live : b.g = gid[t] /\ b.kind \in kinds}
HasEntry(g) == graphs[g].in

\* create_unique_graph_id_inner: the smallest id with no table entry.
create_unique_graph_id_inner ==
    CHOOSE i \in Ids : table[i] = "absent"
                       /\ \A k \in Ids : k < i => table[k] # "absent"

-----------------------------------------------------------------------------
(* load_graph and Graph::load (X86), for thread t.  Nothing orders two     *)
(* threads' loads: load_graph holds gt_lock only to reserve the id and to  *)
(* install the Graph, and Graph::load takes no lock.  Without              *)
(* ConcurrentLoads one thread loads at a time, as a program does that      *)
(* loads its graphs before it starts its worker threads.                   *)

\* MainContext::load_graph up to create_graph_object: the smallest unused id
\* gets the nullptr placeholder under gt_lock, and a new Graph starts with
\* no buffers.  (A parse_graph error returns before this.)
load_graph(t) ==
    LET g == create_unique_graph_id_inner IN
    /\ pc[t] = "idle" /\ gid[t] = 0 /\ loads[t] < MaxLoads /\ dpc = "run"
    /\ \E i \in Ids : table[i] = "absent"
    /\ ConcurrentLoads \/ \A u \in Threads : pc[u] \notin LoadPcs
    /\ table' = Set(table, g, "null")
    /\ gid' = Set(gid, t, g)
    /\ loads' = Set(loads, t, loads[t] + 1)
    /\ text' = Set(text, t, NoPa) /\ rodata' = Set(rodata, t, NoPa)
    /\ stack' = Set(stack, t, NoPa) /\ tb' = Set(tb, t, "none")
    /\ job' = Set(job, t, "NONE") /\ jobs' = Set(jobs, t, 0)
    /\ Goto(t, "l_text")
    /\ UNCHANGED <<top, graphs, glock, reg, dpc, live, wild>>

\* DeviceCtrl::alloc_text_buffer, up to the read of the top: the entry test
\* (graphs.count(graph_id) == 1 gives INVALID_OP; the thread's own id has
\* no entry yet, see SimEntryTracksGraph) and ibuf_desc.pa = top.
alloc_text_buffer(t) ==
    /\ pc[t] = "l_text" /\ ~HasEntry(gid[t])
    /\ reg' = Set(reg, t, top)
    /\ text' = Set(text, t, top)
    /\ Goto(t, "l_text_top")
    /\ UNCHANGED <<top, graphs, glock, table, gid, rodata, stack, tb, job,
                   loads, jobs, dpc, live, wild>>

\* Mutant: the top is not moved past the text buffer.
alloc_text_buffer_top_no_bump(t) ==
    /\ pc[t] = "l_text_top"
    /\ UNCHANGED top
    /\ live' = live \cup {Buf(gid[t], "text", text[t], TextSize)}
    /\ Goto(t, "l_load_text")
    /\ UNCHANGED <<graphs, glock, table, gid, reg, text, rodata, stack, tb,
                   job, loads, jobs, dpc, wild>>

\* The end of alloc_text_buffer: simulation_malloc_top += ibuf_desc.size.
\* Between the two statements the code writes through ibuf_desc, which
\* may alias the member, so the compiled code either reloads the top or
\* adds to the value it read: a race with another thread gives either.
alloc_text_buffer_top(t) ==
    /\ pc[t] = "l_text_top"
    /\ top' \in {reg[t] + TextSize, top + TextSize}
    /\ live' = live \cup {Buf(gid[t], "text", text[t], TextSize)}
    /\ Goto(t, "l_load_text")
    /\ UNCHANGED <<graphs, glock, table, gid, reg, text, rodata, stack, tb,
                   job, loads, jobs, dpc, wild>>

\* DeviceCtrl::load_text_buffer: the same entry test, then
\* create_simulation_input_file writes the text to a scratch file, which
\* may fail; on success graphs[graph_id] = sim, a fresh simulation_res_t.
load_text_buffer(t) ==
    /\ pc[t] = "l_load_text" /\ ~HasEntry(gid[t])
    /\ \/ /\ graphs' = Set(graphs, gid[t], [Absent EXCEPT !.in = TRUE])
          /\ Goto(t, "l_ro")
       \/ /\ FileMayFail
          /\ Goto(t, "l_fail")
          /\ UNCHANGED graphs
    /\ UNCHANGED <<top, glock, table, gid, reg, text, rodata, stack, tb, job,
                   loads, jobs, dpc, live, wild>>

\* simulation_alloc_data_buffer begins: graphs.find(graph_id) (present), and
\* alloc_rodata_buffer calls malloc_buf, which sets buf->pa = top.
alloc_rodata_buffer(t) ==
    /\ pc[t] = "l_ro" /\ HasEntry(gid[t])
    /\ rodata' = Set(rodata, t, top)
    /\ Goto(t, "l_ro_top")
    /\ UNCHANGED <<top, graphs, glock, table, gid, reg, text, stack, tb, job,
                   loads, jobs, dpc, live, wild>>

\* The rest of malloc_buf: new char[] and then simulation_malloc_top +=
\* buf->size, which after the call reads the top again.
malloc_buf_top(t) ==
    /\ pc[t] = "l_ro_top"
    /\ top' = top + RodataSize
    /\ live' = live \cup {Buf(gid[t], "rodata", rodata[t], RodataSize)}
    /\ Goto(t, "l_stack")
    /\ UNCHANGED <<graphs, glock, table, gid, reg, text, rodata, stack, tb,
                   job, loads, jobs, dpc, wild>>

\* tbuf.stack.pa = get_aligned_addr(simulation_malloc_top, ...): the base of
\* the data block (data_phys_base).
alloc_stack(t) ==
    /\ pc[t] = "l_stack"
    /\ stack' = Set(stack, t, top)
    /\ Goto(t, "l_stack_top")
    /\ UNCHANGED <<top, graphs, glock, table, gid, reg, text, rodata, tb, job,
                   loads, jobs, dpc, live, wild>>

\* simulation_malloc_top = tbuf.stack.pa + tbuf.stack.size, and the static
\* and reuse sections placed after it the same way (GraphLoad checks their
\* layout): the top ends DataSize above the base.
place_sections(t) ==
    /\ pc[t] = "l_stack_top"
    /\ top' = stack[t] + DataSize
    /\ Goto(t, "l_data")
    /\ UNCHANGED <<graphs, glock, table, gid, reg, text, rodata, stack, tb,
                   job, loads, jobs, dpc, live, wild>>

\* data_buf_alloc_size = simulation_malloc_top - data_phys_base, read again
\* here, and malloc_buf of that size for the whole block: its pa is
\* overwritten with the base, but malloc_buf has moved the top past a
\* second block of the same size.  The block's device range runs from the
\* base to the top just read.  giter->second.data is set; the sections' va
\* and create_iobuf_info only compute pointers into the block.
alloc_data(t) ==
    /\ pc[t] = "l_data"
    /\ top' = top + (top - stack[t])
    /\ graphs' = [graphs EXCEPT ![gid[t]].data = TRUE]
    /\ live' = live \cup {Buf(gid[t], "data", stack[t], top - stack[t])}
    /\ Goto(t, "l_io")
    /\ UNCHANGED <<glock, table, gid, reg, text, rodata, stack, tb, job,
                   loads, jobs, dpc, wild>>

\* DeviceCtrl::simulation_set_io_info (the entry is present) records the
\* output files to read back after a run; Graph::load stores the thread
\* buffer as free (tbufs[handle] = tbuf), and load_graph installs the
\* Graph in place of the placeholder under gt_lock.
set_io_info(t) ==
    /\ pc[t] = "l_io" /\ HasEntry(gid[t])
    /\ graphs' = [graphs EXCEPT ![gid[t]].outputs = TRUE]
    /\ tb' = Set(tb, t, "free")
    /\ table' = Set(table, gid[t], "graph")
    /\ Goto(t, "idle")
    /\ UNCHANGED <<top, glock, gid, reg, text, rodata, stack, job, loads, jobs,
                   dpc, live, wild>>

\* A failed Graph::load: create_graph_object calls destroy_graph_object,
\* whose Graph::unload resets pbuf.text (free_text_buffer does nothing on
\* X86), finds no thread buffer and calls DeviceCtrl::unload_graph, which
\* erases the id's entry; load_graph then erases the placeholder.
load_failed(t) ==
    /\ pc[t] = "l_fail"
    /\ live' = live \ BufsOf(t, {"text"})
    /\ text' = Set(text, t, NoPa)
    /\ graphs' = Set(graphs, gid[t], Absent)
    /\ table' = Set(table, gid[t], "absent")
    /\ gid' = Set(gid, t, 0)
    /\ Goto(t, "idle")
    /\ UNCHANGED <<top, glock, reg, rodata, stack, tb, job, loads, jobs, dpc,
                   wild>>

-----------------------------------------------------------------------------
(* Calls on the loaded graph, for the thread t that loaded it.  A call     *)
(* whose test fails returns an error and changes nothing, and is left out. *)

Loaded(t) == pc[t] = "idle" /\ gid[t] # 0 /\ table[gid[t]] = "graph"
OutputsLive(t) == BufsOf(t, {"data"}) # {}

\* Mutant: no bound on the jobs a graph gets.
build_job_unbounded(t) ==
    /\ Loaded(t) /\ tb[t] = "free" /\ job[t] = "NONE"
    /\ tb' = Set(tb, t, "busy")
    /\ job' = Set(job, t, "BUILT")
    /\ jobs' = Set(jobs, t, jobs[t] + 1)
    /\ UNCHANGED <<top, graphs, glock, table, pc, gid, reg, text, rodata,
                   stack, loads, dpc, live, wild>>

\* alloc_thread_buffer (X86) hands out the thread buffer Graph::load made,
\* and build_new_job takes it while it is free and marks it busy.
build_job(t) ==
    /\ Loaded(t) /\ tb[t] = "free" /\ job[t] = "NONE" /\ jobs[t] < MaxJobs
    /\ tb' = Set(tb, t, "busy")
    /\ job' = Set(job, t, "BUILT")
    /\ jobs' = Set(jobs, t, jobs[t] + 1)
    /\ UNCHANGED <<top, graphs, glock, table, pc, gid, reg, text, rodata,
                   stack, loads, dpc, live, wild>>

\* flush_job calls schedule_job_on_aipu, which (X86) locks glock.
flush_job(t) ==
    /\ Loaded(t) /\ job[t] = "BUILT"
    /\ Goto(t, "s_lock")
    /\ UNCHANGED <<top, graphs, glock, table, gid, reg, text, rodata, stack,
                   tb, job, loads, jobs, dpc, live, wild>>

schedule_lock(t) ==
    /\ pc[t] = "s_lock" /\ glock = NoThread
    /\ glock' = t
    /\ Goto(t, "s_run")
    /\ UNCHANGED <<top, graphs, table, gid, reg, text, rodata, stack, tb, job,
                   loads, jobs, dpc, live, wild>>

\* The simulator run under glock: graphs.find (the entry is there),
\* update_simulation_rtcfg and system(simulation_cmd); a failure of either
\* sets EXCEPTION.  On success umd_load_file_helper copies every output file
\* to the va simulation_set_io_info recorded, inside the data block, and
\* the job is DONE.  glock is released on every path.
schedule_job_on_aipu(t) ==
    /\ pc[t] = "s_run" /\ HasEntry(gid[t])
    /\ \/ /\ job' = Set(job, t, "DONE")
          /\ wild' = (wild \/ (graphs[gid[t]].outputs /\ ~OutputsLive(t)))
       \/ /\ FileMayFail
          /\ job' = Set(job, t, "EXCEPTION")
          /\ UNCHANGED wild
    /\ glock' = NoThread
    /\ Goto(t, "idle")
    /\ UNCHANGED <<top, graphs, table, gid, reg, text, rodata, stack, tb,
                   loads, jobs, dpc, live>>

\* clean_job: a DONE or EXCEPTION job is removed and its buffer is free.
clean_job(t) ==
    /\ Loaded(t) /\ job[t] \in {"DONE", "EXCEPTION"}
    /\ job' = Set(job, t, "NONE")
    /\ tb' = Set(tb, t, "free")
    /\ UNCHANGED <<top, graphs, glock, table, pc, gid, reg, text, rodata,
                   stack, loads, jobs, dpc, live, wild>>

\* DeviceCtrl::free_buf (X86): delete[] of the host copy; the arena range
\* is given up but never reused, the top does not move back.
free_buf(t, kinds) == live' = live \ BufsOf(t, kinds)

\* What free_thread_buffer gives back on X86 for a free buffer: free_buf of
\* the rodata, and simulation_free_data_buffer, which finds the graph's
\* entry and frees its data block with free_buf (the entry's data.va is
\* then nullptr).  The buffer is erased from tbufs.
FreeTbuf(t) ==
    /\ free_buf(t, {"rodata", "data"})
    /\ tb' = Set(tb, t, "none")

\* Mutant: the is_free test is missing.
free_thread_buffer_no_busy_test(t) ==
    /\ Loaded(t) /\ tb[t] # "none"
    /\ FreeTbuf(t)
    /\ graphs' = [graphs EXCEPT ![gid[t]].data = FALSE]
    /\ UNCHANGED <<top, glock, table, pc, gid, reg, text, rodata, stack, job,
                   loads, jobs, dpc, wild>>

\* free_thread_buffer (AIPU_free_tensor_buffers): a busy buffer gives
\* BUSY_HANDLE.  On X86 there is no other buffer to allocate afterwards.
free_thread_buffer(t) ==
    /\ Loaded(t) /\ tb[t] = "free"
    /\ FreeTbuf(t)
    /\ graphs' = [graphs EXCEPT ![gid[t]].data = FALSE]
    /\ UNCHANGED <<top, glock, table, pc, gid, reg, text, rodata, stack, job,
                   loads, jobs, dpc, wild>>

\* Mutant: Graph::unload does not call DeviceCtrl::unload_graph.
unload_graph_keep_entry(t) ==
    /\ Loaded(t) /\ job[t] # "BUILT"
    /\ job' = Set(job, t, "NONE")
    /\ text' = Set(text, t, NoPa)
    /\ \/ /\ tb[t] = "busy"
          /\ live' = live \ BufsOf(t, {"text"})
          /\ UNCHANGED <<graphs, table, gid, tb>>
       \/ /\ tb[t] # "busy"
          /\ live' = live \ BufsOf(t, Kinds)
          /\ tb' = Set(tb, t, "none")
          /\ table' = Set(table, gid[t], "absent")
          /\ gid' = Set(gid, t, 0)
          /\ UNCHANGED graphs
    /\ UNCHANGED <<top, glock, pc, reg, rodata, stack, loads, jobs, dpc, wild>>

\* unload_graph: Graph::unload when is_unload_ok (no job is BUILT; X86 jobs
\* never stay SCHED) deletes the jobs and resets pbuf.text, then frees the
\* thread buffer: a busy one (its job was never cleaned) makes it return
\* BUSY_HANDLE there, and the graph stays.  Otherwise DeviceCtrl::
\* unload_graph erases the entry and unload_graph erases the id.
unload_graph(t) ==
    /\ Loaded(t) /\ job[t] # "BUILT"
    /\ job' = Set(job, t, "NONE")
    /\ text' = Set(text, t, NoPa)
    /\ \/ /\ tb[t] = "busy"
          /\ live' = live \ BufsOf(t, {"text"})
          /\ UNCHANGED <<graphs, table, gid, tb>>
       \/ /\ tb[t] # "busy"
          /\ live' = live \ BufsOf(t, Kinds)
          /\ tb' = Set(tb, t, "none")
          /\ graphs' = Set(graphs, gid[t], Absent)
          /\ table' = Set(table, gid[t], "absent")
          /\ gid' = Set(gid, t, 0)
    /\ UNCHANGED <<top, glock, pc, reg, rodata, stack, loads, jobs, dpc, wild>>

\* The application thread returns, having unloaded its graph.
thread_exit(t) ==
    /\ pc[t] = "idle" /\ gid[t] = 0
    /\ Goto(t, "done")
    /\ UNCHANGED <<top, graphs, glock, table, gid, reg, text, rodata, stack,
                   tb, job, loads, jobs, dpc, live, wild>>

\* AIPU_deinit_ctx after the threads are joined: force_deinit finds no
\* graph, and DeviceCtrl::deinit clears the map and the top.
deinit ==
    /\ dpc = "run" /\ \A t \in Threads : pc[t] = "done"
    /\ graphs' = [i \in Ids |-> Absent]
    /\ top' = 0
    /\ dpc' = "done"
    /\ UNCHANGED <<glock, table, thrVars, live, wild>>

-----------------------------------------------------------------------------
Next ==
    \/ \E t \in Threads :
          \/ load_graph(t) \/ alloc_text_buffer(t) \/ alloc_text_buffer_top(t)
          \/ load_text_buffer(t) \/ alloc_rodata_buffer(t) \/ malloc_buf_top(t)
          \/ alloc_stack(t) \/ place_sections(t) \/ alloc_data(t)
          \/ set_io_info(t) \/ load_failed(t)
          \/ build_job(t) \/ flush_job(t) \/ schedule_lock(t)
          \/ schedule_job_on_aipu(t) \/ clean_job(t)
          \/ free_thread_buffer(t) \/ unload_graph(t) \/ thread_exit(t)
    \/ deinit
    \/ dpc = "done" /\ UNCHANGED vars

Spec == Init /\ [][Next]_vars

-----------------------------------------------------------------------------
(* Properties.                                                             *)

\* The arena hands out each device address once: the ranges of the text,
\* rodata and data buffers not yet given back are pairwise disjoint and lie
\* below simulation_malloc_top, which the spec calls monotonically
\* increasing and serialized by the backend.
ArenaSound ==
    \A a, b \in live :
        /\ a.hi <= top
        /\ a # b => a.hi <= b.lo \/ b.hi <= a.lo

\* DeviceCtrl::graphs holds an entry only for an id MainContext has
\* reserved, and one for every installed graph: unload and a failed load
\* erase it, so a reused id never meets a stale entry (alloc_text_buffer
\* and load_text_buffer would refuse it with INVALID_OP).
SimEntryTracksGraph ==
    \A i \in Ids : /\ HasEntry(i) => table[i] # "absent"
                   /\ table[i] = "graph" => HasEntry(i)

\* schedule_job_on_aipu copies simulator outputs only into a data block that
\* has not been freed: free_thread_buffer refuses the busy buffer of a
\* built job, and no buffer can be had once it is freed.
NoWildOutput == ~wild

=============================================================================
