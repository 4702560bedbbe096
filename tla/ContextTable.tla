---------------------------- MODULE ContextTable ----------------------------
(***************************************************************************)
(* The graph table of AIRT::MainContext (context.cpp) and the life of the  *)
(* AIRT::Graph objects it holds: load_graph with its nullptr placeholder,  *)
(* unload_graph and Graph::unload, deinit with is_deinit_ok and            *)
(* force_deinit, and the graph calls an application makes in between       *)
(* (get_graph_object, then the call on the pointer after gt_lock is        *)
(* released).  A graph's jobs and thread buffers are abstracted to one job *)
(* slot and one thread buffer: what is_unload_ok and unload look at.       *)
(***************************************************************************)
EXTENDS Integers, FiniteSets

CONSTANTS
    Threads,          \* application threads
    Ids,              \* graph ids create_unique_graph_id_inner can hand out
    MaxLoads,         \* load_graph calls per thread
    LoadMayFail,      \* TRUE: Graph::load may fail to allocate its buffers
    ConcurrentDeinit  \* TRUE: deinit may run while threads use the context

ASSUME /\ Ids = 1 .. Cardinality(Ids)
       /\ MaxLoads \in Nat
       /\ {LoadMayFail, ConcurrentDeinit} \subseteq BOOLEAN

\* Graph objects, numbered in order of creation (a Graph* address).
Objs == 1 .. (MaxLoads * Cardinality(Threads))
Null == 0       \* the nullptr placeholder load_graph stores
Absent == -1    \* no entry in MainContext::graphs
JobSlot == {"NONE", "BUILT", "SCHED", "DONE", "TIMEOUT"}

VARIABLES
    graphs,    \* MainContext::graphs: id -> object, Null or Absent
    nobj,      \* objects created so far
    alive,     \* objects not yet deleted
    text,      \* objects holding their text buffer (pbuf.text.va non-null)
    static,    \* objects whose pbuf.static_group.va is non-null
    sfreed,    \* objects whose static group has been given back (ghost)
    gjob,      \* per object: its job, NONE when Graph::jobs is empty
    tbuf,      \* per object: its thread buffer: "none", "free" or "busy"
    pc,        \* per thread: where it is
    tgid,      \* per thread: the graph id it loaded (0: none)
    gptr,      \* per thread: the Graph* it got from get_graph_object
    loads,     \* per thread: load_graph calls made
    dpc,       \* the thread calling deinit
    nullderef, \* a nullptr Graph* was dereferenced (ghost)
    uaf,       \* a deleted Graph was used (ghost)
    dfree      \* a buffer was freed twice (ghost)

ghostVars == <<nullderef, uaf, dfree>>
objVars == <<nobj, alive, text, static, sfreed, gjob, tbuf>>
thrVars == <<pc, tgid, gptr, loads>>
vars == <<graphs, objVars, thrVars, dpc, ghostVars>>

TypeOK ==
    /\ graphs \in [Ids -> Objs \cup {Null, Absent}]
    /\ nobj \in 0 .. Cardinality(Objs)
    /\ alive \subseteq Objs /\ text \subseteq Objs
    /\ static \subseteq Objs /\ sfreed \subseteq Objs
    /\ gjob \in [Objs -> JobSlot]
    /\ tbuf \in [Objs -> {"none", "free", "busy"}]
    /\ pc \in [Threads -> {"idle", "l_create", "u_destroy", "u_erase",
                           "c_call", "done"}]
    /\ tgid \in [Threads -> Ids \cup {0}]
    /\ gptr \in [Threads -> Objs \cup {Null}]
    /\ loads \in [Threads -> 0 .. MaxLoads]
    /\ dpc \in {"idle", "force", "done"}
    /\ {nullderef, uaf, dfree} \subseteq BOOLEAN

Init ==
    /\ graphs = [i \in Ids |-> Absent]
    /\ nobj = 0
    /\ alive = {} /\ text = {} /\ static = {} /\ sfreed = {}
    /\ gjob = [g \in Objs |-> "NONE"]
    /\ tbuf = [g \in Objs |-> "none"]
    /\ pc = [t \in Threads |-> "idle"]
    /\ tgid = [t \in Threads |-> 0]
    /\ gptr = [t \in Threads |-> Null]
    /\ loads = [t \in Threads |-> 0]
    /\ dpc = "idle"
    /\ nullderef = FALSE /\ uaf = FALSE /\ dfree = FALSE

-----------------------------------------------------------------------------
(* Helpers.                                                                *)

\* create_unique_graph_id_inner: the smallest id with no entry.
create_unique_graph_id_inner ==
    CHOOSE i \in Ids : graphs[i] = Absent /\ \A k \in Ids : k < i => graphs[k] # Absent

\* Graph::is_unload_ok / is_all_jobs_end_inner: every job is DONE (or
\* EXCEPTION); a TIMEOUT job does not count as ended.
is_unload_ok(g) == gjob[g] \in {"NONE", "DONE"}

\* Using object g: a use after free when it was deleted.
Touch(g) == uaf' = (uaf \/ g \notin alive)

\* What Graph::unload does to object g when is_unload_ok held: jobs deleted,
\* text buffer freed, the static group freed -- static_group is never reset,
\* so an earlier partial unload frees it again -- and then the thread buffer
\* freed, which fails (BUSY_HANDLE) while it is busy.  It yields the new
\* values of the object variables and whether it succeeded.
UnloadedText(g) == text \ {g}
UnloadedTbuf(g) == IF tbuf[g] = "free" THEN "none" ELSE tbuf[g]
UnloadOK(g) == tbuf[g] # "busy"
UnloadDoubleFree(g) == g \in static /\ g \in sfreed
\* MainContext::destroy_graph_object after Graph::unload succeeded: delete
\* the Graph (an unload that failed returns before it).
DeleteGraph(g) == alive' = alive \ {g}

-----------------------------------------------------------------------------
(* load_graph, for thread t.                                               *)

\* Mutant: no placeholder is stored, so the id stays free until the graph
\* is installed.
load_graph_no_reserve(t) ==
    /\ pc[t] = "idle" /\ tgid[t] = 0 /\ loads[t] < MaxLoads
    /\ \E i \in Ids : graphs[i] = Absent
    /\ tgid' = [tgid EXCEPT ![t] = create_unique_graph_id_inner]
    /\ loads' = [loads EXCEPT ![t] = @ + 1]
    /\ pc' = [pc EXCEPT ![t] = "l_create"]
    /\ UNCHANGED <<graphs, objVars, gptr, dpc, ghostVars>>

\* MainContext::load_graph up to the reservation: under gt_lock (write) the
\* smallest unused id gets the nullptr placeholder.  (A parse_graph error
\* returns before this and changes nothing.)
load_graph(t) ==
    /\ pc[t] = "idle" /\ tgid[t] = 0 /\ loads[t] < MaxLoads
    /\ \E i \in Ids : graphs[i] = Absent
    /\ graphs' = [graphs EXCEPT ![create_unique_graph_id_inner] = Null]
    /\ tgid' = [tgid EXCEPT ![t] = create_unique_graph_id_inner]
    /\ loads' = [loads EXCEPT ![t] = @ + 1]
    /\ pc' = [pc EXCEPT ![t] = "l_create"]
    /\ UNCHANGED <<objVars, gptr, dpc, ghostVars>>

\* Mutant: a failed load leaves its placeholder in the table.
create_graph_object_keep_placeholder(t) ==
    /\ pc[t] = "l_create"
    /\ \/ /\ graphs' = [graphs EXCEPT ![tgid[t]] = nobj + 1]
          /\ nobj' = nobj + 1
          /\ alive' = alive \cup {nobj + 1}
          /\ text' = text \cup {nobj + 1}
          /\ static' = static \cup {nobj + 1}
          /\ UNCHANGED tgid
       \/ /\ LoadMayFail
          /\ tgid' = [tgid EXCEPT ![t] = 0]
          /\ UNCHANGED <<graphs, nobj, alive, text, static>>
    /\ pc' = [pc EXCEPT ![t] = "idle"]
    /\ UNCHANGED <<sfreed, gjob, tbuf, gptr, loads, dpc, ghostVars>>

\* Mutant: the new object is numbered nobj, one short, so it is taken for
\* nullptr.
create_graph_object_off_by_one(t) ==
    /\ pc[t] = "l_create"
    /\ graphs' = [graphs EXCEPT ![tgid[t]] = nobj]
    /\ nobj' = nobj + 1
    /\ alive' = alive \cup {nobj}
    /\ text' = text \cup {nobj}
    /\ static' = static \cup {nobj}
    /\ pc' = [pc EXCEPT ![t] = "idle"]
    /\ UNCHANGED <<sfreed, gjob, tbuf, tgid, gptr, loads, dpc, ghostVars>>

\* create_graph_object (new Graph, Graph::load: text buffer, static group)
\* and the rest of load_graph: on success the object replaces the
\* placeholder; when an allocation fails the half-loaded object is unloaded
\* and deleted, and the id erased, under gt_lock.
create_graph_object(t) ==
    /\ pc[t] = "l_create"
    /\ \/ /\ graphs' = [graphs EXCEPT ![tgid[t]] = nobj + 1]
          /\ nobj' = nobj + 1
          /\ alive' = alive \cup {nobj + 1}
          /\ text' = text \cup {nobj + 1}
          /\ static' = static \cup {nobj + 1}
          /\ UNCHANGED tgid
       \/ /\ LoadMayFail                          \* BUF_ALLOC_FAIL
          /\ graphs' = [graphs EXCEPT ![tgid[t]] = Absent]
          /\ tgid' = [tgid EXCEPT ![t] = 0]
          /\ UNCHANGED <<nobj, alive, text, static>>
    /\ pc' = [pc EXCEPT ![t] = "idle"]
    /\ UNCHANGED <<sfreed, gjob, tbuf, gptr, loads, dpc, ghostVars>>

-----------------------------------------------------------------------------
(* Calls on a loaded graph, for the thread t that loaded it.               *)

\* MainContext::get_graph_object under gt_lock (read), as every graph call
\* and unload_graph begin: an id with no object gives GRAPH_NOT_EXIST, and
\* the application drops the graph.  The pointer is used after the unlock.
get_graph_object(t, next) ==
    /\ pc[t] = "idle" /\ tgid[t] # 0
    /\ IF graphs[tgid[t]] \in Objs
          THEN /\ gptr' = [gptr EXCEPT ![t] = graphs[tgid[t]]]
               /\ pc' = [pc EXCEPT ![t] = next]
               /\ UNCHANGED tgid
          ELSE /\ tgid' = [tgid EXCEPT ![t] = 0]
               /\ UNCHANGED <<gptr, pc>>
    /\ UNCHANGED <<graphs, objVars, loads, dpc, ghostVars>>

\* The job and thread-buffer calls on Graph g (alloc_thread_buffer,
\* build_new_job, flush_job, the job's end through a poll or a timed wait,
\* clean_job, free_thread_buffer), on the one job slot and thread buffer of
\* the model; a call whose precondition fails returns an error and changes
\* nothing.
SetJob(g, st) == gjob' = [gjob EXCEPT ![g] = st]
SetTbuf(g, b) == tbuf' = [tbuf EXCEPT ![g] = b]
GraphCall(g) ==
    \/ tbuf[g] = "none" /\ SetTbuf(g, "free") /\ UNCHANGED gjob
    \/ tbuf[g] = "free" /\ gjob[g] = "NONE" /\ SetJob(g, "BUILT") /\ SetTbuf(g, "busy")
    \/ gjob[g] = "BUILT" /\ SetJob(g, "SCHED") /\ UNCHANGED tbuf
    \/ gjob[g] = "SCHED" /\ \E st \in {"DONE", "TIMEOUT"} : SetJob(g, st) /\ UNCHANGED tbuf
    \/ gjob[g] \in {"DONE", "TIMEOUT"} /\ SetJob(g, "NONE") /\ SetTbuf(g, "free")
    \/ tbuf[g] = "free" /\ SetTbuf(g, "none") /\ UNCHANGED gjob
    \/ UNCHANGED <<gjob, tbuf>>               \* a call refused with an error

\* A graph call on the pointer get_graph_object returned, after gt_lock was
\* released.
graph_call(t) ==
    /\ pc[t] = "c_call"
    /\ Touch(gptr[t])
    /\ GraphCall(gptr[t])
    /\ pc' = [pc EXCEPT ![t] = "idle"]
    /\ gptr' = [gptr EXCEPT ![t] = Null]
    /\ UNCHANGED <<graphs, nobj, alive, text, static, sfreed, tgid, loads, dpc,
                   nullderef, dfree>>

\* Mutant: unload_graph returns after a successful destroy without erasing
\* the id.
destroy_graph_object_no_erase(t) ==
    LET g == gptr[t] IN
    /\ pc[t] = "u_destroy"
    /\ Touch(g)
    /\ is_unload_ok(g) /\ UnloadOK(g)
    /\ gjob' = [gjob EXCEPT ![g] = "NONE"]
    /\ text' = UnloadedText(g)
    /\ sfreed' = IF g \in static THEN sfreed \cup {g} ELSE sfreed
    /\ tbuf' = [tbuf EXCEPT ![g] = UnloadedTbuf(g)]
    /\ alive' = alive \ {g}
    /\ tgid' = [tgid EXCEPT ![t] = 0]
    /\ pc' = [pc EXCEPT ![t] = "idle"]
    /\ gptr' = [gptr EXCEPT ![t] = Null]
    /\ UNCHANGED <<graphs, nobj, static, loads, dpc, nullderef, dfree>>

\* unload_graph: destroy_graph_object calls Graph::unload (no lock).  When
\* is_unload_ok fails it returns INVALID_OP and nothing changes; otherwise
\* it deletes the jobs and frees the text buffer and static group before it
\* frees the thread buffers, so a busy one makes it fail halfway
\* (BUSY_HANDLE).  On success the Graph is deleted.
destroy_graph_object(t) ==
    LET g == gptr[t] IN
    /\ pc[t] = "u_destroy"
    /\ Touch(g)
    /\ \/ /\ ~is_unload_ok(g)                      \* INVALID_OP
          /\ pc' = [pc EXCEPT ![t] = "idle"]
          /\ gptr' = [gptr EXCEPT ![t] = Null]
          /\ UNCHANGED <<alive, text, sfreed, gjob, tbuf, dfree>>
       \/ /\ is_unload_ok(g)
          /\ gjob' = [gjob EXCEPT ![g] = "NONE"]
          /\ text' = UnloadedText(g)
          /\ sfreed' = IF g \in static THEN sfreed \cup {g} ELSE sfreed
          /\ dfree' = (dfree \/ UnloadDoubleFree(g))
          /\ tbuf' = [tbuf EXCEPT ![g] = UnloadedTbuf(g)]
          /\ IF UnloadOK(g)
                THEN /\ DeleteGraph(g)
                     /\ pc' = [pc EXCEPT ![t] = "u_erase"]
                     /\ UNCHANGED gptr
                ELSE /\ pc' = [pc EXCEPT ![t] = "idle"]  \* BUSY_HANDLE
                     /\ gptr' = [gptr EXCEPT ![t] = Null]
                     /\ UNCHANGED alive
    /\ UNCHANGED <<graphs, nobj, static, tgid, loads, dpc, nullderef>>

\* The end of a successful unload_graph: the id is erased under gt_lock.
unload_graph_erase(t) ==
    /\ pc[t] = "u_erase"
    /\ graphs' = [graphs EXCEPT ![tgid[t]] = Absent]
    /\ tgid' = [tgid EXCEPT ![t] = 0]
    /\ pc' = [pc EXCEPT ![t] = "idle"]
    /\ gptr' = [gptr EXCEPT ![t] = Null]
    /\ UNCHANGED <<objVars, loads, dpc, ghostVars>>

\* The application thread returns.
thread_exit(t) ==
    /\ pc[t] = "idle"
    /\ pc' = [pc EXCEPT ![t] = "done"]
    /\ UNCHANGED <<graphs, objVars, tgid, gptr, loads, dpc, ghostVars>>

-----------------------------------------------------------------------------
(* deinit: is_deinit_ok under gt_lock (read), then force_deinit under      *)
(* gt_lock (write).  Without ConcurrentDeinit it runs once every thread    *)
(* has returned, as the test programs call it after joining them.          *)

\* The entries is_deinit_ok visits: in id order, up to and including the
\* first placeholder or graph that is not is_unload_ok.
Entries == {i \in Ids : graphs[i] # Absent}
DeinitBad(i) == graphs[i] = Null \/ graphs[i] \notin alive \/ ~is_unload_ok(graphs[i])
Visited == {i \in Entries : \A k \in Entries : k < i => ~DeinitBad(k)}

is_deinit_ok ==
    /\ dpc = "idle"
    /\ ConcurrentDeinit \/ \A t \in Threads : pc[t] = "done"
    /\ nullderef' = (nullderef \/ \E i \in Visited : graphs[i] = Null)
    /\ uaf' = (uaf \/ \E i \in Visited : graphs[i] \notin alive \cup {Null})
    /\ dpc' = IF \E i \in Entries : DeinitBad(i) THEN "done" ELSE "force"
    /\ UNCHANGED <<graphs, objVars, thrVars, dfree>>

\* force_deinit: Graph::unload on every entry, its result ignored, then the
\* table cleared (the objects are not deleted) and DeviceCtrl::deinit.
force_deinit ==
    LET objs == {graphs[i] : i \in Entries} \ {Null}
        ok == {g \in objs : is_unload_ok(g)}
    IN
    /\ dpc = "force"
    /\ nullderef' = (nullderef \/ \E i \in Entries : graphs[i] = Null)
    /\ uaf' = (uaf \/ \E g \in objs : g \notin alive)
    /\ dfree' = (dfree \/ \E g \in ok : UnloadDoubleFree(g))
    /\ gjob' = [g \in Objs |-> IF g \in ok THEN "NONE" ELSE gjob[g]]
    /\ text' = text \ ok
    /\ sfreed' = sfreed \cup (ok \cap static)
    /\ tbuf' = [g \in Objs |-> IF g \in ok THEN UnloadedTbuf(g) ELSE tbuf[g]]
    /\ graphs' = [i \in Ids |-> Absent]
    /\ dpc' = "done"
    /\ UNCHANGED <<nobj, alive, static, thrVars>>

-----------------------------------------------------------------------------
Next ==
    \/ \E t \in Threads :
          \/ load_graph(t) \/ create_graph_object(t)
          \/ get_graph_object(t, "c_call") \/ graph_call(t)
          \/ get_graph_object(t, "u_destroy") \/ destroy_graph_object(t)
          \/ unload_graph_erase(t) \/ thread_exit(t)
    \/ is_deinit_ok \/ force_deinit
    \/ /\ dpc = "done" /\ \A t \in Threads : pc[t] = "done"
       /\ UNCHANGED vars

Spec == Init /\ [][Next]_vars

-----------------------------------------------------------------------------
(* Properties.                                                             *)

\* No two threads hold the same graph id: load_graph reserves the id with
\* the nullptr placeholder before the slow create_graph_object, and an id
\* is erased only after its Graph is destroyed.
IdsUnique ==
    \A t, u \in Threads : t # u /\ tgid[t] # 0 => tgid[t] # tgid[u]

\* is_deinit_ok and force_deinit never call through a nullptr placeholder.
NoNullDeref == ~nullderef

\* No Graph is used after unload_graph deleted it: not by a graph call on a
\* pointer from get_graph_object, nor by deinit walking the table.
NoUseAfterFree == ~uaf

\* No Graph's static group is given back to the kernel twice, whatever
\* sequence of unload_graph and deinit calls fails or succeeds.
NoDoubleFree == ~dfree

=============================================================================
