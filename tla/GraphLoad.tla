------------------------------ MODULE GraphLoad ------------------------------
(***************************************************************************)
(* The load path's algorithms, each a pure function of the graph binary:   *)
(* parse_graph / parse_graph_header (context.cpp), sort_io_tensor          *)
(* (context.cpp) and the group layout of alloc_group_buffers (graph.cpp)   *)
(* with get_aligned_addr (device_ctrl.cpp) and ALIGN_ADDR (helper.h).      *)
(* A behaviour is one call on one input from a bounded set: fn names the   *)
(* call, arg its input, status and result what it returns.  Arithmetic is  *)
(* uint32 scaled down to W bits, and the 4096-byte page to Page bytes.     *)
(***************************************************************************)
EXTENDS Integers, Sequences, FiniteSets
LOCAL INSTANCE SequencesExt
LOCAL INSTANCE Bitwise
LOCAL INSTANCE TLC

CONSTANTS
    W,            \* width of the code's uint32 arithmetic, scaled down
    Page,         \* the 4096 of ALIGN_PAGE and get_aligned_addr, scaled down
    HdrSize,      \* BIN_HDR_SIZE
    Sizes,        \* buffer sizes handed to parse_graph
    Headers,      \* bin_hdr_t contents
    IdLists,      \* tensor ids in the order parse_bss_section met them
    SectionLists, \* static sections as <<size, align_bytes>> descriptors
    SimInputs,    \* simulation_malloc_top and a graph's buffer templates
    BssInputs,    \* bss descriptor trees, where the buffer ends, bss_size
    RelocInputs   \* a thread buffer's addresses, param_map and dcr_map

ASSUME W \in Nat /\ Page \in Nat \ {0} /\ HdrSize \in Nat

VARIABLES fn, arg, status, result
vars == <<fn, arg, status, result>>

Word == 0 .. 2^W - 1
Wrap(x) == x % 2^W

\* A loop that has not stopped after LoopPeriod rounds of n never stops:
\* n * a * Page mod 2^W repeats with a period that divides 2^W.
LoopPeriod == 2^W
Hang == -1

Supported == {3, 4}      \* AIPU_LOADABLE_GRAPH_V0003, _V0004

-----------------------------------------------------------------------------
(* parse_graph and parse_graph_header: the first failing check decides.    *)

\* The code's test "(off + size) > next", negated: one section ends before the next.
SectionFollows_strict(off, sz, next) == Wrap(off + sz) < next

SectionFollows(off, sz, next) == Wrap(off + sz) <= next

HeaderChecks(size, h) ==
    << <<~h.magic, "INVALID_GBIN">>,
       <<size < h.filesize, "INVALID_GBIN">>,
       <<h.version \notin Supported, "GVERSION_UNSUPPORTED">>,
       <<h.hdrsize # HdrSize, "INVALID_GBIN">>,
       <<h.entry >= h.text_size, "INVALID_GBIN">>,
       <<h.text_offset < HdrSize
           \/ ~SectionFollows(h.text_offset, h.text_size, h.rodata_offset)
           \/ h.text_size = 0, "INVALID_GBIN">>,
       <<~SectionFollows(h.rodata_offset, h.rodata_size, h.data_offset)
           \/ h.rodata_size = 0, "INVALID_GBIN">>,
       <<~SectionFollows(h.data_offset, h.data_size, h.bss_offset), "INVALID_GBIN">>,
       <<~SectionFollows(h.bss_offset, h.bss_size, h.filesize)
           \/ h.bss_size = 0, "INVALID_GBIN">> >>

FirstFailure(checks) ==
    LET failing == {i \in DOMAIN checks : checks[i][1]}
    IN  IF failing = {} THEN "SUCCESS"
        ELSE checks[CHOOSE i \in failing : \A j \in failing : i <= j][2]

parse_graph_header(size, h) == FirstFailure(HeaderChecks(size, h))

parse_graph(size, h) ==
    IF size < HdrSize THEN "INVALID_SIZE" ELSE parse_graph_header(size, h)

-----------------------------------------------------------------------------
(* sort_io_tensor: a tensor is <<position met, id>>; tensors[id] takes the *)
(* tensor from a copy of the vector, and an id out of range stops the loop *)
(* with the entries moved so far.                                          *)

Tensors(ids) == [i \in DOMAIN ids |-> <<i, ids[i]>>]

\* A sort that moves tensors within the vector it reads from.
RECURSIVE SortInPlace(_, _)
SortInPlace(cur, i) ==
    IF i > Len(cur) THEN [ret |-> "SUCCESS", tensors |-> cur]
    ELSE IF cur[i][2] >= Len(cur)
         THEN [ret |-> "INVALID_GBIN", tensors |-> cur]
    ELSE SortInPlace(IF cur[i][2] # i - 1
                     THEN [cur EXCEPT ![cur[i][2] + 1] = cur[i]] ELSE cur, i + 1)

RECURSIVE SortFrom(_, _, _)
SortFrom(tmp, cur, i) ==
    IF i > Len(tmp) THEN [ret |-> "SUCCESS", tensors |-> cur]
    ELSE IF tmp[i][2] >= Len(tmp)
         THEN [ret |-> "INVALID_GBIN", tensors |-> cur]
    ELSE SortFrom(tmp, IF tmp[i][2] # i - 1
                       THEN [cur EXCEPT ![tmp[i][2] + 1] = tmp[i]] ELSE cur,
                  i + 1)

sort_io_tensor_in_place(t) == SortInPlace(t, 1)

sort_io_tensor(t) == SortFrom(t, t, 1)

-----------------------------------------------------------------------------
(* ALIGN_ADDR, get_aligned_addr and the offsets of alloc_group_buffers.    *)

ALIGN_PAGE(bytes) == LET s == Wrap(bytes + Page - 1) IN s - (s % Page)
ALIGN_ADDR(bytes) == ALIGN_PAGE(bytes) \div Page

RECURSIVE AlignedFrom(_, _, _)
AlignedFrom(n, base, a) ==
    IF n > LoopPeriod THEN Hang
    ELSE IF Wrap(n * a * Page) < base THEN AlignedFrom(n + 1, base, a)
    ELSE Wrap(n * a * Page)

get_aligned_addr(base, align_in_page) == AlignedFrom(0, base, align_in_page)

\* A section as parse_bss_section records it: size and align_in_page.
Section(d) == [size |-> d[1], align |-> ALIGN_ADDR(d[2])]

NextOffset_no_size(prev, sec, nxt) == get_aligned_addr(prev, nxt.align)

NextOffset(prev, sec, nxt) == get_aligned_addr(Wrap(prev + sec.size), nxt.align)

RECURSIVE OffsetsFrom(_, _, _)
OffsetsFrom(secs, offs, i) ==
    IF i > Len(secs) THEN offs
    ELSE LET o == NextOffset(offs[i - 1], secs[i - 1], secs[i])
         IN  IF o = Hang THEN offs \o <<Hang>>
             ELSE OffsetsFrom(secs, offs \o <<o>>, i + 1)

GroupTotal_unwrapped(secs, offs) ==
    IF secs = <<>> THEN 0 ELSE offs[Len(secs)] + secs[Len(secs)].size

GroupTotal(secs, offs) ==
    IF secs = <<>> THEN 0 ELSE Wrap(offs[Len(secs)] + secs[Len(secs)].size)

\* The layout, or Hang when a get_aligned_addr loop never ends.
alloc_group_buffers(secs) ==
    LET offs == IF secs = <<>> THEN <<>> ELSE OffsetsFrom(secs, <<0>>, 2)
    IN  IF Hang \in {offs[i] : i \in DOMAIN offs}
        THEN [ret |-> "HANG", offsets |-> <<>>, tot |-> 0]
        ELSE [ret |-> "SUCCESS", offsets |-> offs, tot |-> GroupTotal(secs, offs)]

-----------------------------------------------------------------------------
(* The x86 simulation backend's bump allocator: malloc_buf hands out       *)
(* simulation_malloc_top and advances it by the page-aligned size; the     *)
(* data buffer of a graph is laid out from the top (stack, static, reuse   *)
(* sections, each at get_aligned_addr of the top) and then backed by one   *)
(* malloc_buf of the span, whose host copy the sections index by offset.   *)
(* A buffer is <<pa, size>>.                                               *)

\* malloc_buf on x86: the buffer at the top, or INVALID_SIZE for size 0.
malloc_buf(top, size) ==
    IF size = 0 THEN [ret |-> "INVALID_SIZE", buf |-> <<top, 0>>, top |-> top]
    ELSE [ret |-> "SUCCESS", buf |-> <<top, ALIGN_PAGE(size)>>,
          top |-> Wrap(top + ALIGN_PAGE(size))]

\* A section placement that leaves the top where the section starts.
PlaceSection_no_advance(top, sec) ==
    LET pa == get_aligned_addr(top, sec.align)
    IN  [buf |-> <<pa, ALIGN_PAGE(sec.size)>>, top |-> pa]

PlaceSection(top, sec) ==
    LET pa == get_aligned_addr(top, sec.align)
    IN  [buf |-> <<pa, ALIGN_PAGE(sec.size)>>,
         top |-> IF pa = Hang THEN Hang ELSE Wrap(pa + ALIGN_PAGE(sec.size))]

\* The stack, static and reuse sections placed one after another.
RECURSIVE PlaceFrom(_, _, _, _)
PlaceFrom(top, secs, i, bufs) ==
    IF i > Len(secs) THEN [top |-> top, bufs |-> bufs]
    ELSE LET r == PlaceSection(top, secs[i])
         IN  IF r.top = Hang THEN [top |-> Hang, bufs |-> bufs]
             ELSE PlaceFrom(r.top, secs, i + 1, Append(bufs, r.buf))

\* t: rodata and dcr sizes, the stack as a section, static and reuse
\* sections; the result lists the stack, static and reuse buffers.
simulation_alloc_data_buffer(top0, t) ==
    LET ro    == malloc_buf(top0, Wrap(t.rodata_size + t.dcr_size))
        secs  == <<t.stack>> \o t.statics \o t.reuses
        pl    == PlaceFrom(ro.top, secs, 1, <<>>)
        base  == pl.bufs[1][1]
        dsize == Wrap(pl.top - base)
        data  == malloc_buf(pl.top, dsize)
    IN  IF ro.ret # "SUCCESS" THEN [ret |-> ro.ret, top |-> top0]
        ELSE IF pl.top = Hang THEN [ret |-> "HANG", top |-> ro.top]
        ELSE [ret |-> data.ret, top |-> data.top, rodata |-> ro.buf,
              bufs |-> pl.bufs, base |-> base, dsize |-> data.buf[2]]

-----------------------------------------------------------------------------
(* Graph::build_new_job from the rodata template copy to the job config:   *)
(* the relocation of rodata by param_map and of the descriptors by         *)
(* dcr_map.  An input is one thread buffer under the GROUP strategy: the   *)
(* host pa of each static and reuse buffer and of their groups, the text   *)
(* and rodata buffers, the shared-memory offset, whether ASID is on, and   *)
(* the two maps.  A param_map entry is [off, type, ref, sec_off, mask], a  *)
(* dcr_map entry [type, off, next_type, next_off].  Memory is one word per *)
(* (buffer, byte offset) written: the relocation entries a graph declares  *)
(* name distinct words, and a word not yet written holds Tmpl, the value   *)
(* the template copy (load_buffer) put there.                              *)

Tmpl == ((2^W - 1) \div 3) * 2   \* a template word of alternating bits
BitNot(x) == 2^W - 1 - x      \* ~ on the code's uint32, scaled to W bits

\* Graph::host2dev: HOST_PA to DEV_PA, truncated to the uint32 it is
\* stored in.
host2dev(a, pa) == Wrap(pa - a.shm)

\* The descriptor buffer is the tail of the rodata buffer, after
\* rodata_size bytes (alloc_rodata_buffer).
get_base_pa(a, type) ==
    CASE type = "RODATA"     -> a.rodata_pa
      [] type = "DESCRIPTOR" -> a.rodata_pa + a.rodata_size
      [] type = "TEXT"       -> a.text_pa
      [] OTHER               -> 0
get_base_va(a, type) ==
    CASE type = "RODATA"     -> <<"rodata", 0>>
      [] type = "DESCRIPTOR" -> <<"rodata", a.rodata_size>>
      [] type = "TEXT"       -> <<"text", 0>>
      [] OTHER               -> <<"null", 0>>

\* rodata.size: malloc_buf rounds rodata_size + dcr_size up to pages.
RodataBufSize(a) == ALIGN_PAGE(a.rodata_size + a.dcr_size)

Bufs(a, type)  == IF type = "REUSE" THEN a.reuse_buf ELSE a.static_buf
Group(a, type) == IF type = "REUSE" THEN a.reuse_group ELSE a.static_group

Load(mem, k) == IF k \in DOMAIN mem THEN mem[k] ELSE Tmpl
Store(mem, k, v) == (k :> v) @@ mem

\* Mutant: the word is overwritten, the bits outside the mask are lost.
RECURSIVE RelocFrom_overwrite(_, _, _)
RelocFrom_overwrite(a, i, mem) ==
    IF i > Len(a.param_map) THEN [ret |-> "SUCCESS", mem |-> mem]
    ELSE
    LET e   == a.param_map[i]
        bad == \/ e.off >= RodataBufSize(a)
               \/ e.ref >= Len(Bufs(a, e.type))
        pa  == host2dev(a, Bufs(a, e.type)[e.ref + 1] + e.sec_off)
        rel == IF a.asid THEN Wrap(pa - Group(a, e.type)) ELSE pa
    IN  IF bad THEN [ret |-> "INVALID_SIZE", mem |-> mem]
        ELSE RelocFrom_overwrite(a, i + 1,
                 Store(mem, <<"rodata", e.off>>, rel & e.mask))

\* One round of the rodata loop: the bound and index checks, the device
\* address of the referenced sub-section, rebased on its group's host pa
\* when ASID is on, and the masked write into the word at the offset.
RECURSIVE RelocFrom(_, _, _)
RelocFrom(a, i, mem) ==
    IF i > Len(a.param_map) THEN [ret |-> "SUCCESS", mem |-> mem]
    ELSE
    LET e   == a.param_map[i]
        bad == \/ e.off >= RodataBufSize(a)
               \/ e.ref >= Len(Bufs(a, e.type))
        pa  == host2dev(a, Bufs(a, e.type)[e.ref + 1] + e.sec_off)
        rel == IF a.asid THEN Wrap(pa - Group(a, e.type)) ELSE pa
        k   == <<"rodata", e.off>>
    IN  IF bad THEN [ret |-> "INVALID_SIZE", mem |-> mem]
        ELSE RelocFrom(a, i + 1,
                 Store(mem, k, (rel & e.mask) | (Load(mem, k) & BitNot(e.mask))))

\* The descriptor loop: the next node's device address is written, with
\* no check, at an offset from the base buffer of the entry's type.
RECURSIVE DcrFrom(_, _, _)
DcrFrom(a, i, mem) ==
    IF i > Len(a.dcr_map) THEN mem
    ELSE LET d    == a.dcr_map[i]
             base == get_base_va(a, d.type)
             k    == <<base[1], base[2] + d.off>>
         IN  DcrFrom(a, i + 1,
                Store(mem, k, host2dev(a, get_base_pa(a, d.next_type) + d.next_off)))

\* The relocations, then the group bases of the job config.
build_new_job(a) ==
    LET r   == RelocFrom(a, 1, <<>>)
        mem == IF a.linked THEN DcrFrom(a, 1, r.mem) ELSE r.mem
    IN  IF r.ret # "SUCCESS" THEN r
        ELSE [ret |-> "SUCCESS", mem |-> mem,
              static_base |-> host2dev(a, a.static_group),
              reuse_base |-> host2dev(a, a.reuse_group)]

-----------------------------------------------------------------------------
(* parse_bss_section: the bss section is a stream of descriptors that the  *)
(* walk reads at a cursor.  A cell is one field the walk's control reads;  *)
(* the fields it only copies (sizes, alignments, shapes, masks) are left   *)
(* out, so each descriptor is a fixed number of cells:                     *)
(*   bss header       <<stack_size, stack_align_bytes, static_cnt,        *)
(*                      reuse_cnt>>                                        *)
(*   static or reuse  <<sub_section_cnt>>                                  *)
(*   sub-section      <<type, id, offset_in_ro_cnt>> then one cell per     *)
(*                    offset_in_ro                                         *)
(*   linked list      <<node_cnt>> then one cell per list node.            *)
(* The input is a descriptor tree, its cells cut where the graph buffer    *)
(* ends, and the header's bss_size.  A cell past the end of the buffer     *)
(* holds whatever memory follows: a read of it returns any junk value.     *)

BssHdrCells == 4
SubDescCells == 3
INPUT == 1               \* SECTION_TYPE_INPUT
OUTPUT == 2              \* SECTION_TYPE_OUTPUT
Junk == {0, 1}

SubCells(s) == <<s.type, s.id, Len(s.ros)>> \o s.ros
SectionCells(sec) ==
    <<Len(sec)>> \o FlattenSeq([j \in DOMAIN sec |-> SubCells(sec[j])])
ListCells(t) == IF t.ll = "none" THEN <<>> ELSE <<Len(t.ll)>> \o t.ll

\* The descriptor tree t laid out as parse_bss_section reads it.
BssCells(t) ==
    <<t.stack_size, t.stack_align, Len(t.statics), Len(t.reuses)>>
    \o FlattenSeq([i \in DOMAIN t.statics |-> SectionCells(t.statics[i])])
    \o FlattenSeq([i \in DOMAIN t.reuses |-> SectionCells(t.reuses[i])])
    \o ListCells(t)

\* The cell at offset k from bss_src, with junk past the end of the buffer.
BssCell(k, junk) == IF k < arg.cut THEN BssCells(arg.tree)[k + 1] ELSE junk

\* helper.h: ptr and the size bytes after it lie in [lower_bound, upper_bound).
umd_is_valid_ptr(lb, ub, ptr, size) == lb <= ptr /\ ptr + size <= ub

\* load_ub = bss_src + sizeof(bss_hdr_type) + bss_size, as an offset.
BssValid(w, size) == umd_is_valid_ptr(0, BssHdrCells + arg.bss_size, w.cur, size)

\* The walk's locals and the graph_info_t fields it fills.
BssWalk0(hdr) ==
    [pc |-> "static", cur |-> BssHdrCells, hdr |-> hdr, kind |-> "STATIC",
     sec |-> 0, sub |-> 0, nsub |-> 0, ro |-> 0, nro |-> 0, type |-> 0,
     param_map |-> <<>>, sections |-> <<>>, inputs |-> <<>>, outputs |-> <<>>,
     node |-> 0, node_cnt |-> 0]

\* fill_io_tensor_desc_inner: an io tensor is <<position met, id>>.
fill_io_tensor_desc_inner(w, type, id) ==
    CASE type = INPUT  -> [w EXCEPT !.inputs = Append(@, <<Len(@) + 1, id>>)]
      [] type = OUTPUT -> [w EXCEPT !.outputs = Append(@, <<Len(@) + 1, id>>)]
      [] OTHER         -> w

\* The goto overflow of every failed umd_is_valid_ptr.
BssOverflow == status' = "INVALID_GBIN" /\ UNCHANGED result

-----------------------------------------------------------------------------

Init ==
    /\ status = "pending"
    /\ result = <<>>
    /\ \/ fn = "parse_graph" /\ arg \in [size : Sizes, hdr : Headers]
       \/ fn = "sort_io_tensor" /\ arg \in IdLists
       \/ fn = "alloc_group_buffers" /\ arg \in SectionLists
       \/ fn = "simulation_alloc_data_buffer" /\ arg \in SimInputs
       \/ fn = "parse_bss_section" /\ arg \in BssInputs
       \/ fn = "build_new_job" /\ arg \in RelocInputs

call_parse_graph ==
    /\ fn = "parse_graph" /\ status = "pending"
    /\ status' = parse_graph(arg.size, arg.hdr)
    /\ UNCHANGED <<fn, arg, result>>

call_sort_io_tensor ==
    /\ fn = "sort_io_tensor" /\ status = "pending"
    /\ LET r == sort_io_tensor(Tensors(arg))
       IN  status' = r.ret /\ result' = r.tensors
    /\ UNCHANGED <<fn, arg>>

\* The offsets are computed first; malloc_buf of the total may then fail.
call_alloc_group_buffers ==
    /\ fn = "alloc_group_buffers" /\ status = "pending"
    /\ LET r == alloc_group_buffers([i \in DOMAIN arg |-> Section(arg[i])])
       IN  \/ status' = r.ret /\ result' = r
           \/ r.ret = "SUCCESS" /\ arg # <<>>
              /\ status' = "BUF_ALLOC_FAIL" /\ result' = r
    /\ UNCHANGED <<fn, arg>>

\* The sections come from parse_bss_section: ALIGN_ADDR of their align_bytes.
call_simulation_alloc_data_buffer ==
    /\ fn = "simulation_alloc_data_buffer" /\ status = "pending"
    /\ LET sec(d) == Section(d)
           t == [rodata_size |-> arg.rodata_size, dcr_size |-> arg.dcr_size,
                 stack |-> sec(arg.stack),
                 statics |-> [i \in DOMAIN arg.statics |-> sec(arg.statics[i])],
                 reuses |-> [i \in DOMAIN arg.reuses |-> sec(arg.reuses[i])]]
           r == simulation_alloc_data_buffer(arg.top, t)
       IN  status' = r.ret /\ result' = r
    /\ UNCHANGED <<fn, arg>>

call_build_new_job ==
    /\ fn = "build_new_job" /\ status = "pending"
    /\ LET r == build_new_job(arg) IN status' = r.ret /\ result' = r
    /\ UNCHANGED <<fn, arg>>

\* The bss header is copied without a bounds check; then stack_size,
\* stack_align_bytes and reuse_section_desc_cnt must not be 0.
parse_bss_section ==
    /\ fn = "parse_bss_section" /\ status = "pending"
    /\ \E junk \in Junk :
          LET hdr == [k \in 1 .. BssHdrCells |-> BssCell(k - 1, junk)]
              w   == [BssWalk0(hdr) EXCEPT !.cur = BssHdrCells]
          IN  /\ result' = w
              /\ status' = IF hdr[1] = 0 \/ hdr[2] = 0 \/ hdr[4] = 0
                           THEN "INVALID_GBIN" ELSE "running"
    /\ UNCHANGED <<fn, arg>>

Walking(p) == fn = "parse_bss_section" /\ status = "running" /\ result.pc = p

\* One round of the static-section loop, or its end.
bss_static_desc ==
    /\ Walking("static")
    /\ LET w == result IN
       \/ /\ w.sec = w.hdr[3]
          /\ result' = [w EXCEPT !.pc = "reuse", !.sec = 0]
          /\ UNCHANGED status
       \/ w.sec < w.hdr[3] /\ ~BssValid(w, 1) /\ BssOverflow
       \/ /\ w.sec < w.hdr[3] /\ BssValid(w, 1)
          /\ \E junk \in Junk :
                result' = [w EXCEPT !.nsub = BssCell(w.cur, junk), !.cur = @ + 1,
                                    !.sub = 0, !.kind = "STATIC", !.pc = "sub"]
          /\ UNCHANGED status
    /\ UNCHANGED <<fn, arg>>

\* One round of the reuse-section loop; after the last, the linked list
\* (v4 with linked_list_flag) or the sort.
bss_reuse_desc ==
    /\ Walking("reuse")
    /\ LET w == result IN
       \/ /\ w.sec = w.hdr[4]
          /\ result' = [w EXCEPT !.pc = IF arg.tree.ll = "none" THEN "sort" ELSE "ll"]
          /\ UNCHANGED status
       \/ w.sec < w.hdr[4] /\ ~BssValid(w, 1) /\ BssOverflow
       \/ /\ w.sec < w.hdr[4] /\ BssValid(w, 1)
          /\ \E junk \in Junk :
                result' = [w EXCEPT !.nsub = BssCell(w.cur, junk), !.cur = @ + 1,
                                    !.sub = 0, !.kind = "REUSE", !.pc = "sub"]
          /\ UNCHANGED status
    /\ UNCHANGED <<fn, arg>>

\* One round of a sub-section loop; a reuse sub-section of an io type is
\* also an io tensor.  After the last, the section is pushed.
bss_sub_desc ==
    /\ Walking("sub")
    /\ LET w == result IN
       \/ /\ w.sub = w.nsub
          /\ result' = [w EXCEPT !.sections = Append(@, <<w.kind, w.nsub>>),
                                 !.sec = @ + 1,
                                 !.pc = IF w.kind = "STATIC" THEN "static" ELSE "reuse"]
          /\ UNCHANGED status
       \/ w.sub < w.nsub /\ ~BssValid(w, SubDescCells) /\ BssOverflow
       \/ /\ w.sub < w.nsub /\ BssValid(w, SubDescCells)
          /\ \E junk \in Junk :
                LET type == BssCell(w.cur, junk)
                    id   == BssCell(w.cur + 1, junk)
                    io   == IF w.kind = "REUSE"
                            THEN fill_io_tensor_desc_inner(w, type, id) ELSE w
                IN  result' = [io EXCEPT !.type = type,
                                         !.nro = BssCell(w.cur + 2, junk),
                                         !.cur = @ + SubDescCells,
                                         !.ro = 0, !.pc = "ro"]
          /\ UNCHANGED status
    /\ UNCHANGED <<fn, arg>>

\* A relocation entry that leaves the cursor on the offset it read.
bss_ro_entry_no_advance ==
    /\ Walking("ro")
    /\ LET w == result IN
       \/ w.ro = w.nro /\ result' = [w EXCEPT !.sub = @ + 1, !.pc = "sub"]
          /\ UNCHANGED status
       \/ w.ro < w.nro /\ ~BssValid(w, 1) /\ BssOverflow
       \/ /\ w.ro < w.nro /\ BssValid(w, 1)
          /\ \E junk \in Junk :
                result' = [w EXCEPT !.param_map =
                                      Append(@, <<w.kind, w.sec, w.sub, BssCell(w.cur, junk)>>),
                                    !.ro = @ + 1]
          /\ UNCHANGED status
    /\ UNCHANGED <<fn, arg>>

\* One offset_in_ro: a param_map entry for the current section and
\* sub-section (param.init with PARAM_MAP_LOAD_TYPE_STATIC or _REUSE).
bss_ro_entry ==
    /\ Walking("ro")
    /\ LET w == result IN
       \/ w.ro = w.nro /\ result' = [w EXCEPT !.sub = @ + 1, !.pc = "sub"]
          /\ UNCHANGED status
       \/ w.ro < w.nro /\ ~BssValid(w, 1) /\ BssOverflow
       \/ /\ w.ro < w.nro /\ BssValid(w, 1)
          /\ \E junk \in Junk :
                result' = [w EXCEPT !.param_map =
                                      Append(@, <<w.kind, w.sec, w.sub, BssCell(w.cur, junk)>>),
                                    !.cur = @ + 1, !.ro = @ + 1]
          /\ UNCHANGED status
    /\ UNCHANGED <<fn, arg>>

\* The linked-list descriptor is checked; node_cnt must not be 0.
bss_linked_list ==
    /\ Walking("ll")
    /\ LET w == result IN
       \/ ~BssValid(w, 1) /\ BssOverflow
       \/ /\ BssValid(w, 1)
          /\ \E junk \in Junk :
                LET cnt == BssCell(w.cur, junk)
                IN  /\ result' = [w EXCEPT !.node_cnt = cnt, !.node = 0,
                                           !.cur = @ + 1, !.pc = "node"]
                    /\ status' = IF cnt = 0 THEN "INVALID_GBIN" ELSE "running"
    /\ UNCHANGED <<fn, arg>>

\* One list node, copied with no bounds check, or the end of the list.
bss_list_node ==
    /\ Walking("node")
    /\ LET w == result IN
       \/ w.node = w.node_cnt /\ result' = [w EXCEPT !.pc = "sort"]
       \/ w.node < w.node_cnt /\ result' = [w EXCEPT !.node = @ + 1, !.cur = @ + 1]
    /\ UNCHANGED <<fn, arg, status>>

\* sort_io_tensor(outputs) || sort_io_tensor(inputs): the inputs are
\* sorted only when the outputs were, and a failed sort still returns
\* the SUCCESS ret holds.
bss_sort ==
    /\ Walking("sort")
    /\ LET w  == result
           so == sort_io_tensor(w.outputs)
           si == sort_io_tensor(w.inputs)
       IN  result' = [w EXCEPT !.outputs = so.tensors,
                               !.inputs = IF so.ret = "SUCCESS" THEN si.tensors ELSE @,
                               !.pc = "done"]
    /\ status' = "SUCCESS"
    /\ UNCHANGED <<fn, arg>>

Returned == status \notin {"pending", "running"} /\ UNCHANGED vars

Next == call_parse_graph \/ call_sort_io_tensor \/ call_alloc_group_buffers
        \/ call_simulation_alloc_data_buffer \/ call_build_new_job
        \/ parse_bss_section
        \/ bss_static_desc \/ bss_reuse_desc \/ bss_sub_desc \/ bss_ro_entry
        \/ bss_linked_list \/ bss_list_node \/ bss_sort \/ Returned

Spec == Init /\ [][Next]_vars

-----------------------------------------------------------------------------
Statuses == {"pending", "running", "SUCCESS", "INVALID_SIZE", "INVALID_GBIN",
             "GVERSION_UNSUPPORTED", "HANG", "BUF_ALLOC_FAIL"}

TypeOK ==
    /\ fn \in {"parse_graph", "sort_io_tensor", "alloc_group_buffers",
              "simulation_alloc_data_buffer", "parse_bss_section",
              "build_new_job"}
    /\ status \in Statuses
    /\ fn = "alloc_group_buffers" /\ status # "pending" =>
          /\ result.tot \in Word
          /\ \A i \in DOMAIN result.offsets : result.offsets[i] \in Word

CallReturned(f) == fn = f /\ status \notin {"pending", "running"}

\* A header the format allows: every check passes in unbounded arithmetic.
WellFormed(size, h) ==
    /\ HdrSize <= size /\ h.filesize <= size
    /\ h.magic /\ h.version \in Supported /\ h.hdrsize = HdrSize
    /\ h.entry < h.text_size
    /\ HdrSize <= h.text_offset
    /\ h.text_offset + h.text_size <= h.rodata_offset
    /\ h.rodata_offset + h.rodata_size <= h.data_offset
    /\ h.data_offset + h.data_size <= h.bss_offset
    /\ h.bss_offset + h.bss_size <= h.filesize
    /\ 0 < h.rodata_size /\ 0 < h.bss_size

\* The regions of the file that load_graph copies from once the header is
\* accepted: text, rodata, data, bss and, for a v4 graph whose flag sets
\* linked_list_flag and whose dcr_size is not 0, dcr (build_new_job copies
\* dcr_src only under linked_list_flag).
LinkedList(h) == h.version = 4 /\ h.flag

Regions(h) ==
    {<<h.text_offset, h.text_size>>, <<h.rodata_offset, h.rodata_size>>,
     <<h.data_offset, h.data_size>>, <<h.bss_offset, h.bss_size>>}
    \cup (IF LinkedList(h) /\ h.dcr_size # 0
           THEN {<<h.dcr_offset, h.dcr_size>>} ELSE {})

\* parse_graph rejects no graph binary whose header is well formed: its
\* uint32 bounds checks never refuse a layout the format allows.
HeaderComplete ==
    CallReturned("parse_graph") /\ WellFormed(arg.size, arg.hdr) => status = "SUCCESS"

\* Every region an accepted header names lies inside the buffer handed to
\* parse_graph, so the memcpys of load_graph read only the binary.
HeaderSound ==
    CallReturned("parse_graph") /\ status = "SUCCESS" =>
        \A r \in Regions(arg.hdr) : r[1] + r[2] <= arg.size

\* When the ids are a permutation of 0..n-1, sort_io_tensor succeeds and
\* leaves every tensor exactly once, at the index of its id.
SortPlacesById ==
    CallReturned("sort_io_tensor")
    /\ {arg[i] : i \in DOMAIN arg} = 0 .. Len(arg) - 1 =>
        /\ status = "SUCCESS"
        /\ \A k \in DOMAIN result : result[k][2] = k - 1
        /\ {result[k] : k \in DOMAIN result} = {Tensors(arg)[k] : k \in DOMAIN arg}

\* When every section after the first asks for a non-zero alignment and the
\* group fits in 32 bits, the layout ends: each section starts at a multiple
\* of its alignment, after the end of the one before and less than one
\* alignment past it, and the total is the end of the last.
GroupLayoutSound ==
    LET secs == [j \in DOMAIN arg |-> Section(arg[j])]
        n    == Len(secs)
        step(i) == secs[i].align * Page
        ref[k \in 1 .. n] ==
            IF k = 1 THEN 0
            ELSE ((ref[k - 1] + secs[k - 1].size + step(k) - 1) \div step(k)) * step(k)
    IN  CallReturned("alloc_group_buffers")
        /\ (\A i \in 2 .. n : secs[i].align > 0)
        /\ (n > 0 => ref[n] + secs[n].size < 2^W) =>
            /\ status \in {"SUCCESS", "BUF_ALLOC_FAIL"}
            /\ \A i \in 2 .. n :
                  LET o == result.offsets[i]
                      e == result.offsets[i - 1] + secs[i - 1].size
                  IN  o % step(i) = 0 /\ e <= o /\ o < e + step(i)
            /\ result.tot = IF n = 0 THEN 0 ELSE result.offsets[n] + secs[n].size

\* With non-zero alignments and simulation_malloc_top far enough below 2^32
\* for nothing to wrap, simulation_alloc_data_buffer succeeds; the stack,
\* static and reuse buffers follow the rodata one, start at multiples of
\* their alignments, do not overlap, and lie inside the data buffer whose
\* host copy their va offsets index.
SimBuffersInData ==
    LET a    == arg
        secs == <<Section(a.stack)>>
                \o [i \in DOMAIN a.statics |-> Section(a.statics[i])]
                \o [i \in DOMAIN a.reuses |-> Section(a.reuses[i])]
        span == FoldLeft(LAMBDA acc, x : acc + ALIGN_PAGE(x.size) + x.align * Page,
                         0, secs)
        b    == result.bufs
    IN  CallReturned("simulation_alloc_data_buffer")
        /\ (\A i \in DOMAIN secs : secs[i].align > 0)
        /\ a.top + ALIGN_PAGE(a.rodata_size + a.dcr_size) + 2 * span < 2^W =>
            /\ status = "SUCCESS"
            /\ result.rodata[1] + result.rodata[2] <= result.base
            /\ \A i \in DOMAIN b :
                  /\ b[i][1] % (secs[i].align * Page) = 0
                  /\ result.base <= b[i][1]
                  /\ b[i][1] + b[i][2] <= result.base + result.dsize
                  /\ \A j \in 1 .. i - 1 : b[j][1] + b[j][2] <= b[i][1]
\* The descriptors a well-formed tree declares, in unbounded arithmetic.
BssHdrValid(t) ==
    /\ t.stack_size # 0 /\ t.stack_align # 0 /\ t.reuses # <<>>
    /\ t.ll # "none" => t.ll # <<>>
CheckedCells(t) == Len(BssCells(t)) - (IF t.ll = "none" THEN 0 ELSE Len(t.ll))
EntriesOf(kind, i, sec) ==
    FlattenSeq([j \in DOMAIN sec |->
                   [k \in DOMAIN sec[j].ros |-> <<kind, i - 1, j - 1, sec[j].ros[k]>>]])
ParamMapOf(t) ==
    FlattenSeq([i \in DOMAIN t.statics |-> EntriesOf("STATIC", i, t.statics[i])])
    \o FlattenSeq([i \in DOMAIN t.reuses |-> EntriesOf("REUSE", i, t.reuses[i])])
SectionsOf(t) ==
    [i \in DOMAIN t.statics |-> <<"STATIC", Len(t.statics[i])>>]
    \o [i \in DOMAIN t.reuses |-> <<"REUSE", Len(t.reuses[i])>>]
IoIds(t, type) ==
    LET subs == FlattenSeq([i \in DOMAIN t.reuses |->
                               SelectSeq(t.reuses[i], LAMBDA s : s.type = type)])
    IN  [k \in DOMAIN subs |-> subs[k].id]

\* parse_bss_section, on a bss section whose descriptors all lie in the
\* buffer, succeeds exactly when the header's counts are valid and the
\* last checked descriptor ends below load_ub.  Then the param_map holds
\* every offset_in_ro of every sub-section, in order, tagged with its
\* section kind and indexes; the sections are those declared; and io
\* tensors whose ids are 0..n-1 come back sorted by id, inputs and outputs
\* alike, with none from a static section.
BssWalkRecoversDescriptors ==
    LET t == arg.tree
        io == {<<result.inputs, IoIds(t, INPUT)>>, <<result.outputs, IoIds(t, OUTPUT)>>}
    IN  CallReturned("parse_bss_section") /\ arg.cut = Len(BssCells(t)) =>
            /\ (status = "SUCCESS") =
                  (BssHdrValid(t) /\ CheckedCells(t) <= BssHdrCells + arg.bss_size)
            /\ status = "SUCCESS" =>
                  /\ result.param_map = ParamMapOf(t)
                  /\ result.sections = SectionsOf(t)
                  /\ \A l \in io :
                        {l[2][k] : k \in DOMAIN l[2]} = 0 .. Len(l[2]) - 1 =>
                           /\ Len(l[1]) = Len(l[2])
                           /\ \A k \in DOMAIN l[1] : l[1][k][2] = k - 1

\* No read of parse_bss_section, checked or not, goes past the end of the
\* graph buffer: every record crossing the bss bound is INVALID_GBIN.
BssReadsInBuffer ==
    fn = "parse_bss_section" /\ status # "pending" => result.cur <= arg.cut

Bit(x, b) == (x \div 2^b) % 2

\* The words the descriptor loop writes, after the rodata loop.
DcrKeys(a) ==
    IF ~a.linked THEN {}
    ELSE {<<get_base_va(a, d.type)[1], get_base_va(a, d.type)[2] + d.off>> :
          d \in Range(a.dcr_map)}

\* After a successful build_new_job, every rodata word a param_map entry
\* names (and no descriptor entry rewrites) holds, in each bit that some
\* entry's mask covers, the bit of the last such entry's address; in every
\* other bit, the template's bit.  The address is what the accelerator
\* must add to the base the job config gives it (static_base or
\* reuse_base under ASID, nothing without) to reach the referenced
\* sub-section's device address.
RelocAddressesResolve ==
    LET a  == arg
        pm == a.param_map
        cfgBase(t) == IF t = "REUSE" THEN result.reuse_base ELSE result.static_base
        target(e)  == Wrap(host2dev(a, Bufs(a, e.type)[e.ref + 1] + e.sec_off)
                           - (IF a.asid THEN cfgBase(e.type) ELSE 0))
        bitAt(o, b) ==
            LET setters == {i \in DOMAIN pm : pm[i].off = o /\ Bit(pm[i].mask, b) = 1}
            IN  IF setters = {} THEN Bit(Tmpl, b) ELSE Bit(target(pm[Max(setters)]), b)
        word(o) == FoldFunction(+, 0, [b \in 0 .. W - 1 |-> 2^b * bitAt(o, b)])
    IN  CallReturned("build_new_job") /\ status = "SUCCESS" =>
            \A i \in DOMAIN pm :
               LET k == <<"rodata", pm[i].off>>
               IN  k \notin DcrKeys(a) => result.mem[k] = word(pm[i].off)
=============================================================================
