---------------------------- MODULE MC_GraphLoad ----------------------------
(* Bounded inputs for GraphLoad: 6-bit arithmetic, a 4-byte page, a 4-byte *)
(* header, and for every field values that pass, fail, or wrap its check.  *)
EXTENDS GraphLoad

MC_W == 6
MC_Page == 4
MC_HdrSize == 4

\* A well formed layout is text [8,16) rodata [16,24) data [24,32)
\* bss [32,40) in a 40-byte file handed over in a 48-byte buffer; each
\* field also takes a value that fails its check or makes a sum wrap.
MC_Sizes == {2, 48}
MC_Headers ==
    {h \in [magic : BOOLEAN, version : {3, 4, 5}, hdrsize : {4, 8},
            filesize : {40, 56}, entry : {0, 8},
            text_offset : {2, 8}, text_size : {0, 8, 60},
            rodata_offset : {12, 16}, rodata_size : {0, 8, 56},
            data_offset : {24}, data_size : {0, 8, 48},
            bss_offset : {32}, bss_size : {0, 8, 40},
            dcr_offset : {0, 48}, dcr_size : {0, 8}, flag : BOOLEAN] :
        (h.dcr_offset = 0) = (h.dcr_size = 0)}

\* Every id sequence of one to four tensors with ids 0..4.
MC_IdLists == UNION {[1 .. n -> 0 .. 4] : n \in 1 .. 4}

\* Up to three static sections; align_bytes 62 wraps ALIGN_PAGE to 0.
MC_SectionLists ==
    UNION {[1 .. n -> {0, 5, 20} \X {0, 4, 9, 62}] : n \in 0 .. 3}

\* simulation_malloc_top low, mid-way and near 2^W; the stack, up to one
\* static section and one or two reuse sections (reuse_section_desc_cnt
\* is never 0), with alignments of one or several pages.
MC_SimInputs ==
    [top : {0, 20, 52}, rodata_size : {3}, dcr_size : {0, 2},
     stack : {<<3, 4>>, <<3, 9>>},
     statics : {<<>>, <<<<5, 4>>>>, <<<<5, 16>>>>},
     reuses : {<<<<2, 4>>>>, <<<<6, 9>>>>, <<<<2, 4>>, <<6, 9>>>>}]
\* bss descriptor trees: a static section with one relocated sub-section
\* or none; no reuse section (invalid), one with no sub-section, one with
\* an input and an output, or two with inputs 1 and 0; no linked list, an
\* empty one (invalid) or two nodes.  The buffer ends anywhere in the
\* cells, and bss_size is anything from 1 to the cells the buffer holds.
MC_Sub(type, id, ros) == [type |-> type, id |-> id, ros |-> ros]
MC_Trees ==
    [stack_size : {0, 3}, stack_align : {4},
     statics : {<<>>, <<<<MC_Sub(0, 0, <<2>>)>>>>},
     reuses : {<<>>, <<<<>>>>,
               <<<<MC_Sub(INPUT, 0, <<3>>), MC_Sub(OUTPUT, 0, <<>>)>>>>,
               <<<<MC_Sub(INPUT, 1, <<>>)>>, <<MC_Sub(INPUT, 0, <<1>>)>>>>},
     ll : {"none", <<>>, <<1, 1>>}]
MC_BssInputs ==
    UNION {{i \in [tree : {t}, cut : 1 .. Len(BssCells(t)),
                   bss_size : 1 .. Len(BssCells(t))] : i.bss_size <= i.cut} :
           t \in MC_Trees}

\* One thread buffer: rodata at 48 (two words, then dcr_size bytes of
\* descriptors), two static buffers in a group at 12, two reuse buffers in
\* a group at 28, text at 4.  param_map entries patch word 0, the word
\* that straddles the end of rodata, or the first descriptor word, with a
\* partial or a full mask, and reference buffer 1 or the missing buffer 2;
\* with a linked list, one descriptor entry patches rodata or the
\* descriptors with the address of text or of the descriptors.
MC_Entries ==
    [off : {0, 6, 8}, type : {"STATIC", "REUSE"}, ref : {1, 2},
     sec_off : {2}, mask : {60, 63}]
MC_Dcr ==
    [type : {"RODATA", "DESCRIPTOR"}, off : {0},
     next_type : {"TEXT", "DESCRIPTOR"}, next_off : {2}]
MC_Reloc(shms) ==
    {a \in [rodata_size : {8}, dcr_size : {0, 4}, linked : BOOLEAN,
            rodata_pa : {48}, text_pa : {4},
            static_group : {12}, static_buf : {<<12, 16>>},
            reuse_group : {28}, reuse_buf : {<<28, 36>>},
            shm : shms, asid : BOOLEAN,
            param_map : UNION {[1 .. n -> MC_Entries] : n \in 0 .. 2},
            dcr_map : {<<>>} \cup [1 .. 1 -> MC_Dcr]] :
        /\ a.linked => a.dcr_size # 0
        /\ (a.dcr_map # <<>>) = a.linked}
\* The x86 backend: host_aipu_shm_offset is 0.
MC_RelocInputs == MC_Reloc({0})
\* The ARM backend on a platform whose shared memory is offset.
MC_RelocInputsShm == MC_Reloc({0, 8})
=============================================================================
