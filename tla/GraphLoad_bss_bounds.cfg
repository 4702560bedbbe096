\* parse_bss_section on bss sections cut anywhere by the end of the buffer:
\* a descriptor read runs past the end.
CONSTANTS
    W <- MC_W
    Page <- MC_Page
    HdrSize <- MC_HdrSize
    Sizes <- MC_Sizes
    Headers <- MC_Headers
    IdLists <- MC_IdLists
    SectionLists <- MC_SectionLists
    SimInputs <- MC_SimInputs
    BssInputs <- MC_BssInputs
    RelocInputs <- MC_RelocInputs
SPECIFICATION Spec
INVARIANT BssReadsInBuffer
