\* parse_graph accepts a header naming a region outside the buffer it was given.
CONSTANTS
    W <- MC_W
    Page <- MC_Page
    HdrSize <- MC_HdrSize
    Sizes <- MC_Sizes
    Headers <- MC_Headers
    IdLists <- MC_IdLists
    SectionLists <- MC_SectionLists
    SimInputs <- MC_SimInputs
    BssInputs <- MC_BssInputs
    RelocInputs <- MC_RelocInputs
SPECIFICATION Spec
INVARIANT HeaderSound
