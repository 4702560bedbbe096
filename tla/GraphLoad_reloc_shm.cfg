\* build_new_job on the ARM backend with a shared-memory offset and ASID:
\* the relocated addresses miss their sub-sections.
CONSTANTS
    W <- MC_W
    Page <- MC_Page
    HdrSize <- MC_HdrSize
    Sizes <- MC_Sizes
    Headers <- MC_Headers
    IdLists <- MC_IdLists
    SectionLists <- MC_SectionLists
    SimInputs <- MC_SimInputs
    BssInputs <- MC_BssInputs
    RelocInputs <- MC_RelocInputsShm
SPECIFICATION Spec
INVARIANT RelocAddressesResolve
