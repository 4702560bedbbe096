\* The load-path algorithms against their reference definitions.
CONSTANTS
    W <- MC_W
    Page <- MC_Page
    HdrSize <- MC_HdrSize
    Sizes <- MC_Sizes
    Headers <- MC_Headers
    IdLists <- MC_IdLists
    SectionLists <- MC_SectionLists
    SimInputs <- MC_SimInputs
    BssInputs <- MC_BssInputs
    RelocInputs <- MC_RelocInputs
SPECIFICATION Spec
INVARIANTS TypeOK HeaderComplete SortPlacesById GroupLayoutSound SimBuffersInData
    BssWalkRecoversDescriptors RelocAddressesResolve
