SPECIFICATION Spec
CONSTANTS
    InitialSlots = 1
    RootId = {1, 2, 3}
    FileType = {adf, hdf5}
    adf = adf
    hdf5 = hdf5
    HDF5 = hdf5
    NONE = NONE
    FileName = {cgnsfile}
    Absent = Absent
    cgnsfile = cgnsfile
    MaxFiles = 2
    CompressSettings = {0, 1}
INVARIANTS OpenCountIsLive OpenCountsFiles
PROPERTIES SlotLostByFailedRewriteOnly ImplementsHandleTable
