SPECIFICATION Spec
CONSTANTS
    x = x
    y = y
    Files = {x, y}
    NoFile = NoFile
    CellsPerBlock = 2
    Size <- MCSize
    Records <- MCRecords
    Data <- MCData
INVARIANTS TypeOK ReadsSeeWrites ClosedIsComplete
PROPERTIES DatedIsOnDisk DiskNeverGoesBack
