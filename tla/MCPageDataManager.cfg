CONSTANTS
    a = a
    b = b
    c = c
    Blank = Blank
    SizeOf <- MCSizeOf
    Items <- ThreeRecords
    Capacity = 5
    HeaderSize = 0
    CacheSize = 10
    MaxGroups = 1
    Restarts = FALSE
    MaxPage = 3
SPECIFICATION Spec
INVARIANTS TypeOK PagesPacked RowsKept ScanOnce
PROPERTY VacuumReclaims
SYMMETRY SmallRecords
CHECK_DEADLOCK FALSE
