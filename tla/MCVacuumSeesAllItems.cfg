CONSTANTS
    a = a
    b = b
    c = c
    Blank = Blank
    SizeOf <- MCSizeOf
    Items <- ThreeRecords
    Capacity = 5
    HeaderSize = 0
    CacheSize = 10
    MaxGroups = 1
    Restarts = TRUE
    MaxPage = 2
SPECIFICATION Spec
INVARIANT VacuumSeesAllItems
CHECK_DEADLOCK FALSE
