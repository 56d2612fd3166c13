CONSTANTS
    a = a
    b = b
    c = c
    Blank = Blank
    SizeOf <- MCSizeOf
    Items <- ThreeRecords
    Capacity = 3
    HeaderSize = 2
    CacheSize = 10
    MaxGroups = 1
    Restarts = TRUE
    MaxPage = 2
SPECIFICATION Spec
INVARIANT InsertedItemsFit
CHECK_DEADLOCK FALSE
