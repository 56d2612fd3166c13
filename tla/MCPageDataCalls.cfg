CONSTANTS
    a = a
    b = b
    c = c
    Blank = Blank
    SizeOf <- MCSizeOf
    Items <- ThreeRecords
    Capacity = 5
    HeaderSize = 0
    CacheSize = 10
    MaxGroups = 2
    Restarts = TRUE
    MaxPage = 2
SPECIFICATION FairSpec
PROPERTY CallsReturn
CHECK_DEADLOCK FALSE
