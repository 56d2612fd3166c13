CONSTANTS
    a = a
    h0 = h0
    None = None
    CacheSize = 2
    RelevancyMax = 3
    GetAfterCreate = FALSE
    MaxPage = 3
    Contents <- MCContents
    Zero = Zero
    Headers <- MCHeaders
    DefaultHeader = h0
    Absent = Absent
    IOErrors = TRUE
SPECIFICATION Spec
INVARIANTS
    Coherent
CONSTRAINT
    MostNotLost
PROPERTIES
    FlushSaves
