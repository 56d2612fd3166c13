CONSTANTS
    a = a
    h0 = h0
    None = None
    CacheSize = 2
    RelevancyMax = 5
    GetAfterCreate = TRUE
    MaxPage = 2
    Contents <- MCContents
    Zero = Zero
    Headers <- MCHeaders
    DefaultHeader = h0
    Absent = Absent
    IOErrors = FALSE
SPECIFICATION Spec
PROPERTIES
    FlushSavesEveryChange
