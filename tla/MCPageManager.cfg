CONSTANTS
    a = a
    h0 = h0
    None = None
    CacheSize = 2
    RelevancyMax = 4
    GetAfterCreate = TRUE
    MaxPage = 3
    Contents <- MCContents
    Zero = Zero
    Headers <- MCHeaders
    DefaultHeader = h0
    Absent = Absent
    IOErrors = FALSE
SPECIFICATION Spec
INVARIANTS
    TypeOK
    SingleCopy
    Coherent
    HeldPointersValid
    HeaderFirst
PROPERTIES
    ImplementsStore
