CONSTANTS
    a = a
    h0 = h0
    h1 = h1
    MaxPage = 3
    Contents <- MCContents
    Zero = Zero
    Headers <- MCHeaders
    DefaultHeader = h0
    Absent = Absent
    IOErrors = TRUE
SPECIFICATION Spec
INVARIANTS
    TypeOK
    HeaderCoversPages
    HeaderUpToDate
PROPERTIES
    PageAmountNeverShrinks
    StaysOpenable
