CONSTANTS
    None = None
    Expressions <- MCExpressions
    Depth <- MCDepth
    Half = 2
    Schema <- MCSchema
    Queries <- MCQueries
    Inserts <- MCInserts
    Updates <- MCUpdates
    Deletes <- MCDeletes
    Catalogues <- MCCatalogues
    MaxRows <- MCMaxRows
    IOErrors = TRUE
SPECIFICATION Spec
CHECK_DEADLOCK FALSE
INVARIANTS
    TypeOK
    QueryRight
    RowsReadable
    FreedOnce
