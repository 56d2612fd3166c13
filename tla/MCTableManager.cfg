CONSTANTS
    g1 = g1
    g2 = g2
    g3 = g3
    g4 = g4
    g5 = g5
    NULL = NULL
    Names <- MCNames
    Schemas <- MCSchemas
    Oversized <- MCOversized
    Groups <- MCGroups
    MaxId = 2
    IOErrors = TRUE
    Crashes = TRUE
SPECIFICATION Spec
SYMMETRY GroupsAlike
CHECK_DEADLOCK FALSE
INVARIANTS
    TypeOK
    NamesApart
    
    
    OpensAgain
