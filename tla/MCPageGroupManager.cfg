CONSTANTS
    MaxPage = 4
SPECIFICATION FairSpec
INVARIANTS
    TypeOK
    GroupsLinked
    TailKnown
    FreeListLinked
    OneOwner
PROPERTIES
    OthersUntouched
    LoopsEnd
CHECK_DEADLOCK
    FALSE
