SPECIFICATION Spec
CONSTANTS
    Groups <- MCGroups
    Words <- MCWords
    StrKeys <- MCStrKeys
    SetKeys <- MCSetKeys
    ZsetKeys <- MCZsetKeys
    HashKeys <- MCHashKeys
    Conns <- MCConns
    Typed <- MCTyped
    Misread <- MCMisread
    Freed <- MCFreed
    Commands <- MCCommands
    InitialData <- MCInitialData
    CronOf <- MCCronOf
    NonNumbers = {6}
    Slice = 2
    Now = 3
    MaxWrites = 1
    MaxRefused = 1
INVARIANTS TypeOK NoneMissed AckedIsStored
PROPERTIES OfferedFits BrokenOffersNothing
