CONSTANTS
    c1 = c1
    c2 = c2
    name = name
    nameMoved = nameMoved
    renamed = renamed
    NULL = NULL
    Cities <- MCCities
    Attrs <- MCAttrs
    RowHash <- MCRowHash
    Batches <- MCBatches
    MaxTime = 4
SPECIFICATION Spec
SYMMETRY CitySymmetry
CHECK_DEADLOCK FALSE
INVARIANTS
    TypeOK
    OneCurrentPerCity
    DisjointIntervals
    GapsOnlyFromCrashes
    NoRedundantVersions
    AppliedBatchIsCurrent
    MergeIsNeverRefused
PROPERTIES
    PastIsStable
    HistoryIsKept
    ImplementsHistory
