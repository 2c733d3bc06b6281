CONSTANTS
    c1 = c1
    c2 = c2
    a1 = a1
    a2 = a2
    listed = listed
    unlisted = unlisted
    NULL = NULL
    MaxAge = 0
    Cities <- MCCities
    Attrs <- MCAttrs
    RowHash <- MCRowHash
    Batches <- MCBatches
    MaxTime = 2
    Codes = {listed, unlisted}
    KnownCodes <- MCKnownCodes
    Silvers <- MCSilversWithUnlisted
    Ephemeral = FALSE
SPECIFICATION Spec
SYMMETRY CitySymmetry
CHECK_DEADLOCK FALSE
INVARIANT EveryCityShown
