CONSTANTS
    c1 = c1
    c2 = c2
    NULL = NULL
    Entries = 3
    MAX_RETRIES = 3
    Runs = {r1, r2}
    Cities = {c1, c2}
    Days = {1, 2}
    Hours = {0}
    Temps = {0, 5}
    GoldCount = 2
    StaticCount = 2
    CityOf <- MCCityOf
    Weather <- MCWeather
    Changing = {c1}
SPECIFICATION Spec
CHECK_DEADLOCK FALSE
INVARIANTS
    TypeOK
    EveryEntryAccounted
    RetriesAreSpent
    GoldTablesAgree
    DailyFollowsLake
    RefusedOnlyByOverlap
    RefreshedViewsAreCurrent
PROPERTIES
    IngestionEnds
