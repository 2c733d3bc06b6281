CONSTANTS
    alias1 = alias1
    alias2 = alias2
    other = other
    k1 = k1
    k2 = k2
    warm = warm
    cold = cold
    broken = broken
    NULL = NULL
    Pipelines = {p1}
    BronzeJobs = {b1}
    SilverJobs = {s1, s2}
    Entries <- MCEntries
    Keys <- MCKeys
    Bodies <- MCBodies
    Broken <- MCBroken
    Ingestions <- MCIngestions
    MaxResets = 1
SPECIFICATION Spec
SYMMETRY JobSymmetry
CHECK_DEADLOCK FALSE
INVARIANTS
    TypeOK
    SilverGrain
    SilverFollowsBronze
    PassedRowsAreRouted
    CopiesNeedDisruption
PROPERTIES
    LatestLoadWins
