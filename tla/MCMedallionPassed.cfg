CONSTANTS
    alias1 = alias1
    alias2 = alias2
    other = other
    k1 = k1
    k2 = k2
    warm = warm
    cold = cold
    broken = broken
    NULL = NULL
    Pipelines = {}
    BronzeJobs = {b1, b2}
    SilverJobs = {s1}
    Entries <- MCEntries
    Keys <- MCKeys
    Bodies <- MCBodies
    Broken <- MCBroken
    Ingestions <- MCOneEntry
    MaxResets = 0
SPECIFICATION Spec
CHECK_DEADLOCK FALSE
INVARIANT WatermarkCoversProcessed
