CONSTANTS
    alias1 = alias1
    alias2 = alias2
    other = other
    k1 = k1
    k2 = k2
    warm = warm
    cold = cold
    broken = broken
    NULL = NULL
    Pipelines = {p1, p2}
    BronzeJobs = {}
    SilverJobs = {}
    Entries <- MCEntries
    Keys <- MCKeys
    Bodies <- MCBodies
    Broken <- MCBroken
    Ingestions <- MCOneEntry
    MaxResets = 0
SPECIFICATION Spec
CHECK_DEADLOCK FALSE
INVARIANT QuarantinedOnce
