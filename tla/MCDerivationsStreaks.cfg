CONSTANTS
    NULL = NULL
    Names = {Name}
    Name = Name
    c1 = c1
    c2 = c2
    c3 = c3
    k1 = k1
    k2 = k2
    Inputs <- HeatInputs
    LastYear = 2030
SPECIFICATION Spec
CHECK_DEADLOCK FALSE
INVARIANT StreaksAreConsecutiveDays
