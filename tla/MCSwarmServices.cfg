SPECIFICATION SwarmSpec
CONSTANTS
    c1 = c1
    c2 = c2
    none = none
    None <- none
    Callers = {c1, c2}
    Plans <- MCPlans
    Slots = {1, 2}
    MaxVersion = 2
PROPERTIES NoLostUpdate VerdictIsTrue
CHECK_DEADLOCK FALSE
