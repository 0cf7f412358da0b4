SPECIFICATION RunSpec
CONSTANTS
    none = none
    None <- none
    Requests <- MCRequests
    MaxLines = 1
    MaxStarts = 2
    Cap = 1
    Match = 1
INVARIANTS OutputSurvives EndIsAccounted
PROPERTIES WaitsEnd
CHECK_DEADLOCK FALSE
