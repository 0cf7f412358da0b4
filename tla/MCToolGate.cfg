SPECIFICATION Spec
CONSTANTS
    d1 = d1
    d2 = d2
    none = none
    None <- none
    Daemons = {d1, d2}
    Here <- d1
    Ssh = {d2}
    Settings <- MCSettings
INVARIANTS OnlyAllowedEffects OneDaemonPerLabel SurfaceIsTrue
CHECK_DEADLOCK FALSE
