SPECIFICATION Spec
CONSTANTS
    none = none
    None <- none
    Tools = {"registry_tags", "wait", "hub_tags", "image_config"}
    Tags = {1, 2, 3}
    Target = 3
    Images <- MCImages
    PageSize = 1
    MaxPages = 2
    Limit = 3
    Delays = {10, 11}
    Threshold = 10
    Backoff = 1
    MaxTransient = 2
    MaxMoves = 2
INVARIANTS BlipIsAbsorbed TagsAreWhole ConfigIsTheImages
CHECK_DEADLOCK FALSE
