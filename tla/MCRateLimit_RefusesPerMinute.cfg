SPECIFICATION Spec
CONSTANTS
    Workers = {w1}
    Kinds = {"fixed"}
    Limits <- LimitOfOne
    Windows <- TwoTicks
    Bucket = 1
    MaxTime = 4
    MaxRequests <- ThreeRequests
    MaxCrashes = 1
PROPERTY RefusesPerMinute
CHECK_DEADLOCK FALSE
