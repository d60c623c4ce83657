SPECIFICATION Spec
CONSTANTS
    Workers = {w1, w2}
    Kinds = {"fixed", "rolling"}
    Limits <- FewRequests
    Windows <- FewTicks
    Bucket = 3
    MaxTime = 6
    MaxRequests <- MoreRequests
    MaxCrashes = 1
SYMMETRY Symmetric
INVARIANTS
    TypeOK
    AdmitsAtMost
    CountersExpire
PROPERTY RefusesOnlyTheBusy
CHECK_DEADLOCK FALSE
