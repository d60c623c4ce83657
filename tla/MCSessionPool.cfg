SPECIFICATION FairSpec
CONSTANTS
    Nodes = {n1, n2}
    Sessions = {s1}
    None = None
    Dead = Dead
    Timeout = 2
    Leases = {1, 3}
    MaxCrashes = 2
INVARIANTS
    TypeOK
    LeaseProtects
    BeatingIsKept
PROPERTIES
    BeatingIsCleanedUp
    KeepsRegistry
    OrphansAreReaped
