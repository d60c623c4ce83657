SPECIFICATION FairSpec
CONSTANTS
    Nodes = {n1, n2}
    Sessions = {s1}
    None = None
    Dead = Dead
    Timeout = 2
    Leases = {1}
    MaxCrashes = 1
PROPERTIES
    EveryOrphanIsReaped
