\* Three updates on two nodes, with Redis, and on one without.
SPECIFICATION FairSpec
CONSTANTS
    MaxUpdates = 3
    Nodes = {n1, n2}
    Modes = {TRUE, FALSE}
    QuickEntries = TRUE
INVARIANTS
    TypeOK
    LastScheduledIsSaved
    AllForgotten
PROPERTIES
    LastContentArrives
\* Every update may have been handled.
CHECK_DEADLOCK FALSE
