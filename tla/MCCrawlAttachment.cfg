SPECIFICATION FairSpec
CONSTANTS
    Jobs = {j1, j2}
    MaxFile = 2
    MaxFailures = 3
INVARIANTS
    TypeOK
    ProcessedIsSearchable
PROPERTY EndsProcessed
