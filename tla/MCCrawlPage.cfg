\* Two crawls, two versions of the page, two failures.
SPECIFICATION FairSpec
CONSTANTS
    c1 = c1
    c2 = c2
    Crawls = {c1, c2}
    MaxVersion = 2
    MaxFailures = 2
    SameDatabase = TRUE
INVARIANTS
    TypeOK
    UnchangedIsSearchable
PROPERTIES
    Converges
