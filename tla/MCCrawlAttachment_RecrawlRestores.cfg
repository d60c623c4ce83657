SPECIFICATION FairSpec
CONSTANTS
    Jobs = {j1}
    MaxFile = 2
    MaxFailures = 0
PROPERTY RecrawlRestores
ACTION_CONSTRAINT DropsWhenQuiet
