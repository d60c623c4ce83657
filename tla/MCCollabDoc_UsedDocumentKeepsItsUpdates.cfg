\* The claim UsedDocumentKeepsItsUpdates.
SPECIFICATION Spec
CONSTANTS
    s1 = s1
    s2 = s2
    s3 = s3
    Session = {s1, s2}
    MaxEdits = 2
    Threshold = 2
PROPERTY UsedDocumentKeepsItsUpdates
\* Everyone may have left for good.
CHECK_DEADLOCK FALSE
