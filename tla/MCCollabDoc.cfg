\* Two sessions, two edits; the list is compacted at two updates.
SPECIFICATION Spec
CONSTANTS
    s1 = s1
    s2 = s2
    s3 = s3
    Session = {s1, s2}
    MaxEdits = 2
    Threshold = 2
SYMMETRY Symmetric
CONSTRAINT Whole
INVARIANTS
    TypeOK
    NothingFallsBetween
    SeenIsStored
    AbandonedIsCleared
\* Everyone may have left for good.
CHECK_DEADLOCK FALSE
