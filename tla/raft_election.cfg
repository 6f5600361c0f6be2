CONSTANTS
    Server = {s1, s2, s3}
    Command = {a}
    Nil = Nil
    MaxEntries = 1
    MaxTerm = 2
    MaxLog = 0
    MaxNet = 2
    MaxBoot = 1
    MaxStale = 1
SPECIFICATION Spec
SYMMETRY Symmetry
VIEW View
CONSTRAINT OneDisturbance
INVARIANTS TypeOK ElectionSafety RevoteNeedsAppend
CHECK_DEADLOCK FALSE
