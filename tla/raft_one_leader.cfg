CONSTANTS
    Server = {s1, s2, s3}
    Command = {a}
    Nil = Nil
    MaxEntries = 1
    MaxTerm = 2
    MaxLog = 0
    MaxNet = 3
    MaxBoot = 0
    MaxStale = 0
SPECIFICATION Spec
SYMMETRY Symmetry
VIEW View
INVARIANT OneLeaderPerTerm
CHECK_DEADLOCK FALSE
