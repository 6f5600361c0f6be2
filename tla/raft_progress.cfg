CONSTANTS
    ldr = s1
    voter = s2
    Server = {s1, s2, s3}
    Command = {a}
    Nil = Nil
    MaxEntries = 1
    MaxTerm = 1
    MaxLog = 1
    MaxNet = 2
    MaxBoot = 0
    MaxStale = 0
SPECIFICATION FairSpec
PROPERTIES StartedCommits CommitSpreads
CHECK_DEADLOCK FALSE
