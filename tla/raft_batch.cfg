CONSTANTS
    s1 = s1
    s2 = s2
    s3 = s3
    a = a
    Server = {s1, s2, s3}
    Command = {a}
    Nil = Nil
    MaxEntries = 1
    MaxTerm = 3
    MaxLog = 4
    MaxNet = 2
    MaxBoot = 1
    MaxStale = 0
SPECIFICATION StaleTailSpec
VIEW View
INVARIANT StateMachineSafety
CHECK_DEADLOCK FALSE
