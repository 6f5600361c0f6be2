CONSTANTS
    s1 = s1
    s2 = s2
    s3 = s3
    a = a
    Server = {s1, s2, s3}
    Command = {a}
    Nil = Nil
    MaxEntries = 1
    MaxTerm = 4
    MaxLog = 3
    MaxNet = 2
    MaxBoot = 2
    MaxStale = 0
SPECIFICATION LogsSpec
VIEW View
INVARIANTS StateMachineSafety LeaderCompleteness LogMatching NextIndexInRange MatchIndexIsTrue
PROPERTIES CommittedStays OneLogForever
CHECK_DEADLOCK FALSE
