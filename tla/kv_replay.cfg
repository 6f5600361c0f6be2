CONSTANTS
    N = 2
    Client = {c1}
    Key = {x}
    OpType = {"Append"}
    Nil = Nil
    MaxOps = 2
    MaxTerm = 1
    MaxLog = 3
    MaxBoot = 1
    MaxLate = 1
SPECIFICATION Spec
SYMMETRY ClientSymmetry
VIEW View
CONSTRAINT AllInTurn
INVARIANTS ReplicaCorrect NothingLost
CHECK_DEADLOCK FALSE
