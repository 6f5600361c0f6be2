CONSTANTS
    N = 2
    Client = {c1, c2}
    Key = {x}
    OpType = {"Append", "Get"}
    Nil = Nil
    MaxOps = 1
    MaxTerm = 1
    MaxLog = 2
    MaxBoot = 0
    MaxLate = 0
SPECIFICATION Spec
SYMMETRY ClientSymmetry
VIEW View
INVARIANT ReplicasInOrder
CHECK_DEADLOCK FALSE
