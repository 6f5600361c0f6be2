CONSTANTS
    N = 2
    Client = {c1, c2}
    Key = {x}
    OpType = {"Append", "Get"}
    Nil = Nil
    MaxOps = 1
    MaxTerm = 2
    MaxLog = 2
    MaxBoot = 0
    MaxLate = 0
SPECIFICATION Spec
SYMMETRY ClientSymmetry
VIEW View
CONSTRAINT AllInTurn
INVARIANTS TypeOK Linearizable
CHECK_DEADLOCK FALSE
