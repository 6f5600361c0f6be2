CONSTANTS
    o1 = o1
    o2 = o2
    o3 = o3
    x = x
    y = y
    Op = {o1, o2, o3}
    Key = {x, y}
    MaxTime = 2
    Histories <- MCHistories
    Nil = Nil
SPECIFICATION Spec
INVARIANTS ListIntact VerdictCorrect PartialsLegal
PROPERTY Terminates
CHECK_DEADLOCK FALSE
