CONSTANTS
    t1 = t1
    t2 = t2
    k1 = k1
    k2 = k2
    Thread = {t1, t2}
    Clerk = {k1, k2}
    ck <- OwnClerk
    Key = {x, y}
    Value = {v, w}
    Nil = Nil
    MaxReq = 2
SPECIFICATION Spec
INVARIANT TypeOK
PROPERTY Linearizable
CHECK_DEADLOCK FALSE
