CONSTANTS
    kvs = kvs
    c1 = c1
    e1 = e1
    Call = {c1, c2}
    End = {e1, e2}
    Name = {kvs}
    connections <- OneServer
    Nil = Nil
    MaxBoot = 2
    MaxCuts = 2
SPECIFICATION FairSpec
CONSTRAINT Mirror
INVARIANTS TypeOK AckedSurvives
PROPERTIES CallReturns HandlerEnds
CHECK_DEADLOCK FALSE
