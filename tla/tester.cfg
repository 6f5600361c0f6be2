SPECIFICATION Spec
CONSTANTS
    Server = {s1, s2}
    Cmd = {c1, c2}
    None = None
    MaxBoot = 2
    MaxSave = 2
    MaxIndex = 2
    MaxDeliver = 2
    MaxTerm = 2
    MaxTotal = 3
SYMMETRY Symmetry
CONSTRAINT Parts
INVARIANTS
    TypeOK
    LinksFollow
    SavedSuffices
    NoFalseAlarm
    DisagreementCaught
    OrderCaught
    OneAgreed
    ChecksSound
CHECK_DEADLOCK FALSE
