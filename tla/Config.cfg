SPECIFICATION Spec
CONSTANTS
    k1 = k1
    k2 = k2
    k3 = k3
    k5 = k5
    u = u
    f1 = f1
    f2 = f2
    f3 = f3
    Word = Word
    Absent = Absent
    Broken = Broken
    None = None
    Keys <- MCKeys
    Foreign = {u}
    Item <- MCItem
    Files <- MCFiles
    LoadOrder <- MCOrder
    Initial <- MCInitial
    Clients = {c1, c2}
    Savers = {c1}
    Inputs = {0, 1, 2}
    MaxCommits = 2
    MaxLosses = 2
    MaxAudit = 2
INVARIANTS CleanMeansSaved OnlyValidValues AuditIsEffective
PROPERTIES  ChangesAreHandled
CHECK_DEADLOCK FALSE
