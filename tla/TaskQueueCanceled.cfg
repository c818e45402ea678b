SPECIFICATION Spec
CONSTANTS
    t1 = t1
    t2 = t2
    w1 = w1
    w2 = w2
    ann = ann
    root = root
    Tasks = {t1, t2}
    Workers = {w1, w2}
    Users = {ann, root}
    Admins = {root}
    CreatedBy <- MCCreatedBy
    Unhandled = {t2}
    Capacity = 1
    NoTask = NoTask
PROPERTIES
    FinishedIsFinal
