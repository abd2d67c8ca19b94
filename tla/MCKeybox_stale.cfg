CONSTANTS
    Procs = {p1, p2}
    k1 = k1
    k2 = k2
    Keys = {k1, k2}
    Ops = {"import", "keydelete"}
    InitialFiles <- SomeFiles
    MaxSessions = 3
    MaxCrashes = 0
    MaxInodes = 6
SPECIFICATION Spec
PROPERTIES UpdatesItsKey
