CONSTANTS
    Procs = {p1, p2}
    k1 = k1
    k2 = k2
    Keys = {k1, k2}
    Ops = {"import", "edit", "keydelete", "setflags", "generate"}
    InitialFiles <- SomeFiles
    MaxSessions = 3
    MaxCrashes = 1
    MaxInodes = 6
SPECIFICATION Spec
INVARIANTS NoDuplicates Recoverable
PROPERTIES OnlyOwnKey ImportMergesLatest
