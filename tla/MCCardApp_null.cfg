CONSTANTS
    s1 = s1
    s2 = s2
    None = None
    Sessions = {s1, s2}
    Cards = {"y", "g"}
    AppsOf <- TokenAndCard
    Cmds <- SomeCmds
    InitList <- TokenKnown
    MaxCmds = 3
    MaxUnplugs = 0
SPECIFICATION Spec
INVARIANT SerialnoHasCard
