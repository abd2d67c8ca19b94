CONSTANTS
    Procs = {p1, p2}
    Fprs = {f1, f2, f3}
    SlotOf <- OneSlot
    Slots = {"s"}
    Values = {1}
    InitFree = {0, 2}
    Soft = 2
    HlstItems = 2
    MaxOps = 3
    MaxCrashes = 1
SPECIFICATION Spec
INVARIANTS TypeOK Durable ReadOwnWrites NeverInvalid OneUse CheckDue
CHECK_DEADLOCK FALSE
SYMMETRY Symmetry
CONSTRAINT Undamaged
