SPECIFICATION Spec
CONSTANTS
    Procs = {p1, p2}
    Keys = {k1, k2}
    Items = {i1, i2, i3}
    Sizes = {0, 2}
    Timeouts <- SomeTimeouts
    MaxTime = 1
    End = End
CHECK_DEADLOCK FALSE
SYMMETRY Symmetry
INVARIANTS StructuresAgree ExpiredOrdered NoEmptyEntry WaiterServed
PROPERTY ErasesOwnEntry
