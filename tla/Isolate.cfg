SPECIFICATION FairSpec
CONSTANTS
    Fibers = {f1, f2, f3, f4}
    Natives = {n1, n2}
    Jobs = {j1}
    Main = Main
    Exit = Exit
    Objects = {o1}
    MaxHolds = 1
    SpareValues = {1, 2}
    None = None
CHECK_DEADLOCK FALSE
INVARIANTS JobFound RefAccounting SpareFiber ExitClean
PROPERTIES JobRuns Exits
