SPECIFICATION Spec
CONSTANTS
    Containers = {api}
    Values = {1, 2, 4}
    Tasks = {t1, t2}
    Nil = Nil
    MaxOps = 2
    MaxWrites = 0
    MaxFaults = 0
INVARIANTS
    OriginalKept
CHECK_DEADLOCK FALSE
