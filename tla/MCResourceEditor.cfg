SPECIFICATION Spec
CONSTANTS
    Containers = {api}
    Values = {1, 2, 4}
    Tasks = {t1}
    Nil = Nil
    MaxOps = 4
    MaxWrites = 1
    MaxFaults = 1
INVARIANTS
    TypeOK
    OriginalRemembered
PROPERTIES
    UndoRestores
CHECK_DEADLOCK FALSE
