SPECIFICATION Spec
CONSTANTS
    Containers = {api, envoy}
    Values = {1, 2, 4}
    Tasks = {t1}
    Nil = Nil
    MaxOps = 2
    MaxWrites = 0
    MaxFaults = 0
INVARIANTS
    OtherContainersUntouched
CHECK_DEADLOCK FALSE
