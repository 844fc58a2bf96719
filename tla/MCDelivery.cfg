SPECIFICATION Spec
CONSTANTS
    Collectors = {c1}
    Slots = 1
    Cap = 1
    MaxWindows = 4
    MaxCalls = 2
    MaxFaults = 4
INVARIANTS
    TypeOK
    NoSilentLoss
    RepeatedOnlyWithCause
    OldestDroppedFirst
    BufferBounded
