SPECIFICATION FairSpec
CONSTANTS
    Collectors = {c1}
    Slots = 1
    Cap = 1
    MaxWindows = 3
    MaxCalls = 2
    MaxFaults = 3
PROPERTIES
    BufferDrains
