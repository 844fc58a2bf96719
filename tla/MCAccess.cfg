SPECIFICATION Spec
CONSTANTS
    Users = {boss, dev}
    Bootstrap = boss
    Environment = "staging"
    Attempts = {a1, a2}
    Callbacks = {c1, c2}
    Requests = {q1, q2}
    Offered = {"admin", "developer"}
    Dispatches = {"restart_workload"}
    Unused = Unused
    LoginTTL = 1
    SessionTTL = 2
    MaxNow = 2
    MaxFaults = 1
SYMMETRY TaskSymmetry
INVARIANTS
    TypeOK
    OneCallbackPerAttempt
    RightsAreFresh
    RegisteredHasProfile
CHECK_DEADLOCK FALSE
