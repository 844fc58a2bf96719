SPECIFICATION Spec
CONSTANTS
    Users = {boss, dev}
    Bootstrap = boss
    Environment = "development"
    Attempts = {a1, a2}
    Callbacks = {c1, c2}
    Requests = {q1, q2}
    Offered = {"admin", "developer"}
    Dispatches = {"restart_workload", "reveal_secret_key"}
    Unused = Unused
    LoginTTL = 1
    SessionTTL = 2
    MaxNow = 2
    MaxFaults = 1
INVARIANTS
    ActionsRecorded
CHECK_DEADLOCK FALSE
