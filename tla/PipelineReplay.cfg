\* A submission repeated with the same idempotency key, nothing else goes wrong.
CONSTANTS
    JobIds = {j1}
    Users = {u1}
    RunIds = {k1}
    Contents = {c1}
    None = None
    Reqs = {r1, r2}
    Workers = {w1}
    Ops = {"submit"}
    Faults = {}
SPECIFICATION Spec
CHECK_DEADLOCK FALSE
PROPERTIES ReplayLeavesJobAlone
