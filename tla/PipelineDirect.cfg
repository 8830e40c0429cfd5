\* One job uploaded through a signed URL that is used once: requests of two users
\* present one key for one of two files, prepare, upload and confirm.
CONSTANTS
    JobIds = {j1}
    Users = {u1, u2}
    RunIds = {k1}
    Contents = {c1, c2}
    None = None
    Reqs = {r1, r2, r3}
    Workers = {w1}
    Ops = {"prepare", "confirm"}
    Faults = {"db", "commit", "queue", "publish", "storage", "api"}
SYMMETRY Symmetry
SPECIFICATION Spec
CHECK_DEADLOCK FALSE
INVARIANTS PublishedOnce OutputMatchesInput
