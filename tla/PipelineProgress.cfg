\* No process dies, the database answers and deleting works: what is accepted
\* finishes and is cleaned up, what is refused is settled, also when requests
\* repeat a key.
CONSTANTS
    JobIds = {j1}
    Users = {u1}
    RunIds = {k1}
    Contents = {c1}
    None = None
    Reqs = {r1, r2, r3}
    Workers = {w1}
    Ops = {"submit", "prepare", "confirm"}
    Faults = {"queue", "publish", "storage", "workflow"}
SPECIFICATION FairSpec
CHECK_DEADLOCK FALSE
INVARIANTS FailedSubmissionSettled
PROPERTIES AcceptedJobFinishes CleanedUnlessRequestFailed
