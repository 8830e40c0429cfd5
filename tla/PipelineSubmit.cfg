\* Two requests of one or two users, multipart or direct, that may share an
\* idempotency key, two jobs, two workers, and every failure they can meet.
CONSTANTS
    JobIds = {j1, j2}
    Users = {u1, u2}
    RunIds = {k1}
    Contents = {c1}
    None = None
    Reqs = {r1, r2}
    Workers = {w1, w2}
    Ops = {"submit", "prepare"}
    Faults = {"db", "commit", "queue", "publish", "storage", "delete", "workflow", "redeliver", "api", "worker", "late_put"}
SYMMETRY Symmetry
SPECIFICATION Spec
CHECK_DEADLOCK FALSE
INVARIANTS TypeOK SingleExecution QueuedAfterCommit InputAvailable KeysIsolate
PROPERTIES TerminalIsFinal ImplementsLifecycle
