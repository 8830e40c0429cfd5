\* Every answer of up to two sections over two positions, calls that fail or
\* repeat, one correction of each kind, two starts on a durable checkpointer.
CONSTANTS
    Roles = {"strategy", "writing", "review", "validation"}
    LLM = "gemini"
    None = None
    MaxAttempts = 2
    Charges = {0}
    UsageReported = TRUE
    CallCap = 60
    Orders = {1, 2}
    MaxSections = 2
    MaxRetry = 1
    Checkpointer = "durable"
    MaxStarts = 2
SPECIFICATION Spec
CHECK_DEADLOCK FALSE
INVARIANTS RejectedOnlyWhenSpent CallsBounded OneDraft VerdictIsAboutScript MergedAsReviewed
PROPERTIES NothingRedone EachRunEnds
