\* One run whose soft time limit strikes once; nothing else goes wrong.
CONSTANTS
    short = short
    long = long
    silent = silent
    Media = {short}
    Jobs <- LateJobs
    None = None
    Seconds <- SecondsOf
    AdaptationTokens = {0}
    Roles = {"support", "analysis"}
    LLM = "openai"
    MaxAttempts = 1
    Charges = {1}
    UsageReported = TRUE
    CallCap = 0
SPECIFICATION ExecSpec
CHECK_DEADLOCK FALSE
INVARIANTS FinalStatePersisted
