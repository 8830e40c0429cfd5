\* One run of each kind of job, see RunJobs; at most two answers to a question.
CONSTANTS
    short = short
    long = long
    silent = silent
    Media = {short, long, silent}
    Jobs <- RunJobs
    None = None
    Seconds <- SecondsOf
    AdaptationTokens = {0, 2}
    Roles = {"support", "analysis"}
    LLM = "openai"
    MaxAttempts = 2
    Charges = {1, 2}
    UsageReported = TRUE
    CallCap = 0
SPECIFICATION FairExecSpec
CHECK_DEADLOCK FALSE
INVARIANTS OneFilePerRun NothingLeftBehind OpenJobIsExcused UsageIsExact
PROPERTIES ImplementsRunner RunEnds
