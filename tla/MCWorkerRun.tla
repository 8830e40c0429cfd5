------------------------------ MODULE MCWorkerRun ------------------------------
EXTENDS RunToRunner

CONSTANTS short, long, silent  \* media of 180, 181 and 0 seconds

SecondsOf(m) == CASE m = short -> 180 [] m = long -> 181 [] OTHER -> 0

Job(backend, pipeline, correction, limit, transcriber, faults) ==
    [backend |-> backend, pipeline |-> pipeline, correction |-> correction,
     limit |-> limit, transcriber |-> transcriber, faults |-> faults]

\* Each kind of job with the faults of its surroundings, with what may
\* interrupt it, and with a client that repeats its submission.
RunJobs ==
    { Job(b, "copy_adaptation", TRUE, 180, "openrouter", f) :
        b \in {"local", "remote"},
        f \in {{"storage", "disk", "provider", "answer"},
               {"deadline", "disk", "storage"}, {"kill", "database", "repeat"}} }
    \cup
    { Job(b, "copy_analysis", c, None, t, f) :
        t \in {"whisper_local", "openai"}, b \in {"local", "remote"}, c \in BOOLEAN,
        f \in {{}, {"repeat", "deadline"}, {"provider", "database"}} }

LateJobs == { Job("remote", "copy_adaptation", TRUE, 180, "openrouter", {"deadline"}) }
=============================================================================
