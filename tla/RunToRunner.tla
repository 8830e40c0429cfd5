------------------------------ MODULE RunToRunner ------------------------------
(***************************************************************************)
(* The two views of app/worker/runner.py: each run of WorkerRun, seen from *)
(* the row, the storage and the worker's place, is a run of WorkerRunner   *)
(* after its claim.  One job and one worker stand for those of a pipeline. *)
(***************************************************************************)
EXTENDS WorkerRun

theJob == "job"
theWorker == "worker"

\* The failures WorkerRunner knows and what causes them here.  The workflows
\* may fail without one of these: they refuse some inputs.
Causes == [db      |-> {"database"},
           commit  |-> {"database"},
           storage |-> {"storage", "disk", "deadline"},
           delete  |-> {"storage", "deadline"},
           worker  |-> {"kill", "deadline"}]

RunnerFaults ==
    {"workflow"} \cup
    {f \in DOMAIN Causes : \E j \in Jobs : j.faults \cap Causes[f] # {}}

\* The temporary directory and the graphs are one call.  A run that was
\* cancelled and has left it does nothing more for its job than a dead one.
RunnerPc ==
    CASE run.pc \in {"resolve", "download"} -> "resolve"
      [] run.pc \in {"complete", "fail"}    -> run.pc
      [] run.pc \in {"cleanup", "delete"}   ->
             IF run.outcome = "cancelled" THEN "idle" ELSE "finish"
      [] run.pc \in {"done", "dead"}        -> "idle"
      [] OTHER                              -> "execute"

RunnerState ==
    IF RunnerPc = "idle"
    THEN [pc |-> "idle", job |-> None, copy |-> None, persisted |-> FALSE]
    ELSE [pc |-> RunnerPc, job |-> theJob,
          copy |-> IF run.resolved THEN run.input ELSE None,
          persisted |-> run.persisted]

\* A worker reads neither the owner nor the key of its job.
RunnerRow == [status |-> status, owner |-> None, run |-> None, input |-> None,
              direct |-> FALSE,
              output |-> IF output = None THEN None ELSE output.media]

Starts == IF run.resolved THEN 1 ELSE 0

Runner == INSTANCE WorkerRunner WITH
    JobIds     <- {theJob},
    Workers    <- {theWorker},
    Users      <- {},
    RunIds     <- {},
    Reqs       <- {},
    Contents   <- Media,
    Faults     <- RunnerFaults,
    jobs       <- [j \in {theJob} |-> RunnerRow],
    objects    <- [j \in {theJob} |-> stored],
    urls       <- {},
    queue      <- {},
    published  <- [j \in {theJob} |-> {}],
    workers    <- [w \in {theWorker} |-> RunnerState],
    executions <- [j \in {theJob} |-> Starts]

runnerVars == <<RunnerRow, stored, RunnerState, Starts>>

\* What mark_running leaves to the run.
JustClaimed ==
    /\ RunnerRow.status = "running" /\ stored \in Media /\ Starts = 0
    /\ RunnerState = [pc |-> "resolve", job |-> theJob, copy |-> None,
                      persisted |-> FALSE]

\* SaveInput and MarkFailedSafely of PipelineService, on what requests and
\* workers share.
OtherRequest ==
    /\ UNCHANGED <<RunnerState, Starts>>
    /\ \/ Runner!MarkFailed(theJob) /\ UNCHANGED stored
       \/ \E c \in Media : Runner!SaveObject(theJob, c) /\ UNCHANGED RunnerRow

\* Completed with the result of a local file that the repeated submission
\* wrote over while the tools read it in place: the one step WorkerRunner,
\* whose workers copy their input, does not have.  It differs from Complete
\* in the content alone.
CompletedOverwritten ==
    /\ InPlace /\ repeated # "not_sent"
    /\ Runner!WorkerAt(theWorker, "complete")
    /\ \E c \in Media : Runner!MarkCompleted(theJob, c)
    /\ \/ Runner!Persisted(theWorker, TRUE)
       \/ Runner!Fault("commit") /\ Runner!WorkerGoto(theWorker, "fail")
    /\ UNCHANGED <<stored, Starts>>

\* Whatever happens in a run, however its graphs proceed, fail, are retried
\* or interrupted, its job sees only what JobPipeline composes with requests
\* and other workers: the calls of WorkerRunner in their order, its failures,
\* one start of the workflows, and files deleted after a persisted state only.
ImplementsRunner ==
    /\ JustClaimed
    /\ [][Runner!WorkerStep \/ OtherRequest \/ CompletedOverwritten]_runnerVars
=============================================================================
