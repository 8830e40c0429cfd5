------------------------------- MODULE WorkerRun -------------------------------
(***************************************************************************)
(* How a run ends (app/worker/runner.py), what may interrupt it (the time  *)
(* limits of app/worker/celery_app.py), and a client that repeats its      *)
(* submission with another file meanwhile (app/pipeline/service.py).       *)
(***************************************************************************)
EXTENDS WorkflowExecutor

\* Each stage reports its final state; the total is that of the stages.
TotalTokens == run.tokens["transcriber"] + run.tokens["copy_analysis"]
                   + run.tokens["copy_adaptation"]

\* build_completed_output and mark_completed, which the row may refuse; when
\* its answer is lost the row has changed all the same.
Result == [media   |-> run.heard,
           seconds |-> run.seconds,
           adapted |-> job.pipeline = "copy_adaptation",
           tokens  |-> TotalTokens]

Settle(persisted) == run' = [run EXCEPT !.pc = "cleanup", !.persisted = persisted]

Complete ==
    /\ At("complete")
    /\ \/ /\ status = "running"
          /\ status' = "completed" /\ output' = Result
          /\ Settle(TRUE) \/ (Fault("database") /\ RaiseOutside)
       \/ /\ status # "running" \/ Fault("database")
          /\ UNCHANGED <<status, output>>
          /\ RaiseOutside
    /\ UNCHANGED <<job, inputVars, callVars, audio, repeated>>

\* Mutant: a failure that cannot be persisted is forgotten as persisted.
FailForgetting ==
    /\ At("fail")
    /\ UNCHANGED status /\ Settle(FALSE)
    /\ UNCHANGED <<job, output, inputVars, callVars, audio, repeated>>

\* _mark_failed_safely
Fail ==
    /\ At("fail")
    /\ \/ /\ status = "running"
          /\ status' = "failed"
          /\ Settle(TRUE) \/ (Fault("database") /\ Settle(FALSE))
       \/ /\ status # "running" \/ Fault("database")
          /\ UNCHANGED status
          /\ Settle(FALSE)
    /\ UNCHANGED <<job, output, inputVars, callVars, audio, repeated>>

\* Mutant: the copy is removed only when the job reached a terminal state.
CleanupPersisted ==
    /\ At("cleanup")
    /\ IF run.resolved /\ ~InPlace /\ run.persisted
       THEN DeleteWorkspace ELSE UNCHANGED <<workspace, owned>>
    /\ Goto("delete")
    /\ UNCHANGED <<jobRow, stored, callVars, audio, repeated>>

\* finally: _cleanup_safely
Cleanup ==
    /\ At("cleanup")
    /\ \/ /\ IF run.resolved /\ ~InPlace THEN DeleteWorkspace
             ELSE UNCHANGED <<workspace, owned>>
          /\ Goto("delete")
       \/ /\ Fault("disk") /\ run.resolved /\ ~InPlace
          /\ LeaveWorkspace
          /\ run' = [run EXCEPT !.pc = "delete", !.stuck = TRUE]
    /\ UNCHANGED <<jobRow, stored, callVars, audio, repeated>>

\* Mutant: the input is deleted whatever the run has persisted.
DeleteAlways ==
    /\ At("delete")
    /\ Goto("done") /\ stored' = None
    /\ UNCHANGED <<jobRow, workspace, owned, callVars, audio, repeated>>

\* _delete_job_files_safely
DeleteFiles ==
    /\ At("delete")
    /\ \/ Goto("done") /\ stored' = IF run.persisted THEN None ELSE stored
       \/ /\ Fault("storage") /\ run.persisted
          /\ run' = [run EXCEPT !.pc = "done", !.stuck = TRUE]
          /\ UNCHANGED stored
    /\ UNCHANGED <<jobRow, workspace, owned, callVars, audio, repeated>>

-----------------------------------------------------------------------------
(* Interruptions.                                                           *)

\* The soft limit: a signal whose handler raises in the worker's main thread.
Strikes == Fault("deadline") /\ ~run.late

\* While the run awaits a provider or the database the event loop is what the
\* exception leaves; asyncio.run then cancels the run, and a CancelledError is
\* no Exception: only the with and finally blocks still run.
Awaiting == {"transcribe", "context", "correct", "structure", "offer",
             "persuasion", "adapt", "complete", "fail"}

CancelRun ==
    /\ Strikes /\ run.pc \in Awaiting
    /\ run' = [run EXCEPT !.late = TRUE, !.outcome = "cancelled",
                          !.pc = IF @ \in {"complete", "fail"}
                                 THEN "cleanup" ELSE "close"]
    /\ attempt' = 0 /\ charged' = 0
    /\ UNCHANGED <<jobRow, inputVars, usage, calls, audio, repeated>>

\* Elsewhere it is raised in the run's own code, as an Exception.
InterruptRun ==
    /\ Strikes
    /\ \/ /\ run.pc \in {"resolve", "prepare"}
          /\ run' = [run EXCEPT !.late = TRUE, !.pc = "fail", !.outcome = "error"]
          /\ UNCHANGED <<workspace, owned>>
       \/ /\ run.pc = "download" /\ DeleteWorkspace
          /\ run' = [run EXCEPT !.late = TRUE, !.pc = "fail", !.outcome = "error"]
       \/ /\ run.pc \in {"convert", "transcribe", "measure", "copy_input"}
          /\ run' = [run EXCEPT !.late = TRUE, !.pc = "close", !.outcome = "error"]
          /\ UNCHANGED <<workspace, owned>>
       \/ /\ run.pc = "close"
          /\ run' = [run EXCEPT !.late = TRUE, !.pc = "fail",
                                !.outcome = "error", !.stuck = TRUE]
          /\ UNCHANGED <<workspace, owned>>
       \/ /\ run.pc \in {"cleanup", "delete"}
          /\ run' = [run EXCEPT !.late = TRUE, !.stuck = TRUE,
                                !.pc = IF @ = "cleanup" THEN "delete" ELSE "done"]
          /\ UNCHANGED <<workspace, owned>>
    /\ UNCHANGED <<jobRow, stored, callVars, audio, repeated>>

\* The hard limit, or the death of the machine.
Kill ==
    /\ Fault("kill") /\ run.pc \notin {"done", "dead"}
    /\ Goto("dead")
    /\ UNCHANGED <<jobRow, inputVars, callVars, audio, repeated>>

\* A multipart submission with the key of this job: it stores its file over
\* the input, whatever the job is doing ...
RepeatStores ==
    /\ Fault("repeat") /\ repeated = "not_sent"
    /\ repeated' = "stored"
    /\ stored' \in Media
    /\ UNCHANGED <<jobRow, workspace, owned, callVars, audio, run>>

\* ... and fails the job when mark_uploaded has refused it.
RepeatFails ==
    /\ repeated = "stored"
    /\ repeated' = "answered"
    /\ status' = IF status = "running" THEN "failed" ELSE status
    /\ UNCHANGED <<job, output, inputVars, callVars, audio, run>>

-----------------------------------------------------------------------------
RunStep ==
    \/ ResolveInput \/ DownloadInput \/ Prepare \/ Convert \/ Transcribe
    \/ Measure \/ ExtractContext \/ Correct \/ Enforce \/ PrepareCopyInput
    \/ ExtractCopyStructure \/ ExtractOfferElements \/ AnalysePersuasion \/ Adapt
    \/ CloseDirectory \/ Complete \/ Fail \/ Cleanup \/ DeleteFiles

ExecNext == RunStep \/ CancelRun \/ InterruptRun \/ Kill \/ RepeatStores \/ RepeatFails

ExecSpec == ExecInit /\ [][ExecNext]_execVars

\* The worker process goes on until its run has ended or it is killed; no
\* provider is obliged to give a valid answer, no limit to strike.
FairExecSpec == ExecSpec /\ WF_execVars(RunStep)

-----------------------------------------------------------------------------
ExecTypeOK ==
    /\ job \in Jobs
    /\ stored \in Media \cup {None}
    /\ workspace \in Directory /\ owned \in BOOLEAN
    /\ attempt \in 0..(MaxAttempts - 1)
    /\ usage \in [Roles -> Nat] /\ charged \in Nat /\ calls \in 0..CallCap
    /\ status \in {"running", "completed", "failed"}
    /\ output \in Output \cup {None}
    /\ audio \in Directory
    /\ run \in Run
    /\ repeated \in {"not_sent", "stored", "answered"}

\* A job is completed from one file: the one stored when the run resolved it,
\* whose duration was measured and kept the limit.  A repeated submission can
\* only break this for local storage, whose file FFmpeg and ffprobe read one
\* after the other in place.
OneFilePerRun ==
    status = "completed" /\ (InPlace => repeated = "not_sent") =>
        /\ output.media = run.input
        /\ output.seconds = Seconds(run.input)
        /\ job.limit # None => Seconds(run.input) \in 1..job.limit

\* A run that ended has removed what it made on disk, however it ended, unless
\* removing itself failed or was interrupted (materializer.cleanup and
\* TemporaryDirectory, on each path of errors and cancellation).
NothingLeftBehind ==
    run.pc = "done" /\ ~run.stuck =>
        /\ ~workspace.exists /\ ~audio.exists
        /\ run.persisted => stored = None \/ repeated # "not_sent"

\* A run leaves its job running only when it is killed, when the database
\* refuses, or when the soft limit strikes.
OpenJobIsExcused ==
    run.pc = "done" /\ status = "running" => run.late \/ Fault("database")

\* The tokens of the result are those of the calls of this run, each counted
\* once and in one stage (AIActionBase.tokens_usage, the reducers of the graph
\* states, _build_token_usage).
UsageIsExact ==
    output # None =>
        output.tokens = run.paid["transcriber"] + run.paid["copy_analysis"]
                           + run.paid["copy_adaptation"]

\* A run ends: every retry is bounded.
RunEnds == <>(run.pc \in {"done", "dead"})

-----------------------------------------------------------------------------
\* What a run that reaches its end persists (runner.py: "persists the final
\* state").
FinalStatePersisted ==
    run.pc = "done" /\ ~Fault("database") => status # "running"
=============================================================================
