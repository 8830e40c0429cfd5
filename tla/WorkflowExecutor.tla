---------------------------- MODULE WorkflowExecutor ----------------------------
(***************************************************************************)
(* One run of a claimed job: WorkerRunner.run from resolve to the finally  *)
(* branch (app/worker/runner.py), KyrgWorkflowExecutor.execute             *)
(* (workflows.py) and the transcription and analysis graphs it starts      *)
(* (kyrg/workflows), one action per node; the adaptation graph is one step *)
(* here and CopyAdaptation in detail.                                      *)
(***************************************************************************)
EXTENDS InputMaterializer, StructuredCall

CONSTANTS
    Seconds(_),       \* the duration ffprobe reports for a content
    AdaptationTokens  \* what an adaptation may add to its state

ASSUME SecondsAssumption == \A m \in Media : Seconds(m) \in Nat
ASSUME AdaptationAssumption == AdaptationTokens \subseteq Nat
ASSUME StagesAssumption == Roles = {"support", "analysis"}

VARIABLES
    status,   \* of the job row: running, completed or failed
    output,   \* output_json of the job row
    audio,    \* the executor's temporary directory with the MP3
    run,      \* the run
    repeated  \* a request that repeats the job's idempotency key

execVars == <<job, inputVars, callVars, status, output, audio, run, repeated>>

\* build_transcriptor_config refuses any other.
Providers == {"whisper_local", "openai", "openrouter"}
FaultKinds == {"storage", "disk", "provider", "answer", "database", "kill",
               "deadline", "repeat"}

ASSUME JobsAssumption ==
    Jobs \subseteq [backend     : {"local", "remote"},
                    pipeline    : {"copy_analysis", "copy_adaptation"},
                    correction  : BOOLEAN,
                    limit       : Nat \cup {None},   \* max_duration_seconds
                    transcriber : Providers,
                    faults      : SUBSET FaultKinds]

Pcs == {"resolve", "download", "prepare", "convert", "transcribe", "measure",
        "context", "correct", "enforce", "copy_input", "structure", "offer",
        "persuasion", "adapt", "close", "complete", "fail", "cleanup", "delete",
        "done", "dead"}

Stages == {"transcriber", "copy_analysis", "copy_adaptation"}

Run == [pc        : Pcs,
        outcome   : {"none", "ok", "error", "cancelled"},
        resolved  : BOOLEAN,               \* resolved_file is set
        posts     : 0..3,                 \* requests to the transcriber
        blank     : BOOLEAN,               \* the transcript has no text
        heard     : Media \cup {None},     \* what was transcribed
        seconds   : Nat,                   \* audio_duration_in_seconds
        tokens    : [Stages -> Nat],       \* of each workflow's final state
        persisted : BOOLEAN,               \* terminal_state_persisted
        late      : BOOLEAN,               \* history: the soft limit has struck
        input     : Media \cup {None},     \* history: stored at resolve
        paid      : [Stages -> Nat],       \* history: charged by parsed answers
        stuck     : BOOLEAN]               \* history: a removal has failed

Output == [media : Media, seconds : Nat, adapted : BOOLEAN, tokens : Nat]

ASSUME OutputAssumption == None \notin Output

NewRun == [pc |-> "resolve", outcome |-> "none", resolved |-> FALSE, posts |-> 0,
           blank |-> FALSE, heard |-> None, seconds |-> 0,
           tokens |-> [s \in Stages |-> 0], persisted |-> FALSE, late |-> FALSE,
           input |-> None, paid |-> [s \in Stages |-> 0], stuck |-> FALSE]

ExecInit ==
    /\ InputInit /\ CallInit
    /\ status = "running"
    /\ output = None
    /\ audio = NoDirectory
    /\ run = NewRun
    /\ repeated = "not_sent"

-----------------------------------------------------------------------------
At(pc) == run.pc = pc
Goto(pc) == run' = [run EXCEPT !.pc = pc]

jobRow == <<job, status, output>>

\* An exception inside the temporary directory, and one outside of it.
Raise == run' = [run EXCEPT !.pc = "close", !.outcome = "error"]
RaiseOutside == run' = [run EXCEPT !.pc = "fail", !.outcome = "error"]

-----------------------------------------------------------------------------
(* StorageFileMaterializer.resolve.                                         *)

ResolveInput ==
    /\ At("resolve")
    /\ \/ /\ run' = [run EXCEPT !.pc = IF InPlace THEN "prepare" ELSE "download",
                                !.resolved = InPlace, !.input = stored]
          /\ IF InPlace THEN UNCHANGED <<workspace, owned>> ELSE CreateWorkspace
       \/ /\ Fault("storage") \/ (Fault("disk") /\ ~InPlace)
          /\ RaiseOutside
          /\ UNCHANGED <<workspace, owned>>
    /\ UNCHANGED <<jobRow, stored, callVars, audio, repeated>>

\* _download_remote_file; a download that fails removes its workspace.
DownloadInput ==
    /\ At("download")
    /\ \/ Download /\ run' = [run EXCEPT !.pc = "prepare", !.resolved = TRUE,
                                         !.input = stored]
       \/ Fault("storage") /\ RaiseOutside /\ DeleteWorkspace
       \/ /\ Fault("storage") /\ Fault("disk")
          /\ run' = [run EXCEPT !.pc = "fail", !.outcome = "error", !.stuck = TRUE]
          /\ LeaveWorkspace
    /\ UNCHANGED <<jobRow, stored, callVars, audio, repeated>>

-----------------------------------------------------------------------------
(* KyrgWorkflowExecutor.execute: the temporary directory, and the graph of  *)
(* TranscriberWorkflow.                                                     *)

Prepare ==
    /\ At("prepare")
    /\ \/ Goto("convert") /\ audio' = EmptyDirectory
       \/ Fault("disk") /\ RaiseOutside /\ UNCHANGED audio
    /\ UNCHANGED <<jobRow, inputVars, callVars, repeated>>

\* extract_audio (video) or prepare_audio (audio)
Convert ==
    /\ At("convert")
    /\ \/ Goto("transcribe") /\ audio' = [audio EXCEPT !.file = SourceFile]
       \/ Fault("provider") /\ Raise /\ UNCHANGED audio
    /\ UNCHANGED <<jobRow, inputVars, callVars, repeated>>

\* The transcript of an adapter; its text may be blank.
Hear == \E blank \in BOOLEAN :
            run' = [run EXCEPT !.pc = "measure", !.blank = blank, !.posts = 0,
                               !.heard = audio.file]

\* A status of 429 or 5xx or a transport error is retried after 2, 5 and 10
\* seconds; any other status, and the fourth failure, is a RuntimeError.
PostsAllowed == 4

\* Mutant: the delays begin again after the last one.
OpenRouterForever ==
    \/ Hear
    \/ Fault("provider") /\ run' = [run EXCEPT !.posts = (@ + 1) % PostsAllowed]
    \/ Fault("provider") /\ Raise

OpenRouterRequest ==
    \/ Hear
    \/ /\ Fault("provider") /\ run.posts + 1 < PostsAllowed
       /\ run' = [run EXCEPT !.posts = @ + 1]
    \/ Fault("provider") /\ Raise

\* One request, whose errors leave the adapter as they are.
OpenAIRequest == Hear \/ (Fault("provider") /\ Raise)

\* No request: the model runs in a thread of the worker, and one that is not
\* on disk is fetched first.
WhisperRun == Hear \/ (Fault("provider") /\ Raise)

Transcribe ==
    /\ At("transcribe")
    /\ CASE job.transcriber = "openrouter"    -> OpenRouterRequest
         [] job.transcriber = "openai"        -> OpenAIRequest
         [] job.transcriber = "whisper_local" -> WhisperRun
    /\ UNCHANGED <<jobRow, inputVars, callVars, audio, repeated>>

\* measure_audio asks ffprobe about the source file, not the MP3;
\* secondary_router
Measure ==
    /\ At("measure")
    /\ \/ LET seconds == Seconds(SourceFile)
          IN  run' = [run EXCEPT !.seconds = seconds,
                         !.pc = IF seconds <= 180 /\ job.correction
                                THEN "context" ELSE "enforce"]
       \/ Fault("provider") /\ Raise
    /\ UNCHANGED <<jobRow, inputVars, callVars, audio, repeated>>

\* Both nodes of the transcriber share one adapter, those of the analysis
\* another; each is built for the run.
RoleOf(stage) == IF stage = "transcriber" THEN "support" ELSE "analysis"

\* A node adds what its adapter says of the latest call to the graph's state.
Counted(stage) == run.tokens[stage] + usage'[RoleOf(stage)]

\* The answer of a node of the stage parses: on to the next node.
Answered(stage, next, blank) ==
    \E tokens \in Charges :
        /\ ValidAnswer(RoleOf(stage), tokens)
        /\ run' = [run EXCEPT !.pc = next, !.blank = blank,
                              !.tokens[stage] = Counted(stage),
                              !.paid[stage] = @ + tokens]

\* A node that asks for a structured answer.
Ask(stage, next) ==
    \/ Answered(stage, next, run.blank)
    \/ Fault("answer") /\ AskAgain(RoleOf(stage)) /\ UNCHANGED run
    \/ Fault("answer") /\ GiveUp(RoleOf(stage)) /\ Raise
    \/ Fault("provider") /\ ProviderError /\ Raise

ExtractContext ==
    /\ At("context")
    /\ Ask("transcriber", "correct")
    /\ UNCHANGED <<jobRow, inputVars, audio, repeated>>

\* The corrected text may be blank where the transcript was not, or the reverse.
Correct ==
    /\ At("correct")
    /\ Ask("transcriber", "enforce") \/ Answered("transcriber", "enforce", ~run.blank)
    /\ UNCHANGED <<jobRow, inputVars, audio, repeated>>

\* Mutant: an unknown duration is not too long.
EnforceKnown ==
    /\ At("enforce")
    /\ IF job.limit # None /\ run.seconds > job.limit THEN Raise ELSE Goto("copy_input")
    /\ UNCHANGED <<jobRow, inputVars, callVars, audio, repeated>>

\* _enforce_max_duration; a duration of zero is no duration.
Enforce ==
    /\ At("enforce")
    /\ IF job.limit # None /\ (run.seconds = 0 \/ run.seconds > job.limit)
       THEN Raise ELSE Goto("copy_input")
    /\ UNCHANGED <<jobRow, inputVars, callVars, audio, repeated>>

-----------------------------------------------------------------------------
(* CopyAnalysisWorkflow and CopyAdaptationWorkflow.                         *)

PrepareCopyInput ==
    /\ At("copy_input")
    /\ IF run.blank THEN Raise ELSE Goto("structure")
    /\ UNCHANGED <<jobRow, inputVars, callVars, audio, repeated>>

ExtractCopyStructure ==
    /\ At("structure")
    /\ Ask("copy_analysis", "offer")
    /\ UNCHANGED <<jobRow, inputVars, audio, repeated>>

ExtractOfferElements ==
    /\ At("offer")
    /\ Ask("copy_analysis", "persuasion")
    /\ UNCHANGED <<jobRow, inputVars, audio, repeated>>

\* The last node builds the analysis from those of the other three.
AnalysePersuasion ==
    /\ At("persuasion")
    /\ Ask("copy_analysis", "adapt")
    /\ UNCHANGED <<jobRow, inputVars, audio, repeated>>

Adapt ==
    /\ At("adapt")
    /\ \/ /\ job.pipeline = "copy_analysis"
          /\ run' = [run EXCEPT !.pc = "close", !.outcome = "ok"]
       \/ /\ job.pipeline = "copy_adaptation"
          /\ \E tokens \in AdaptationTokens :
                run' = [run EXCEPT !.pc = "close", !.outcome = "ok",
                                   !.tokens["copy_adaptation"] = tokens,
                                   !.paid["copy_adaptation"] = tokens]
       \/ job.pipeline = "copy_adaptation" /\ Fault("provider") /\ Raise
    /\ UNCHANGED <<jobRow, inputVars, callVars, audio, repeated>>

AfterClose(outcome) == CASE outcome = "ok" -> "complete"
                         [] outcome = "error" -> "fail"
                         [] OTHER -> "cleanup"

\* TemporaryDirectory.__exit__; when it raises, its error is what goes on.
CloseDirectory ==
    /\ At("close")
    /\ \/ Goto(AfterClose(run.outcome)) /\ audio' = NoDirectory
       \/ /\ Fault("disk")
          /\ run' = [run EXCEPT !.pc = "fail", !.outcome = "error", !.stuck = TRUE]
          /\ UNCHANGED audio
    /\ UNCHANGED <<jobRow, inputVars, callVars, repeated>>
=============================================================================
