---------------------------- MODULE WorkerRunProofs ----------------------------
(***************************************************************************)
(* One run of the worker, for any media, any kinds of job and faults, and  *)
(* any bound on attempts.  The run's place decides what exists on disk,    *)
(* what is known of the input, and whether the row may still be open.      *)
(***************************************************************************)
EXTENDS RunToRunner, TLAPS

-----------------------------------------------------------------------------
(* The inductive invariant.                                                 *)

\* The steps of execute that know the transcript, the duration, and that the
\* duration keeps the limit.
Checked == {"copy_input", "structure", "offer", "persuasion", "adapt"}
Measured == Checked \cup {"context", "correct", "enforce"}
Heard == Measured \cup {"measure"}
InDirectory == Heard \cup {"convert", "transcribe", "close"}
Executing == InDirectory \cup {"prepare"}
Ending == {"cleanup", "delete", "done"}

\* The run goes on to its result.
Knows(pcs) ==
    \/ run.pc \in pcs \cup {"complete"}
    \/ run.pc = "close" /\ run.outcome = "ok"

\* What holds of the outcome and the input file at each place.
CourseInv ==
    /\ run.pc = "close" => run.outcome # "none"
    /\ run.outcome = "cancelled" => run.late
    /\ run.pc \in Executing \cup {"complete"} => run.resolved
    /\ run.pc \in {"resolve", "download"} => ~run.resolved
    /\ run.pc = "download" => ~InPlace

\* What exists on disk, as long as no removal has failed.
DiskInv ==
    ~run.stuck =>
        /\ audio.exists => run.pc \in InDirectory \cup {"dead"}
        /\ workspace.exists =>
               \/ run.pc \in {"download", "dead"}
               \/ run.resolved /\ ~InPlace /\ run.pc \notin {"delete", "done"}

\* The input goes last.
StoredInv ==
    /\ stored = None => run.pc = "done"
    /\ run.pc = "done" /\ ~run.stuck /\ run.persisted
           => stored = None \/ repeated # "not_sent"

\* The file that was resolved is the one that every later step reads.
Quiet == InPlace => repeated = "not_sent"

SourceInv ==
    /\ run.pc \in Executing =>
           /\ run.input \in Media /\ SourceFile \in Media
           /\ Quiet => SourceFile = run.input
    /\ run.pc = "transcribe" =>
           audio.file \in Media /\ (Quiet => audio.file = run.input)
    /\ Knows(Heard) => run.heard \in Media /\ (Quiet => run.heard = run.input)
    /\ Knows(Measured) /\ Quiet => run.seconds = Seconds(run.input)
    /\ Knows(Checked) /\ job.limit # None => run.seconds \in 1..job.limit

\* The row and where the run stands.
RowInv ==
    /\ output = None <=> status # "completed"
    /\ status = "completed" => run.pc \in {"fail", "dead"} \cup Ending
    /\ status = "running" /\ run.pc \in Ending => run.late \/ Fault("database")

\* Where adapters report every usage, the stages count what was charged.
Spending == run.paid["transcriber"] + run.paid["copy_analysis"]
                + run.paid["copy_adaptation"]

UsageInv ==
    UsageReported =>
        /\ run.tokens = run.paid
        /\ output # None => output.tokens = Spending

WorkerInv ==
    /\ ExecTypeOK /\ CourseInv /\ DiskInv /\ StoredInv /\ SourceInv /\ RowInv
    /\ UsageInv /\ OneFilePerRun

USE DEF At, Goto, Raise, RaiseOutside, jobRow, inputVars, callVars, execVars,
        Checked, Measured, Heard, InDirectory, Executing, Ending, InPlace

-----------------------------------------------------------------------------
\* What the graphs leave alone.
Keeps ==
    /\ run' \in Run
    /\ run'.resolved = run.resolved /\ run'.input = run.input
    /\ run'.persisted = run.persisted
    /\ run'.late = run.late /\ run'.stuck = run.stuck
    /\ UNCHANGED <<jobRow, inputVars, repeated>>

\* What the stages report stays what was charged, where it is reported.
Counts == UsageReported /\ run.tokens = run.paid => run'.tokens = run'.paid

CallTypes ==
    /\ attempt \in 0..(MaxAttempts - 1)
    /\ usage \in [Roles -> Nat] /\ charged \in Nat /\ calls \in 0..CallCap

\* A node or a tool raises.
Broken ==
    /\ Keeps /\ Counts /\ CallTypes'
    /\ run.pc \in InDirectory \ {"close"}
    /\ run'.pc = "close" /\ run'.outcome = "error"
    /\ UNCHANGED audio

\* What is known of the input grows with the place the graphs have reached.
Learns ==
    /\ run'.pc = "transcribe" =>
           \/ run.pc = "convert" /\ audio' = [audio EXCEPT !.file = SourceFile]
           \/ run.pc = "transcribe" /\ UNCHANGED audio
    /\ run'.pc # "transcribe" => UNCHANGED audio
    /\ run'.pc \in Heard \cup {"close"} =>
           \/ run.pc = "transcribe" /\ run'.heard = audio.file
           \/ run.pc \in Heard /\ run'.heard = run.heard
    /\ run'.pc \in Measured \cup {"close"} =>
           \/ run.pc = "measure" /\ run'.seconds = Seconds(SourceFile)
           \/ run.pc \in Measured /\ run'.seconds = run.seconds
    /\ run'.pc \in Checked \cup {"close"} =>
           \/ /\ run.pc = "enforce"
              /\ job.limit # None => run.seconds # 0 /\ run.seconds <= job.limit
           \/ run.pc \in Checked

Onward ==
    /\ Keeps /\ Counts /\ CallTypes'
    /\ run.pc \in InDirectory \ {"close"}
    /\ run'.pc \in InDirectory \ {"convert"}
    /\ run'.outcome = IF run'.pc = "close" THEN "ok" ELSE run.outcome
    /\ Learns

\* A question is asked again.
Waits == Keeps /\ CallTypes' /\ UNCHANGED <<run, audio>>

-----------------------------------------------------------------------------
(* Each node takes such a step.                                             *)

LEMMA TypeFacts ==
    ASSUME WorkerInv
    PROVE  /\ job \in Jobs /\ job.limit \in Nat \cup {None}
           /\ run \in Run /\ audio \in Directory /\ workspace \in Directory
           /\ CallTypes
  BY JobsAssumption DEF WorkerInv, ExecTypeOK, CallTypes

LEMMA PostsTyped ==
    ASSUME run \in Run, NEW n \in 0..3
    PROVE  [run EXCEPT !.posts = n] \in Run
  BY DEF Run

LEMMA HeardTyped ==
    ASSUME run \in Run, NEW pc \in Pcs, NEW blank \in BOOLEAN, NEW n \in 0..3,
           NEW m \in Media
    PROVE  [run EXCEPT !.pc = pc, !.blank = blank, !.posts = n, !.heard = m] \in Run
  BY DEF Run

LEMMA RaiseBreaks ==
    ASSUME WorkerInv, Raise, CallTypes', run.pc \in InDirectory \ {"close"},
           UNCHANGED <<jobRow, inputVars, repeated, audio>>
    PROVE  Broken
  <1>1. run \in Run
    BY TypeFacts
  <1>2. run' \in Run
    BY <1>1 DEF Run, Pcs
  <1> QED BY <1>1, <1>2 DEF Broken, Keeps, Counts, Run

LEMMA ConvertGoes == ASSUME WorkerInv, Convert PROVE Broken \/ Onward
  <1>1. CASE Goto("transcribe") /\ audio' = [audio EXCEPT !.file = SourceFile]
    <2>1. run' \in Run
      BY <1>1, TypeFacts DEF Run, Pcs
    <2>2. CallTypes'
      BY TypeFacts DEF Convert, CallTypes
    <2> QED BY <1>1, <2>1, <2>2, TypeFacts
               DEF Convert, Onward, Keeps, Counts, Learns, Run
  <1>2. CASE Raise /\ UNCHANGED audio
    <2>1. CallTypes'
      BY TypeFacts DEF Convert, CallTypes
    <2> QED BY <1>2, <2>1, RaiseBreaks DEF Convert
  <1> QED BY <1>1, <1>2 DEF Convert

LEMMA TranscribeGoes == ASSUME WorkerInv, Transcribe PROVE Broken \/ Onward
  <1>1. CallTypes'
    BY TypeFacts DEF Transcribe, CallTypes
  <1>2. CASE Hear
    <2>1. PICK blank \in BOOLEAN :
              run' = [run EXCEPT !.pc = "measure", !.blank = blank, !.posts = 0,
                                 !.heard = audio.file]
      BY <1>2 DEF Hear
    <2>2. audio.file \in Media
      BY DEF Transcribe, WorkerInv, SourceInv
    <2>3. "measure" \in Pcs /\ 0 \in 0..3
      BY DEF Pcs
    <2>4. run' \in Run
      BY <2>1, <2>2, <2>3, TypeFacts, HeardTyped
    <2> QED BY <1>1, <2>1, <2>4, TypeFacts
               DEF Transcribe, Onward, Keeps, Counts, Learns, Run
  <1>3. CASE Raise
    BY <1>1, <1>3, RaiseBreaks DEF Transcribe
  <1>4. CASE run.posts + 1 < PostsAllowed /\ run' = [run EXCEPT !.posts = @ + 1]
    <2>1. run.posts + 1 \in 0..3
      BY <1>4, TypeFacts DEF Run, PostsAllowed
    <2>2. [run EXCEPT !.posts = run.posts + 1] \in Run
      BY <2>1, TypeFacts, PostsTyped
    <2>3. run' \in Run
      BY <1>4, <2>2
    <2> QED BY <1>1, <1>4, <2>3, TypeFacts
               DEF Transcribe, Onward, Keeps, Counts, Learns, Run
  <1> QED
    <2>1. job.transcriber \in Providers
      BY TypeFacts, JobsAssumption
    <2> QED BY <2>1, <1>2, <1>3, <1>4
               DEF Transcribe, Providers, OpenRouterRequest, OpenAIRequest, WhisperRun

LEMMA MeasureGoes == ASSUME WorkerInv, Measure PROVE Broken \/ Onward
  <1>1. CallTypes'
    BY TypeFacts DEF Measure, CallTypes
  <1>2. CASE run' = [run EXCEPT !.seconds = Seconds(SourceFile),
                        !.pc = IF Seconds(SourceFile) <= 180 /\ job.correction
                               THEN "context" ELSE "enforce"]
    <2>1. SourceFile \in Media
      BY DEF Measure, WorkerInv, SourceInv
    <2>2. Seconds(SourceFile) \in Nat
      BY <2>1, SecondsAssumption
    <2>3. PICK pc \in {"context", "enforce"} :
              run' = [run EXCEPT !.seconds = Seconds(SourceFile), !.pc = pc]
      BY <1>2
    <2>4. run' \in Run
      BY <2>2, <2>3, TypeFacts DEF Run, Pcs
    <2> QED BY <1>1, <2>3, <2>4, TypeFacts
               DEF Measure, Onward, Keeps, Counts, Learns, Run
  <1>3. CASE Raise
    BY <1>1, <1>3, RaiseBreaks DEF Measure
  <1> QED BY <1>2, <1>3 DEF Measure

LEMMA RoutesGo ==
    ASSUME WorkerInv, Enforce \/ PrepareCopyInput
    PROVE  Broken \/ Onward
  <1>1. CallTypes'
    BY TypeFacts DEF Enforce, PrepareCopyInput, CallTypes
  <1>2. CASE Raise
    BY <1>1, <1>2, RaiseBreaks DEF Enforce, PrepareCopyInput
  <1>3. CASE Enforce /\ Goto("copy_input")
    <2>1. job.limit # None => run.seconds # 0 /\ run.seconds <= job.limit
      <3>1. CASE Raise
        BY <1>3, <3>1, TypeFacts DEF Run
      <3>2. CASE ~Raise
        BY <1>3, <3>2, TypeFacts DEF Enforce, Run
      <3> QED BY <3>1, <3>2
    <2>2. run' \in Run
      BY <1>3, TypeFacts DEF Run, Pcs
    <2> QED BY <1>1, <1>3, <2>1, <2>2, TypeFacts
               DEF Enforce, Onward, Keeps, Counts, Learns, Run
  <1>4. CASE PrepareCopyInput /\ Goto("structure")
    <2>1. run' \in Run
      BY <1>4, TypeFacts DEF Run, Pcs
    <2> QED BY <1>1, <1>4, <2>1, TypeFacts
               DEF PrepareCopyInput, Onward, Keeps, Counts, Learns, Run
  <1> QED BY <1>2, <1>3, <1>4 DEF Enforce, PrepareCopyInput

\* The calls of StructuredCall keep their variables in order, and a valid
\* answer is metered.
LEMMA CallsTyped ==
    ASSUME WorkerInv, NEW r \in Roles,
           \/ \E n \in Charges : ValidAnswer(r, n)
           \/ AskAgain(r) \/ GiveUp(r) \/ ProviderError
    PROVE  CallTypes'
  <1>1. CallTypes /\ MaxAttempts \in Nat \ {0} /\ CallCap \in Nat
    BY TypeFacts, AttemptsAssumption, CallAssumption
  <1>2. calls' \in 0..CallCap
    BY <1>1
       DEF CallTypes, ValidAnswer, AskAgain, GiveUp, InvalidAnswer, ProviderError,
           Request
  <1>3. usage' \in [Roles -> Nat]
    BY <1>1, ChargesAssumption
       DEF CallTypes, ValidAnswer, AskAgain, GiveUp, InvalidAnswer, ProviderError,
           Note, AddToken
  <1>4. attempt' \in 0..(MaxAttempts - 1) /\ charged' \in Nat
    BY <1>1, ChargesAssumption
       DEF CallTypes, ValidAnswer, AskAgain, GiveUp, ProviderError
  <1> QED BY <1>2, <1>3, <1>4 DEF CallTypes

LEMMA ValidIsMetered ==
    ASSUME WorkerInv, NEW r \in Roles, NEW n \in Charges, ValidAnswer(r, n),
           UsageReported
    PROVE  usage'[r] = n
  <1>1. \A reply \in Replies : Reads(reply).valid => Reads(reply).metered
    BY LLMAssumption
       DEF Replies, Reads, LLMs, OpenAIReads, GoogleReads, LangChainReads
  <1>2. usage' = [usage EXCEPT ![r] = n]
    BY <1>1 DEF ValidAnswer, Note, AddToken
  <1> QED BY <1>2, TypeFacts DEF CallTypes

LEMMA CountsTyped ==
    ASSUME run \in Run, NEW pc \in Pcs, NEW blank \in BOOLEAN, NEW stage \in Stages,
           NEW m \in Nat, NEW n \in Nat
    PROVE  [run EXCEPT !.pc = pc, !.blank = blank, !.tokens[stage] = m,
                       !.paid[stage] = n] \in Run
  BY DEF Run

Questions == {"context", "correct", "structure", "offer", "persuasion"}

LEMMA AnsweredGoes ==
    ASSUME WorkerInv, NEW stage \in Stages, NEW blank \in BOOLEAN,
           run.pc \in Questions,
           NEW next \in Measured,
           run.pc \in {"context", "correct"} => next \notin Checked,
           Answered(stage, next, blank),
           UNCHANGED <<jobRow, inputVars, audio, repeated>>
    PROVE  Onward
  <1>1. PICK n \in Charges :
            /\ ValidAnswer(RoleOf(stage), n)
            /\ run' = [run EXCEPT !.pc = next, !.blank = blank,
                                  !.tokens[stage] = Counted(stage),
                                  !.paid[stage] = @ + n]
    BY DEF Answered
  <1>2. RoleOf(stage) \in Roles
    BY StagesAssumption DEF RoleOf
  <1>3. CallTypes'
    BY <1>1, <1>2, CallsTyped
  <1>4. n \in Nat /\ run.paid[stage] + n \in Nat /\ run.tokens[stage] \in Nat
    BY TypeFacts, ChargesAssumption DEF Run
  <1>5. Counted(stage) \in Nat
    BY <1>2, <1>3, <1>4 DEF Counted, CallTypes
  <1>6. run' = [run EXCEPT !.pc = next, !.blank = blank, !.tokens[stage] = Counted(stage),
                           !.paid[stage] = run.paid[stage] + n]
    BY <1>1, TypeFacts DEF Run
  <1>7. next \in Pcs
    BY DEF Pcs
  <1>8. run' \in Run
    BY <1>4, <1>5, <1>6, <1>7, TypeFacts, CountsTyped
  <1>9. Counts
    <2> SUFFICES ASSUME UsageReported, run.tokens = run.paid
                 PROVE  run'.tokens = run'.paid
      BY DEF Counts
    <2>1. Counted(stage) = run.paid[stage] + n
      BY <1>1, <1>2, ValidIsMetered DEF Counted
    <2> QED BY <1>6, <2>1, TypeFacts DEF Run
  <1>10. /\ run'.pc = next /\ run'.outcome = run.outcome
         /\ run'.resolved = run.resolved /\ run'.input = run.input
         /\ run'.persisted = run.persisted
         /\ run'.late = run.late /\ run'.stuck = run.stuck
         /\ run'.heard = run.heard /\ run'.seconds = run.seconds
    BY <1>6, TypeFacts DEF Run
  <1> QED BY <1>3, <1>8, <1>9, <1>10 DEF Onward, Keeps, Learns, Questions

LEMMA AskGoes ==
    ASSUME WorkerInv, NEW stage \in Stages, run.pc \in Questions,
           NEW next \in Measured,
           run.pc \in {"context", "correct"} => next \notin Checked,
           Ask(stage, next),
           UNCHANGED <<jobRow, inputVars, audio, repeated>>
    PROVE  Broken \/ Onward \/ Waits
  <1>1. CASE Answered(stage, next, run.blank)
    BY <1>1, AnsweredGoes, TypeFacts DEF Run
  <1>2. RoleOf(stage) \in Roles
    BY StagesAssumption DEF RoleOf
  <1>3. CASE AskAgain(RoleOf(stage)) /\ UNCHANGED run
    BY <1>2, <1>3, CallsTyped, TypeFacts DEF Waits, Keeps
  <1>4. CASE (GiveUp(RoleOf(stage)) \/ ProviderError) /\ Raise
    <2>1. CallTypes'
      BY <1>2, <1>4, CallsTyped
    <2> QED BY <1>4, <2>1, RaiseBreaks DEF Questions
  <1> QED BY <1>1, <1>3, <1>4 DEF Ask

LEMMA AdaptedTyped ==
    ASSUME run \in Run, NEW pc \in Pcs, NEW stage \in Stages, NEW n \in Nat
    PROVE  [run EXCEPT !.pc = pc, !.outcome = "ok", !.tokens[stage] = n,
                       !.paid[stage] = n] \in Run
  BY DEF Run

LEMMA AdaptGoes == ASSUME WorkerInv, Adapt PROVE Broken \/ Onward
  <1>1. CallTypes'
    BY TypeFacts DEF Adapt, CallTypes
  <1>2. CASE run' = [run EXCEPT !.pc = "close", !.outcome = "ok"]
    <2>1. run' \in Run
      BY <1>2, TypeFacts DEF Run, Pcs
    <2> QED BY <1>1, <1>2, <2>1, TypeFacts
               DEF Adapt, Onward, Keeps, Counts, Learns, Run
  <1>3. ASSUME NEW n \in AdaptationTokens,
               run' = [run EXCEPT !.pc = "close", !.outcome = "ok",
                                  !.tokens["copy_adaptation"] = n,
                                  !.paid["copy_adaptation"] = n]
        PROVE  Onward
    <2>1. n \in Nat /\ "copy_adaptation" \in Stages /\ "close" \in Pcs
      BY AdaptationAssumption DEF Stages, Pcs
    <2>2. run' \in Run
      BY <1>3, <2>1, TypeFacts, AdaptedTyped
    <2>3. Counts
      BY <1>3, TypeFacts DEF Counts, Run
    <2>4. /\ run'.pc = "close" /\ run'.outcome = "ok"
          /\ run'.resolved = run.resolved /\ run'.input = run.input
          /\ run'.persisted = run.persisted
          /\ run'.late = run.late /\ run'.stuck = run.stuck
          /\ run'.heard = run.heard /\ run'.seconds = run.seconds
      BY <1>3, TypeFacts DEF Run
    <2> QED BY <1>1, <2>2, <2>3, <2>4 DEF Adapt, Onward, Keeps, Learns
  <1>4. CASE Raise
    BY <1>1, <1>4, RaiseBreaks DEF Adapt
  <1> QED BY <1>2, <1>3, <1>4 DEF Adapt

\* The nodes and tools within the temporary directory.
GraphStep ==
    \/ Convert \/ Transcribe \/ Measure \/ ExtractContext \/ Correct \/ Enforce
    \/ PrepareCopyInput \/ ExtractCopyStructure \/ ExtractOfferElements
    \/ AnalysePersuasion \/ Adapt

LEMMA GraphGoes == ASSUME WorkerInv, GraphStep PROVE Broken \/ Onward \/ Waits
  <1> USE DEF Questions, Measured, Checked, Stages
  <1>1. CASE ExtractContext
    BY <1>1, AskGoes DEF ExtractContext
  <1>2. CASE Correct
    <2>1. (~run.blank) \in BOOLEAN
      OBVIOUS
    <2> QED BY <1>2, <2>1, AskGoes, AnsweredGoes DEF Correct
  <1>3. CASE ExtractCopyStructure
    BY <1>3, AskGoes DEF ExtractCopyStructure
  <1>4. CASE ExtractOfferElements
    BY <1>4, AskGoes DEF ExtractOfferElements
  <1>5. CASE AnalysePersuasion
    BY <1>5, AskGoes DEF AnalysePersuasion
  <1> QED BY <1>1, <1>2, <1>3, <1>4, <1>5, ConvertGoes, TranscribeGoes, MeasureGoes,
             RoutesGo, AdaptGoes
             DEF GraphStep

-----------------------------------------------------------------------------
(* These steps keep the invariant.                                          *)

LEMMA KeptTypes ==
    ASSUME WorkerInv, Keeps, CallTypes', audio' \in Directory
    PROVE  ExecTypeOK'
  BY DEF WorkerInv, ExecTypeOK, Keeps, CallTypes

LEMMA BrokenInv == ASSUME WorkerInv, Broken PROVE WorkerInv'
  <1>1. ExecTypeOK'
    BY KeptTypes, TypeFacts DEF Broken
  <1>2. CourseInv' /\ RowInv' /\ StoredInv' /\ DiskInv'
    BY DEF WorkerInv, Broken, Keeps, CourseInv, RowInv, StoredInv, DiskInv, Fault
  <1>3. SourceInv' /\ OneFilePerRun'
    BY
       DEF WorkerInv, Broken, Keeps, SourceInv, OneFilePerRun, RowInv, Knows, Quiet,
           SourceFile
  <1>4. UsageInv'
    BY DEF WorkerInv, Broken, Keeps, Counts, UsageInv, RowInv
  <1> QED BY <1>1, <1>2, <1>3, <1>4 DEF WorkerInv

LEMMA OnwardInv == ASSUME WorkerInv, Onward PROVE WorkerInv'
  <1>1. audio' \in Directory /\ audio'.exists = audio.exists
    <2>1. CASE run.pc = "convert" /\ audio' = [audio EXCEPT !.file = SourceFile]
      <3>1. SourceFile \in Media
        BY <2>1 DEF WorkerInv, SourceInv
      <3> QED BY <2>1, <3>1, TypeFacts DEF Directory
    <2>2. CASE UNCHANGED audio
      BY <2>2, TypeFacts
    <2> QED BY <2>1, <2>2 DEF Onward, Learns
  <1>2. ExecTypeOK'
    BY <1>1, KeptTypes DEF Onward
  <1>3. CourseInv' /\ RowInv' /\ StoredInv' /\ DiskInv'
    BY <1>1 DEF WorkerInv, Onward, Keeps, CourseInv, RowInv, StoredInv, DiskInv, Fault
  <1>4. SourceInv'
    <2> USE DEF Executing, InDirectory, Heard, Measured, Checked
    <2> QED BY TypeFacts, SecondsAssumption
               DEF WorkerInv, Onward, Keeps, Learns, SourceInv, Knows, Quiet,
                   SourceFile, Directory, Run
  <1>5. OneFilePerRun' /\ UsageInv'
    BY DEF WorkerInv, Onward, Keeps, Counts, UsageInv, OneFilePerRun, RowInv
  <1> QED BY <1>2, <1>3, <1>4, <1>5 DEF WorkerInv

LEMMA WaitsInv == ASSUME WorkerInv, Waits PROVE WorkerInv'
  <1>1. ExecTypeOK'
    BY KeptTypes, TypeFacts DEF Waits
  <1> QED BY <1>1
             DEF WorkerInv, Waits, Keeps, CourseInv, RowInv, StoredInv, DiskInv,
                 Fault, SourceInv, OneFilePerRun, Knows, Quiet, SourceFile, UsageInv,
                 Spending

-----------------------------------------------------------------------------
(* The other steps of the run learn nothing from the input.                 *)

Steady ==
    /\ run' \in Run
    /\ run'.heard = run.heard /\ run'.seconds = run.seconds
    /\ run'.tokens = run.tokens /\ run'.paid = run.paid
    /\ UNCHANGED <<job, callVars>>

\* A step to another place, with what it says of the outcome.
Turns(pc, outcome) ==
    /\ Steady
    /\ run'.pc = pc /\ run'.outcome = outcome
    /\ run'.resolved = run.resolved /\ run'.input = run.input
    /\ run'.persisted = run.persisted
    /\ run'.late = run.late /\ run'.stuck = run.stuck

LEMMA PlacesTyped ==
    ASSUME run \in Run, NEW pc \in Pcs
    PROVE  /\ [run EXCEPT !.pc = pc] \in Run
           /\ [run EXCEPT !.pc = pc, !.outcome = "error"] \in Run
           /\ [run EXCEPT !.pc = pc, !.outcome = "error", !.stuck = TRUE] \in Run
           /\ [run EXCEPT !.pc = pc, !.stuck = TRUE] \in Run
           /\ \A b \in BOOLEAN : [run EXCEPT !.pc = pc, !.persisted = b] \in Run
           /\ \A b \in BOOLEAN, m \in Media :
                  [run EXCEPT !.pc = pc, !.resolved = b, !.input = m] \in Run
  BY DEF Run

LEMMA GotoTurns ==
    ASSUME WorkerInv, NEW pc \in Pcs, Goto(pc), UNCHANGED <<job, callVars>>
    PROVE  Turns(pc, run.outcome)
  <1>1. run' \in Run
    BY TypeFacts, PlacesTyped
  <1> QED BY <1>1, TypeFacts DEF Turns, Steady, Run

LEMMA RaiseTurns ==
    ASSUME WorkerInv, RaiseOutside, UNCHANGED <<job, callVars>>
    PROVE  Turns("fail", "error")
  BY TypeFacts DEF Turns, Steady, Run, Pcs

LEMMA SteadyTypes ==
    ASSUME WorkerInv, Steady, audio' \in Directory, workspace' \in Directory,
           owned' \in BOOLEAN, stored' \in Media \cup {None},
           status' \in {"running", "completed", "failed"},
           output' \in Output \cup {None},
           repeated' \in {"not_sent", "stored", "answered"}
    PROVE  ExecTypeOK'
  BY DEF WorkerInv, ExecTypeOK, Steady

LEMMA Directories == NoDirectory \in Directory /\ EmptyDirectory \in Directory
  BY DEF NoDirectory, EmptyDirectory, Directory

LEMMA RowTypes ==
    ASSUME WorkerInv
    PROVE  /\ owned \in BOOLEAN /\ stored \in Media \cup {None}
           /\ status \in {"running", "completed", "failed"}
           /\ output \in Output \cup {None}
           /\ repeated \in {"not_sent", "stored", "answered"}
  BY DEF WorkerInv, ExecTypeOK

\* A run that does not go on to its result has nothing to keep of the input.
LEMMA NothingToKnow ==
    ASSUME WorkerInv, Steady, run'.input = run.input, Quiet' => Quiet,
           UNCHANGED <<status, output>>,
           run'.pc \in {"close", "fail", "dead"} \cup Ending,
           run'.pc = "close" => /\ run.pc \in Executing /\ UNCHANGED inputVars
                               /\ run'.outcome # "ok"
    PROVE  SourceInv' /\ UsageInv' /\ OneFilePerRun'
  <1>1. SourceInv'
    BY DEF WorkerInv, Steady, SourceInv, Knows, Quiet, SourceFile
  <1>2. UsageInv' /\ OneFilePerRun'
    BY DEF WorkerInv, Steady, UsageInv, Spending, OneFilePerRun, Quiet
  <1> QED BY <1>1, <1>2

LEMMA ResolveInv == ASSUME WorkerInv, ResolveInput PROVE WorkerInv'
  <1>1. /\ run.pc = "resolve" /\ ~run.resolved /\ stored \in Media /\ output = None
        /\ ~run.stuck => ~audio.exists /\ ~workspace.exists
    BY RowTypes DEF ResolveInput, WorkerInv, CourseInv, DiskInv, StoredInv, RowInv
  <1>2. ASSUME NEW pc \in Pcs,
               \/ pc = "prepare" /\ InPlace /\ UNCHANGED <<workspace, owned>>
               \/ pc = "download" /\ ~InPlace /\ CreateWorkspace,
               run' = [run EXCEPT !.pc = pc, !.resolved = InPlace, !.input = stored]
        PROVE  WorkerInv'
    <2>1. InPlace \in BOOLEAN
      OBVIOUS
    <2>2. run' \in Run
      BY <1>1, <1>2, <2>1, TypeFacts, PlacesTyped
    <2>3. /\ Steady /\ run'.pc = pc /\ run'.outcome = run.outcome
          /\ run'.resolved = InPlace /\ run'.input = stored
          /\ run'.late = run.late /\ run'.stuck = run.stuck
      BY <1>2, <2>2, TypeFacts DEF ResolveInput, Steady, Run
    <2>4. ExecTypeOK'
      BY <1>2, <2>3, SteadyTypes, TypeFacts, RowTypes, Directories
         DEF ResolveInput, CreateWorkspace
    <2>5. CourseInv' /\ StoredInv' /\ RowInv' /\ DiskInv'
      BY <1>1, <1>2, <2>3
         DEF ResolveInput, WorkerInv, CourseInv, RowInv, StoredInv, DiskInv, Fault,
             Steady
    <2>6. SourceInv' /\ UsageInv' /\ OneFilePerRun'
      BY <1>1, <1>2, <2>3
         DEF ResolveInput, WorkerInv, SourceInv, UsageInv, OneFilePerRun, RowInv,
             Knows, Quiet, SourceFile, Steady
    <2> QED BY <2>4, <2>5, <2>6 DEF WorkerInv
  <1>3. CASE RaiseOutside /\ UNCHANGED <<workspace, owned>>
    <2>1. Turns("fail", "error")
      BY <1>3, RaiseTurns DEF ResolveInput
    <2>2. ExecTypeOK'
      BY <1>3, <2>1, SteadyTypes, TypeFacts, RowTypes DEF ResolveInput, Turns
    <2>3. CourseInv' /\ StoredInv' /\ RowInv' /\ DiskInv'
      BY <1>1, <1>3, <2>1
         DEF ResolveInput, WorkerInv, CourseInv, RowInv, StoredInv, DiskInv, Turns,
             Fault, Steady
    <2>4. SourceInv' /\ UsageInv' /\ OneFilePerRun'
      BY <1>3, <2>1, NothingToKnow DEF ResolveInput, Turns, Quiet, Steady
    <2> QED BY <2>2, <2>3, <2>4 DEF WorkerInv
  <1>4. CASE /\ run' = [run EXCEPT !.pc = IF InPlace THEN "prepare" ELSE "download",
                                   !.resolved = InPlace, !.input = stored]
             /\ IF InPlace THEN UNCHANGED <<workspace, owned>> ELSE CreateWorkspace
    <2>1. CASE InPlace
      BY <1>2, <1>4, <2>1 DEF Pcs
    <2>2. CASE ~InPlace
      BY <1>2, <1>4, <2>2 DEF Pcs
    <2> QED BY <2>1, <2>2
  <1> QED BY <1>3, <1>4 DEF ResolveInput

\* A download that ends without its file, removing its workspace or not.
LEMMA DownloadLeft ==
    ASSUME WorkerInv, run.pc = "download", Steady, run'.pc = "fail",
           run'.outcome = "error", run'.resolved = run.resolved, run'.input = run.input,
           run.late => run'.late, run.stuck => run'.stuck,
           DeleteWorkspace \/ (LeaveWorkspace /\ run'.stuck),
           UNCHANGED <<jobRow, stored, audio, repeated>>
    PROVE  WorkerInv'
  <1>1. workspace' \in Directory /\ owned' \in BOOLEAN
    BY TypeFacts, RowTypes, Directories DEF DeleteWorkspace, LeaveWorkspace
  <1>2. ExecTypeOK'
    BY <1>1, SteadyTypes, TypeFacts, RowTypes
  <1>3. ~run'.stuck => ~workspace'.exists
    BY DEF DeleteWorkspace, NoDirectory
  <1>4. CourseInv' /\ StoredInv' /\ RowInv' /\ DiskInv'
    BY <1>3 DEF WorkerInv, CourseInv, RowInv, StoredInv, DiskInv, Fault, Steady, Turns
  <1>5. SourceInv' /\ UsageInv' /\ OneFilePerRun'
    BY NothingToKnow DEF Quiet, Steady
  <1> QED BY <1>2, <1>4, <1>5 DEF WorkerInv

LEMMA DownloadInv == ASSUME WorkerInv, DownloadInput PROVE WorkerInv'
  <1>1. /\ run.pc = "download" /\ stored \in Media /\ output = None /\ ~InPlace
        /\ ~run.stuck => ~audio.exists
    BY RowTypes DEF DownloadInput, WorkerInv, CourseInv, DiskInv, StoredInv, RowInv
  <1>2. CASE Download /\ run' = [run EXCEPT !.pc = "prepare", !.resolved = TRUE,
                                            !.input = stored]
    <2>1. run' \in Run
      BY <1>1, <1>2, TypeFacts, PlacesTyped DEF Pcs
    <2>2. /\ Steady /\ run'.pc = "prepare" /\ run'.outcome = run.outcome
          /\ run'.resolved /\ run'.input = stored
          /\ run'.late = run.late /\ run'.stuck = run.stuck
      BY <1>2, <2>1, TypeFacts DEF DownloadInput, Steady, Run
    <2>3. workspace' \in Directory /\ workspace'.file = stored
      BY <1>1, <1>2, TypeFacts DEF Download, Directory
    <2>4. ExecTypeOK'
      BY <1>2, <2>2, <2>3, SteadyTypes, TypeFacts, RowTypes
         DEF DownloadInput, Download
    <2>5. CourseInv' /\ StoredInv' /\ RowInv' /\ DiskInv'
      BY <1>1, <1>2, <2>2
         DEF DownloadInput, WorkerInv, CourseInv, RowInv, StoredInv, DiskInv, Fault,
             Steady, Turns
    <2>6. SourceInv' /\ UsageInv' /\ OneFilePerRun'
      BY <1>1, <1>2, <2>2, <2>3
         DEF DownloadInput, WorkerInv, SourceInv, UsageInv, OneFilePerRun, RowInv,
             Knows, Quiet, SourceFile, Steady
    <2> QED BY <2>4, <2>5, <2>6 DEF WorkerInv
  <1>3. CASE RaiseOutside /\ DeleteWorkspace
    <2>1. Turns("fail", "error")
      BY <1>3, RaiseTurns DEF DownloadInput
    <2> QED BY <1>1, <1>3, <2>1, DownloadLeft DEF DownloadInput, Turns
  <1>4. CASE /\ run' = [run EXCEPT !.pc = "fail", !.outcome = "error", !.stuck = TRUE]
             /\ LeaveWorkspace
    <2>1. run' \in Run
      BY <1>4, TypeFacts, PlacesTyped DEF Pcs
    <2>2. /\ Steady /\ run'.pc = "fail" /\ run'.outcome = "error"
          /\ run'.resolved = run.resolved /\ run'.input = run.input
          /\ run'.late = run.late /\ run'.stuck
      BY <1>4, <2>1, TypeFacts DEF DownloadInput, Steady, Run
    <2> QED BY <1>1, <1>4, <2>2, DownloadLeft DEF DownloadInput
  <1> QED BY <1>2, <1>3, <1>4 DEF DownloadInput

LEMMA PrepareInv == ASSUME WorkerInv, Prepare PROVE WorkerInv'
  <1>1. /\ run.pc = "prepare" /\ output = None /\ (~run.stuck => ~audio.exists)
    BY DEF Prepare, WorkerInv, DiskInv, RowInv
  <1>2. CASE Goto("convert") /\ audio' = EmptyDirectory
    <2>1. Turns("convert", run.outcome)
      BY <1>2, GotoTurns DEF Prepare, Pcs
    <2>2. ExecTypeOK'
      BY <1>2, <2>1, SteadyTypes, TypeFacts, RowTypes, Directories DEF Prepare, Turns
    <2>3. CourseInv' /\ StoredInv' /\ RowInv' /\ DiskInv'
      BY <1>1, <2>1
         DEF Prepare, WorkerInv, CourseInv, RowInv, StoredInv, DiskInv, Fault, Steady,
             Turns
    <2>4. SourceInv' /\ UsageInv' /\ OneFilePerRun'
      BY <1>1, <2>1
         DEF Prepare, WorkerInv, SourceInv, UsageInv, OneFilePerRun, RowInv, Knows,
             Quiet, SourceFile, Steady, Turns
    <2> QED BY <2>2, <2>3, <2>4 DEF WorkerInv
  <1>3. CASE RaiseOutside /\ UNCHANGED audio
    <2>1. Turns("fail", "error")
      BY <1>3, RaiseTurns DEF Prepare
    <2>2. ExecTypeOK'
      BY <1>3, <2>1, SteadyTypes, TypeFacts, RowTypes DEF Prepare, Turns
    <2>3. CourseInv' /\ StoredInv' /\ RowInv' /\ DiskInv'
      BY <1>1, <1>3, <2>1
         DEF Prepare, WorkerInv, CourseInv, RowInv, StoredInv, DiskInv, Fault, Steady,
             Turns
    <2>4. SourceInv' /\ UsageInv' /\ OneFilePerRun'
      BY <1>3, <2>1, NothingToKnow DEF Prepare, Turns, Quiet, Steady
    <2> QED BY <2>2, <2>3, <2>4 DEF WorkerInv
  <1> QED BY <1>2, <1>3 DEF Prepare

\* The end of the temporary directory: on to the result, to the failure, or,
\* when the run was cancelled, to the cleanup.
LEMMA CloseInv == ASSUME WorkerInv, CloseDirectory PROVE WorkerInv'
  <1>1. /\ run.pc = "close" /\ output = None
        /\ run.outcome \in {"ok", "error", "cancelled"}
        /\ run.outcome = "cancelled" => run.late
    BY TypeFacts DEF CloseDirectory, WorkerInv, CourseInv, RowInv, Run
  <1>2. CASE Goto(AfterClose(run.outcome)) /\ audio' = NoDirectory
    <2>1. AfterClose(run.outcome) = IF run.outcome = "ok" THEN "complete"
                                    ELSE IF run.outcome = "error" THEN "fail" ELSE "cleanup"
      BY <1>1 DEF AfterClose
    <2>2. AfterClose(run.outcome) \in Pcs
      BY <2>1 DEF Pcs
    <2>3. Turns(AfterClose(run.outcome), run.outcome)
      BY <1>2, <2>2, GotoTurns DEF CloseDirectory
    <2>4. ExecTypeOK'
      BY <1>2, <2>3, SteadyTypes, TypeFacts, RowTypes, Directories
         DEF CloseDirectory, Turns
    <2>5. CourseInv' /\ StoredInv' /\ RowInv' /\ DiskInv'
      BY <1>1, <1>2, <2>1, <2>3
         DEF CloseDirectory, NoDirectory, WorkerInv, CourseInv, RowInv, StoredInv,
             DiskInv, Fault, Steady, Turns
    <2>6. SourceInv' /\ UsageInv' /\ OneFilePerRun'
      BY <1>1, <2>1, <2>3
         DEF CloseDirectory, WorkerInv, SourceInv, UsageInv, OneFilePerRun, RowInv,
             Knows, Quiet, SourceFile, Steady, Turns
    <2> QED BY <2>4, <2>5, <2>6 DEF WorkerInv
  <1>3. CASE /\ run' = [run EXCEPT !.pc = "fail", !.outcome = "error", !.stuck = TRUE]
             /\ UNCHANGED audio
    <2>1. run' \in Run
      BY <1>3, TypeFacts, PlacesTyped DEF Pcs
    <2>2. /\ Steady /\ run'.pc = "fail" /\ run'.outcome = "error"
          /\ run'.resolved = run.resolved /\ run'.input = run.input
          /\ run'.late = run.late /\ run'.stuck
      BY <1>3, <2>1, TypeFacts DEF CloseDirectory, Steady, Run
    <2>3. ExecTypeOK'
      BY <1>3, <2>2, SteadyTypes, TypeFacts, RowTypes DEF CloseDirectory
    <2>4. CourseInv' /\ StoredInv' /\ RowInv' /\ DiskInv'
      BY <1>1, <2>2
         DEF CloseDirectory, WorkerInv, CourseInv, RowInv, StoredInv, DiskInv, Fault,
             Steady, Turns
    <2>5. SourceInv' /\ UsageInv' /\ OneFilePerRun'
      BY <2>2, NothingToKnow DEF CloseDirectory, Quiet, Steady
    <2> QED BY <2>3, <2>4, <2>5 DEF WorkerInv
  <1> QED BY <1>2, <1>3 DEF CloseDirectory

-----------------------------------------------------------------------------
(* The end of the run.                                                      *)

LEMMA SettleFacts ==
    ASSUME WorkerInv, NEW persisted \in BOOLEAN, Settle(persisted),
           UNCHANGED <<job, callVars>>
    PROVE  /\ Steady /\ run'.pc = "cleanup" /\ run'.outcome = run.outcome
           /\ run'.resolved = run.resolved /\ run'.input = run.input
           /\ run'.persisted = persisted
           /\ run'.late = run.late /\ run'.stuck = run.stuck
  <1>1. run' \in Run
    BY TypeFacts, PlacesTyped DEF Settle, Pcs
  <1> QED BY <1>1, TypeFacts DEF Settle, Steady, Run

\* What a step after the workflows may do to the rest of the run.
Leaves ==
    /\ Steady
    /\ run'.resolved = run.resolved /\ run'.input = run.input
    /\ run'.outcome = "cancelled" => run'.late
    /\ run.late => run'.late
    /\ run.stuck => run'.stuck
    /\ UNCHANGED <<audio, inputVars, repeated>>

\* The result is made of what the run knows.
LEMMA ResultFacts ==
    ASSUME WorkerInv, run.pc = "complete"
    PROVE  /\ Result \in Output
           /\ Result.media = run.heard /\ Result.seconds = run.seconds
           /\ Result.tokens = TotalTokens
           /\ Quiet => run.heard = run.input /\ run.seconds = Seconds(run.input)
           /\ job.limit # None => run.seconds \in 1..job.limit
  <1>1. run.heard \in Media /\ run.seconds \in Nat
    BY TypeFacts DEF WorkerInv, SourceInv, Knows, Run
  <1>2. TotalTokens \in Nat
    BY TypeFacts DEF TotalTokens, Run, Stages
  <1>3. (job.pipeline = "copy_adaptation") \in BOOLEAN
    OBVIOUS
  <1>4. Result \in Output
    BY <1>1, <1>2, <1>3 DEF Result, Output
  <1>5. /\ Result.media = run.heard /\ Result.seconds = run.seconds
        /\ Result.tokens = TotalTokens
    BY DEF Result
  <1> QED BY <1>4, <1>5 DEF WorkerInv, SourceInv, Knows

LEMMA CompleteInv == ASSUME WorkerInv, Complete PROVE WorkerInv'
  <1>1. run.pc = "complete" /\ output = None /\ run.resolved
    BY DEF Complete, WorkerInv, CourseInv, RowInv
  <1>2. ASSUME Leaves, run'.pc \in {"cleanup", "fail"}, status = "running",
               status' = "completed", output' = Result
        PROVE  WorkerInv'
    <2>1. Result \in Output
      BY <1>1, ResultFacts
    <2>2. output' # None
      BY <1>2, <2>1, OutputAssumption
    <2>3. ExecTypeOK'
      BY <1>2, <2>1, SteadyTypes, TypeFacts, RowTypes DEF Leaves
    <2>4. CourseInv' /\ StoredInv' /\ RowInv' /\ DiskInv'
      BY <1>1, <1>2, <2>2
         DEF Leaves, WorkerInv, CourseInv, RowInv, StoredInv, DiskInv, Fault, Steady,
             Turns
    <2>5. SourceInv'
      BY <1>2 DEF Leaves, WorkerInv, SourceInv, Knows, Steady
    <2>6. UsageInv'
      BY <1>1, <1>2, ResultFacts
         DEF Leaves, WorkerInv, UsageInv, Steady, TotalTokens, Spending
    <2>7. OneFilePerRun'
      BY <1>1, <1>2, ResultFacts DEF Leaves, OneFilePerRun, Steady, Quiet
    <2> QED BY <2>3, <2>4, <2>5, <2>6, <2>7 DEF WorkerInv
  <1>3. ASSUME Leaves, run'.pc = "fail", UNCHANGED <<status, output>>
        PROVE  WorkerInv'
    <2>1. ExecTypeOK'
      BY <1>3, SteadyTypes, TypeFacts, RowTypes DEF Leaves
    <2>2. CourseInv' /\ StoredInv' /\ RowInv' /\ DiskInv'
      BY <1>1, <1>3
         DEF Leaves, WorkerInv, CourseInv, RowInv, StoredInv, DiskInv, Fault, Steady,
             Turns
    <2>3. SourceInv' /\ UsageInv' /\ OneFilePerRun'
      BY <1>3, NothingToKnow DEF Leaves, Quiet, Steady
    <2> QED BY <2>1, <2>2, <2>3 DEF WorkerInv
  <1>4. CASE Settle(TRUE)
    <2>1. Leaves /\ run'.pc = "cleanup"
      BY <1>4, SettleFacts DEF Complete, Leaves, WorkerInv, CourseInv
    <2>2. run.pc = "complete" /\ run'.pc # "fail"
      BY <1>1, <2>1
    <2>3. status = "running" /\ status' = "completed" /\ output' = Result
      BY <2>2, RaiseTurns DEF Complete, Turns
    <2> QED BY <1>2, <2>1, <2>3
  <1>5. CASE RaiseOutside
    <2>1. Turns("fail", "error")
      BY <1>5, RaiseTurns DEF Complete
    <2>2. Leaves /\ run'.pc = "fail"
      BY <2>1 DEF Complete, Leaves, Turns
    <2> QED BY <1>2, <1>3, <2>2 DEF Complete
  <1> QED BY <1>4, <1>5 DEF Complete

LEMMA FailInv == ASSUME WorkerInv, Fail PROVE WorkerInv'
  <1>1. run.pc = "fail" /\ UNCHANGED output
    BY DEF Fail
  <1>2. PICK persisted \in BOOLEAN : Settle(persisted)
    BY DEF Fail
  <1>3. Leaves /\ run'.pc = "cleanup" /\ run'.late = run.late
    BY <1>2, SettleFacts DEF Fail, Leaves, WorkerInv, CourseInv
  <1>4. /\ status' = "running" => status = "running" /\ Fault("database")
        /\ status' \in {status, "failed"}
        /\ status = "completed" => UNCHANGED status
        /\ status' = "completed" => status = "completed"
    BY RowTypes DEF Fail
  <1>5. ExecTypeOK'
    BY <1>1, <1>3, <1>4, SteadyTypes, TypeFacts, RowTypes DEF Leaves
  <1>6. CourseInv' /\ StoredInv' /\ RowInv' /\ DiskInv'
    BY <1>1, <1>3, <1>4
       DEF Leaves, WorkerInv, CourseInv, RowInv, StoredInv, DiskInv, Fault, Steady,
           Turns
  <1>7. SourceInv'
    BY <1>3 DEF Leaves, WorkerInv, SourceInv, Knows, Steady
  <1>8. UsageInv' /\ OneFilePerRun'
    BY <1>1, <1>3, <1>4
       DEF Leaves, WorkerInv, UsageInv, OneFilePerRun, Steady, Spending, Quiet
  <1> QED BY <1>5, <1>6, <1>7, <1>8 DEF WorkerInv

LEMMA CleanupInv == ASSUME WorkerInv, Cleanup PROVE WorkerInv'
  <1>1. run.pc = "cleanup"
    BY DEF Cleanup
  <1>2. /\ Steady /\ run'.pc = "delete" /\ run'.outcome = run.outcome
        /\ run'.resolved = run.resolved /\ run'.input = run.input
        /\ run'.persisted = run.persisted /\ run'.late = run.late
        /\ \/ /\ run'.stuck = run.stuck
              /\ IF run.resolved /\ ~InPlace THEN DeleteWorkspace
                 ELSE UNCHANGED <<workspace, owned>>
           \/ run'.stuck /\ LeaveWorkspace
    <2>1. CASE Goto("delete") /\ IF run.resolved /\ ~InPlace THEN DeleteWorkspace
                                ELSE UNCHANGED <<workspace, owned>>
      BY <2>1, GotoTurns DEF Cleanup, Turns, Pcs
    <2>2. CASE LeaveWorkspace /\ run' = [run EXCEPT !.pc = "delete", !.stuck = TRUE]
      <3>1. run' \in Run
        BY <2>2, TypeFacts, PlacesTyped DEF Pcs
      <3> QED BY <2>2, <3>1, TypeFacts DEF Cleanup, Steady, Run
    <2> QED BY <2>1, <2>2 DEF Cleanup
  <1>3. workspace' \in Directory /\ owned' \in BOOLEAN
    BY <1>2, TypeFacts, RowTypes, Directories DEF DeleteWorkspace, LeaveWorkspace
  <1>4. ExecTypeOK'
    BY <1>2, <1>3, SteadyTypes, TypeFacts, RowTypes DEF Cleanup
  <1>5. DiskInv'
    BY <1>1, <1>2 DEF Cleanup, DeleteWorkspace, NoDirectory, WorkerInv, DiskInv
  <1>6. CourseInv' /\ StoredInv' /\ RowInv'
    BY <1>1, <1>2
       DEF Cleanup, WorkerInv, CourseInv, RowInv, StoredInv, DiskInv, Fault, Steady,
           Turns
  <1>7. SourceInv' /\ UsageInv' /\ OneFilePerRun'
    BY <1>1, <1>2, NothingToKnow DEF Cleanup, Quiet, Steady
  <1> QED BY <1>4, <1>5, <1>6, <1>7 DEF WorkerInv

LEMMA DeleteInv == ASSUME WorkerInv, DeleteFiles PROVE WorkerInv'
  <1>1. run.pc = "delete"
    BY DEF DeleteFiles
  <1>2. /\ Steady /\ run'.pc = "done" /\ run'.outcome = run.outcome
        /\ run'.resolved = run.resolved /\ run'.input = run.input
        /\ run'.persisted = run.persisted /\ run'.late = run.late
        /\ \/ /\ run'.stuck = run.stuck
              /\ stored' = IF run.persisted THEN None ELSE stored
           \/ run'.stuck /\ UNCHANGED stored
    <2>1. CASE Goto("done") /\ stored' = IF run.persisted THEN None ELSE stored
      BY <2>1, GotoTurns DEF DeleteFiles, Turns, Pcs
    <2>2. CASE UNCHANGED stored /\ run' = [run EXCEPT !.pc = "done", !.stuck = TRUE]
      <3>1. run' \in Run
        BY <2>2, TypeFacts, PlacesTyped DEF Pcs
      <3> QED BY <2>2, <3>1, TypeFacts DEF DeleteFiles, Steady, Run
    <2> QED BY <2>1, <2>2 DEF DeleteFiles
  <1>3. ExecTypeOK'
    BY <1>2, SteadyTypes, TypeFacts, RowTypes DEF DeleteFiles
  <1>4. CourseInv' /\ StoredInv' /\ RowInv' /\ DiskInv'
    BY <1>1, <1>2
       DEF DeleteFiles, WorkerInv, CourseInv, RowInv, StoredInv, DiskInv, Fault,
           Steady, Turns
  <1>5. SourceInv' /\ UsageInv' /\ OneFilePerRun'
    BY <1>1, <1>2, NothingToKnow DEF DeleteFiles, Quiet, Steady
  <1> QED BY <1>3, <1>4, <1>5 DEF WorkerInv

-----------------------------------------------------------------------------
(* Interruptions.                                                           *)

\* From a place where the run awaits, to the blocks that still run.
LEMMA CancelInv == ASSUME WorkerInv, CancelRun PROVE WorkerInv'
  <1>1. PICK pc \in {"cleanup", "close"} :
            /\ run' = [run EXCEPT !.late = TRUE, !.outcome = "cancelled", !.pc = pc]
            /\ pc = "close" => run.pc \in InDirectory \ {"close"}
            /\ pc = "cleanup" => run.pc \in {"complete", "fail"}
    <2>1. CASE run.pc \in {"complete", "fail"}
      BY <2>1 DEF CancelRun
    <2>2. CASE run.pc \notin {"complete", "fail"}
      BY <2>2 DEF CancelRun, Awaiting
    <2> QED BY <2>1, <2>2
  <1>2. run' \in Run
    BY <1>1, TypeFacts DEF Run, Pcs
  <1>3. /\ run'.pc = pc /\ run'.outcome = "cancelled" /\ run'.late
        /\ run'.resolved = run.resolved /\ run'.input = run.input
        /\ run'.persisted = run.persisted /\ run'.stuck = run.stuck
        /\ run'.heard = run.heard /\ run'.seconds = run.seconds
        /\ run'.tokens = run.tokens /\ run'.paid = run.paid
    BY <1>1, TypeFacts DEF Run
  <1>4. CallTypes'
    BY TypeFacts, AttemptsAssumption DEF CancelRun, CallTypes
  <1>5. ExecTypeOK'
    BY <1>2, <1>4, TypeFacts, RowTypes DEF CancelRun, ExecTypeOK, CallTypes
  <1>6. CourseInv' /\ StoredInv' /\ RowInv' /\ DiskInv'
    BY <1>1, <1>3
       DEF CancelRun, WorkerInv, CourseInv, RowInv, StoredInv, DiskInv, Fault, Steady,
           Turns
  <1>7. SourceInv'
    BY <1>1, <1>3 DEF CancelRun, WorkerInv, SourceInv, Knows, Quiet, SourceFile
  <1>8. UsageInv' /\ OneFilePerRun'
    BY <1>3 DEF CancelRun, WorkerInv, UsageInv, OneFilePerRun, Spending
  <1> QED BY <1>5, <1>6, <1>7, <1>8 DEF WorkerInv

\* An exception of the run's own code, outside and inside of the directory, and
\* in the finally blocks.
LEMMA InterruptInv == ASSUME WorkerInv, InterruptRun PROVE WorkerInv'
  <1>1. ASSUME NEW pc \in {"fail", "close"}, NEW stuck \in BOOLEAN,
               run' = [run EXCEPT !.late = TRUE, !.pc = pc, !.outcome = "error",
                                  !.stuck = stuck]
        PROVE  /\ Steady /\ run'.pc = pc /\ run'.outcome = "error" /\ run'.late
               /\ run'.resolved = run.resolved /\ run'.input = run.input
               /\ run'.persisted = run.persisted /\ run'.stuck = stuck
    <2>1. run' \in Run
      BY <1>1, TypeFacts DEF Run, Pcs
    <2> QED BY <1>1, <2>1, TypeFacts DEF InterruptRun, Steady, Run
  <1>2. run.stuck \in BOOLEAN /\ run = [run EXCEPT !.stuck = run.stuck]
    BY TypeFacts DEF Run
  <1>3. CASE /\ run.pc \in {"resolve", "prepare"}
             /\ run' = [run EXCEPT !.late = TRUE, !.pc = "fail", !.outcome = "error"]
             /\ UNCHANGED <<workspace, owned>>
    <2>1. run' = [run EXCEPT !.late = TRUE, !.pc = "fail", !.outcome = "error",
                             !.stuck = run.stuck]
      BY <1>3, TypeFacts DEF Run
    <2>2. /\ Steady /\ run'.pc = "fail" /\ run'.outcome = "error" /\ run'.late
          /\ run'.resolved = run.resolved /\ run'.input = run.input
          /\ run'.persisted = run.persisted /\ run'.stuck = run.stuck
      BY <1>1, <1>2, <2>1
    <2>3. ExecTypeOK'
      BY <1>3, <2>2, SteadyTypes, TypeFacts, RowTypes DEF InterruptRun
    <2>4. CourseInv' /\ StoredInv' /\ RowInv' /\ DiskInv'
      BY <1>3, <2>2
         DEF InterruptRun, WorkerInv, CourseInv, RowInv, StoredInv, DiskInv, Fault,
             Steady, Turns
    <2>5. SourceInv' /\ UsageInv' /\ OneFilePerRun'
      BY <2>2, NothingToKnow DEF InterruptRun, Quiet, Steady
    <2> QED BY <2>3, <2>4, <2>5 DEF WorkerInv
  <1>4. CASE /\ run.pc = "download" /\ DeleteWorkspace
             /\ run' = [run EXCEPT !.late = TRUE, !.pc = "fail", !.outcome = "error"]
    <2>1. run' = [run EXCEPT !.late = TRUE, !.pc = "fail", !.outcome = "error",
                             !.stuck = run.stuck]
      BY <1>4, TypeFacts DEF Run
    <2>2. /\ Steady /\ run'.pc = "fail" /\ run'.outcome = "error" /\ run'.late
          /\ run'.resolved = run.resolved /\ run'.input = run.input
          /\ run'.stuck = run.stuck
      BY <1>1, <1>2, <2>1
    <2> QED BY <1>4, <2>2, DownloadLeft DEF InterruptRun
  <1>5. CASE /\ run.pc \in {"convert", "transcribe", "measure", "copy_input"}
             /\ run' = [run EXCEPT !.late = TRUE, !.pc = "close", !.outcome = "error"]
             /\ UNCHANGED <<workspace, owned>>
    <2>1. run' = [run EXCEPT !.late = TRUE, !.pc = "close", !.outcome = "error",
                             !.stuck = run.stuck]
      BY <1>5, TypeFacts DEF Run
    <2>2. /\ Steady /\ run'.pc = "close" /\ run'.outcome = "error" /\ run'.late
          /\ run'.resolved = run.resolved /\ run'.input = run.input
          /\ run'.persisted = run.persisted /\ run'.stuck = run.stuck
      BY <1>1, <1>2, <2>1
    <2>3. ExecTypeOK'
      BY <1>5, <2>2, SteadyTypes, TypeFacts, RowTypes DEF InterruptRun
    <2>4. CourseInv' /\ StoredInv' /\ RowInv' /\ DiskInv'
      BY <1>5, <2>2
         DEF InterruptRun, WorkerInv, CourseInv, RowInv, StoredInv, DiskInv, Fault,
             Steady, Turns
    <2>5. SourceInv' /\ UsageInv' /\ OneFilePerRun'
      BY <1>5, <2>2, NothingToKnow DEF InterruptRun, Quiet, Steady
    <2> QED BY <2>3, <2>4, <2>5 DEF WorkerInv
  <1>6. CASE /\ run.pc = "close"
             /\ run' = [run EXCEPT !.late = TRUE, !.pc = "fail",
                                   !.outcome = "error", !.stuck = TRUE]
             /\ UNCHANGED <<workspace, owned>>
    <2>1. /\ Steady /\ run'.pc = "fail" /\ run'.outcome = "error" /\ run'.late
          /\ run'.resolved = run.resolved /\ run'.input = run.input
          /\ run'.persisted = run.persisted /\ run'.stuck
      BY <1>1, <1>6
    <2>2. ExecTypeOK'
      BY <1>6, <2>1, SteadyTypes, TypeFacts, RowTypes DEF InterruptRun
    <2>3. CourseInv' /\ StoredInv' /\ RowInv' /\ DiskInv'
      BY <1>6, <2>1
         DEF InterruptRun, WorkerInv, CourseInv, RowInv, StoredInv, DiskInv, Fault,
             Steady, Turns
    <2>4. SourceInv' /\ UsageInv' /\ OneFilePerRun'
      BY <2>1, NothingToKnow DEF InterruptRun, Quiet, Steady
    <2> QED BY <2>2, <2>3, <2>4 DEF WorkerInv
  <1>7. ASSUME NEW pc \in {"delete", "done"},
               \/ run.pc = "cleanup" /\ pc = "delete"
               \/ run.pc = "delete" /\ pc = "done",
               run' = [run EXCEPT !.late = TRUE, !.stuck = TRUE, !.pc = pc],
               UNCHANGED <<workspace, owned>>
        PROVE  WorkerInv'
    <2>1. run' \in Run
      BY <1>7, TypeFacts DEF Run, Pcs
    <2>2. /\ Steady /\ run'.pc = pc /\ run'.outcome = run.outcome /\ run'.late
          /\ run'.resolved = run.resolved /\ run'.input = run.input
          /\ run'.persisted = run.persisted /\ run'.stuck
      BY <1>7, <2>1, TypeFacts DEF InterruptRun, Steady, Run
    <2>3. ExecTypeOK'
      BY <1>7, <2>2, SteadyTypes, TypeFacts, RowTypes DEF InterruptRun
    <2>4. CourseInv' /\ StoredInv' /\ RowInv' /\ DiskInv'
      BY <1>7, <2>2
         DEF InterruptRun, WorkerInv, CourseInv, RowInv, StoredInv, DiskInv, Fault,
             Steady, Turns
    <2>5. SourceInv' /\ UsageInv' /\ OneFilePerRun'
      BY <2>2, NothingToKnow DEF InterruptRun, Quiet, Steady
    <2> QED BY <2>3, <2>4, <2>5 DEF WorkerInv
  <1>8. CASE /\ run.pc \in {"cleanup", "delete"}
             /\ run' = [run EXCEPT !.late = TRUE, !.stuck = TRUE,
                                   !.pc = IF @ = "cleanup" THEN "delete" ELSE "done"]
             /\ UNCHANGED <<workspace, owned>>
    BY <1>7, <1>8
  <1> QED BY <1>3, <1>4, <1>5, <1>6, <1>8 DEF InterruptRun

LEMMA KillInv == ASSUME WorkerInv, Kill PROVE WorkerInv'
  <1>1. Turns("dead", run.outcome) /\ run.pc # "done"
    BY GotoTurns DEF Kill, Pcs
  <1>2. ExecTypeOK'
    BY <1>1, SteadyTypes, TypeFacts, RowTypes DEF Kill, Turns
  <1>3. CourseInv' /\ StoredInv' /\ RowInv' /\ DiskInv'
    BY <1>1
       DEF Kill, WorkerInv, CourseInv, RowInv, StoredInv, DiskInv, Fault, Steady,
           Turns
  <1>4. SourceInv' /\ UsageInv' /\ OneFilePerRun'
    BY <1>1, NothingToKnow DEF Kill, Turns, Quiet, Steady
  <1> QED BY <1>2, <1>3, <1>4 DEF WorkerInv

\* Another request stores its file over the input, and may fail the job.
LEMMA RepeatInv == ASSUME WorkerInv, RepeatStores \/ RepeatFails PROVE WorkerInv'
  <1>1. UNCHANGED <<job, workspace, owned, callVars, output, audio, run>>
    BY DEF RepeatStores, RepeatFails
  <1>2. /\ stored' \in Media \cup {None} /\ stored' = None => stored = None
        /\ repeated' \in {"stored", "answered"}
        /\ stored' = stored \/ repeated = "not_sent"
        /\ status' = status \/ (status = "running" /\ status' = "failed")
        /\ repeated = "stored" => stored' = stored
        /\ InPlace' = InPlace
        /\ stored' # stored => stored' \in Media
    BY RowTypes, MediaAssumption DEF RepeatStores, RepeatFails
  <1>3. ExecTypeOK'
    BY <1>1, <1>2, RowTypes DEF WorkerInv, ExecTypeOK
  <1>4. CourseInv' /\ StoredInv' /\ RowInv' /\ DiskInv'
    BY <1>1, <1>2
       DEF WorkerInv, CourseInv, RowInv, StoredInv, DiskInv, Fault, Steady, Turns
  <1>5. SourceInv'
    BY <1>1, <1>2 DEF WorkerInv, SourceInv, Knows, Quiet, SourceFile
  <1>6. UsageInv' /\ OneFilePerRun'
    BY <1>1, <1>2 DEF WorkerInv, UsageInv, OneFilePerRun, Spending
  <1> QED BY <1>3, <1>4, <1>5, <1>6 DEF WorkerInv

-----------------------------------------------------------------------------
(* The theorems.                                                            *)

LEMMA WorkerInvInit == ExecInit => WorkerInv
  <1> SUFFICES ASSUME ExecInit PROVE WorkerInv
    OBVIOUS
  <1>1. CallTypes
    BY AttemptsAssumption, CallAssumption DEF ExecInit, CallInit, CallTypes
  <1>2. NewRun \in Run
    BY DEF NewRun, Run, Pcs, Stages
  <1>3. ExecTypeOK
    BY <1>1, <1>2, Directories DEF ExecInit, InputInit, ExecTypeOK, CallTypes
  <1>4. CourseInv /\ DiskInv /\ StoredInv /\ SourceInv /\ RowInv /\ UsageInv
    BY MediaAssumption
       DEF ExecInit, InputInit, NewRun, NoDirectory, CourseInv, DiskInv, StoredInv,
           SourceInv, RowInv, UsageInv, Knows
  <1>5. OneFilePerRun
    BY DEF ExecInit, OneFilePerRun
  <1> QED BY <1>3, <1>4, <1>5 DEF WorkerInv

LEMMA WorkerInvStep == WorkerInv /\ [ExecNext]_execVars => WorkerInv'
  <1> SUFFICES ASSUME WorkerInv, [ExecNext]_execVars PROVE WorkerInv'
    OBVIOUS
  <1>1. CASE GraphStep
    BY <1>1, GraphGoes, BrokenInv, OnwardInv, WaitsInv
  <1>2. CASE RunStep
    BY <1>1, <1>2, ResolveInv, DownloadInv, PrepareInv, CloseInv, CompleteInv,
       FailInv, CleanupInv, DeleteInv
       DEF RunStep, GraphStep
  <1>3. CASE UNCHANGED execVars
    BY <1>3
       DEF WorkerInv, ExecTypeOK, CourseInv, DiskInv, StoredInv, SourceInv, RowInv,
           UsageInv, OneFilePerRun, Knows, Quiet, SourceFile, Fault, Spending
  <1> QED BY <1>2, <1>3, CancelInv, InterruptInv, KillInv, RepeatInv DEF ExecNext

LEMMA WorkerInvHolds == ExecSpec => []WorkerInv
  BY WorkerInvInit, WorkerInvStep, PTL DEF ExecSpec

\* Type correctness of the run.
THEOREM ExecTypesHold == ExecSpec => []ExecTypeOK
  <1>1. WorkerInv => ExecTypeOK
    BY DEF WorkerInv
  <1> QED BY <1>1, WorkerInvHolds, PTL

\* A job is completed from the one file its run resolved, within the limit.
THEOREM CompletedFromOneFile == ExecSpec => []OneFilePerRun
  <1>1. WorkerInv => OneFilePerRun
    BY DEF WorkerInv
  <1> QED BY <1>1, WorkerInvHolds, PTL

\* A run removes what it made, on each path of errors and cancellation.
THEOREM RunsTidyUp == ExecSpec => []NothingLeftBehind
  <1>1. WorkerInv => NothingLeftBehind
    BY DEF WorkerInv, DiskInv, StoredInv, NothingLeftBehind
  <1> QED BY <1>1, WorkerInvHolds, PTL

\* A job left running has the excuse of a database or of a limit.
THEOREM OpenJobsExcused == ExecSpec => []OpenJobIsExcused
  <1>1. WorkerInv => OpenJobIsExcused
    BY DEF WorkerInv, RowInv, OpenJobIsExcused
  <1> QED BY <1>1, WorkerInvHolds, PTL

\* The tokens of a result are those that were charged for its answers, where
\* the providers report them.
THEOREM UsageAddsUp == UsageReported => (ExecSpec => []UsageIsExact)
  <1> SUFFICES ASSUME UsageReported PROVE ExecSpec => []UsageIsExact
    OBVIOUS
  <1>1. WorkerInv => UsageIsExact
    BY DEF WorkerInv, UsageInv, Spending, UsageIsExact
  <1> QED BY <1>1, WorkerInvHolds, PTL

-----------------------------------------------------------------------------
(* The run as the worker of JobPipeline.  First the calls of WorkerRunner, as *)
(* changes of what RunToRunner makes of the run.                             *)

\* Where the one worker is, with which copy of the input.
Doing(pc, copy, persisted) ==
    RunnerState = [pc |-> pc, job |-> theJob, copy |-> copy, persisted |-> persisted]

\* It is lost to the job, or has released it.
Lost == RunnerState = Runner!IdleWorker

\* The one worker is a worker.
LEMMA WorkerSteps ==
    Runner!Run(theWorker) \/ Runner!WorkerCrash(theWorker) => Runner!WorkerStep
  BY DEF Runner!WorkerStep

\* The input is resolved and the workflows start on it.
LEMMA ResolveStarts ==
    ASSUME Doing("resolve", None, FALSE), Doing("execute", stored, FALSE)',
           Starts = 0, Starts' = 1, stored # None, UNCHANGED <<RunnerRow, stored>>
    PROVE  Runner!WorkerStep
  <1>1. [w \in {theWorker} |-> RunnerState]'
            = [[w \in {theWorker} |-> RunnerState] EXCEPT
                   ![theWorker].pc = "execute", ![theWorker].copy = stored]
    BY DEF Doing
  <1>2. [j \in {theJob} |-> Starts]'
            = [[j \in {theJob} |-> Starts] EXCEPT
                   ![theJob] = [j \in {theJob} |-> Starts][theJob] + 1]
    OBVIOUS
  <1>3. /\ Runner!WorkerAt(theWorker, "resolve") /\ Runner!Task(theWorker) = theJob
        /\ [j \in {theJob} |-> stored][theJob] = stored
    BY DEF Doing, Runner!WorkerAt, Runner!Task
  <1>4. Runner!Resolve(theWorker)
    BY <1>1, <1>2, <1>3 DEF Runner!Resolve, Runner!resourceVars
  <1> QED BY <1>4, WorkerSteps DEF Runner!Run

\* Resolving raises.
LEMMA ResolveFails ==
    ASSUME Doing("resolve", None, FALSE), Doing("fail", None, FALSE)',
           UNCHANGED <<RunnerRow, stored, Starts>>, "storage" \in RunnerFaults
    PROVE  Runner!WorkerStep
  <1>1. Runner!Resolve(theWorker)
    BY DEF Doing, Runner!Resolve, Runner!WorkerAt, Runner!WorkerGoto, Runner!Task,
           Runner!resourceVars, Runner!Fault
  <1> QED BY <1>1, WorkerSteps DEF Runner!Run

\* The workflows end, one way or the other.
LEMMA ExecuteEnds ==
    ASSUME NEW copy, NEW pc \in {"complete", "fail"},
           Doing("execute", copy, FALSE), Doing(pc, copy, FALSE)',
           UNCHANGED <<RunnerRow, stored, Starts>>
    PROVE  Runner!WorkerStep
  <1>1. Runner!Execute(theWorker)
    BY DEF Doing, Runner!Execute, Runner!WorkerAt, Runner!WorkerGoto,
           Runner!resourceVars, Runner!Fault, RunnerFaults
  <1> QED BY <1>1, WorkerSteps DEF Runner!Run

\* The row after mark_completed and after mark_failed.
RowCompleted(media) ==
    /\ RunnerRow.status = "running"
    /\ RunnerRow' = [RunnerRow EXCEPT !.status = "completed", !.output = media]
RowFailed ==
    /\ RunnerRow.status = "running"
    /\ RunnerRow' = [RunnerRow EXCEPT !.status = "failed"]

\* They are transitions of the jobs table.
LEMMA RowMarked ==
    /\ \A media : RowCompleted(media) => Runner!MarkCompleted(theJob, media)
    /\ RowFailed => Runner!MarkFailed(theJob)
  <1>1. ASSUME NEW media, RowCompleted(media) PROVE Runner!MarkCompleted(theJob, media)
    <2>1. [j \in {theJob} |-> RunnerRow]'
              = [[j \in {theJob} |-> RunnerRow] EXCEPT ![theJob] =
                   [[j \in {theJob} |-> RunnerRow][theJob] EXCEPT
                      !.status = "completed", !.output = media]]
      BY <1>1 DEF RowCompleted
    <2> QED BY <1>1, <2>1
               DEF RowCompleted, Runner!MarkCompleted, Runner!Transition,
                   Runner!CompletableFrom
  <1>2. ASSUME RowFailed PROVE Runner!MarkFailed(theJob)
    BY <1>2 DEF RowFailed, Runner!MarkFailed, Runner!Transition, Runner!FailableFrom
  <1> QED BY <1>1, <1>2

\* What a worker at complete is, and how it goes on.
LEMMA CompleteTurns ==
    ASSUME NEW copy, Doing("complete", copy, FALSE)
    PROVE  /\ Runner!WorkerAt(theWorker, "complete") /\ Runner!Task(theWorker) = theJob
           /\ [w \in {theWorker} |-> RunnerState][theWorker].copy = copy
           /\ Doing("finish", copy, TRUE)' => Runner!Persisted(theWorker, TRUE)
           /\ Doing("fail", copy, FALSE)' => Runner!WorkerGoto(theWorker, "fail")
  <1>1. /\ Runner!WorkerAt(theWorker, "complete") /\ Runner!Task(theWorker) = theJob
        /\ [w \in {theWorker} |-> RunnerState][theWorker].copy = copy
    BY DEF Doing, Runner!WorkerAt, Runner!Task
  <1>2. Doing("finish", copy, TRUE)' => Runner!Persisted(theWorker, TRUE)
    <2> SUFFICES ASSUME Doing("finish", copy, TRUE)'
                 PROVE  Runner!Persisted(theWorker, TRUE)
      OBVIOUS
    <2>1. [w \in {theWorker} |-> RunnerState]'
              = [[w \in {theWorker} |-> RunnerState] EXCEPT
                     ![theWorker].pc = "finish", ![theWorker].persisted = TRUE]
      BY DEF Doing
    <2> QED BY <2>1 DEF Runner!Persisted
  <1>3. Doing("fail", copy, FALSE)' => Runner!WorkerGoto(theWorker, "fail")
    BY DEF Doing, Runner!WorkerGoto
  <1> QED BY <1>1, <1>2, <1>3

\* mark_completed: it writes, is refused or raises, also after its commit.
LEMMA CompleteEnds ==
    ASSUME NEW copy, Doing("complete", copy, FALSE), UNCHANGED <<stored, Starts>>,
           \/ RowCompleted(copy) /\ Doing("finish", copy, TRUE)'
           \/ /\ Doing("fail", copy, FALSE)'
              /\ \/ RunnerRow.status # "running" /\ UNCHANGED RunnerRow
                 \/ "db" \in RunnerFaults /\ UNCHANGED RunnerRow
                 \/ "commit" \in RunnerFaults /\ RowCompleted(copy)
    PROVE  Runner!WorkerStep
  <1>1. UNCHANGED <<Runner!resourceVars, [j \in {theJob} |-> Starts]>>
    BY DEF Runner!resourceVars
  <1>2. RowCompleted(copy) => Runner!MarkCompleted(theJob, copy)
    BY RowMarked
  <1>3. RunnerRow.status # "running" /\ UNCHANGED RunnerRow
            => Runner!Rejects(theJob, Runner!CompletableFrom)
    BY DEF Runner!Rejects, Runner!CompletableFrom
  <1>4. Runner!Complete(theWorker)
    BY <1>1, <1>2, <1>3, CompleteTurns DEF Runner!Complete, Runner!Fault
  <1> QED BY <1>4, WorkerSteps DEF Runner!Run

\* The same with the result of a file that was written over.
LEMMA OverwrittenEnds ==
    ASSUME NEW copy, Doing("complete", copy, FALSE), UNCHANGED <<stored, Starts>>,
           InPlace, repeated # "not_sent", NEW heard \in Media, RowCompleted(heard),
           \/ Doing("finish", copy, TRUE)'
           \/ "commit" \in RunnerFaults /\ Doing("fail", copy, FALSE)'
    PROVE  CompletedOverwritten
  <1>1. Runner!MarkCompleted(theJob, heard)
    BY RowMarked
  <1> QED BY <1>1, CompleteTurns DEF CompletedOverwritten, Runner!Fault

\* _mark_failed_safely reports whether it persisted the failure.
LEMMA FailEnds ==
    ASSUME NEW copy, NEW persisted, Doing("fail", copy, FALSE),
           Doing("finish", copy, persisted)', UNCHANGED <<stored, Starts>>,
           \/ RowFailed /\ persisted = TRUE
           \/ /\ persisted = FALSE
              /\ \/ /\ RunnerRow.status \in {"completed", "failed"}
                    /\ UNCHANGED RunnerRow
                 \/ "db" \in RunnerFaults /\ UNCHANGED RunnerRow
                 \/ "commit" \in RunnerFaults /\ RowFailed
    PROVE  Runner!WorkerStep
  <1>1. Runner!WorkerAt(theWorker, "fail") /\ Runner!Task(theWorker) = theJob
    BY DEF Doing, Runner!WorkerAt, Runner!Task
  <1>2. UNCHANGED <<Runner!resourceVars, [j \in {theJob} |-> Starts]>>
    BY DEF Runner!resourceVars
  <1>3. Runner!Persisted(theWorker, persisted)
    <2>1. [w \in {theWorker} |-> RunnerState]'
              = [[w \in {theWorker} |-> RunnerState] EXCEPT
                     ![theWorker].pc = "finish", ![theWorker].persisted = persisted]
      BY DEF Doing
    <2> QED BY <2>1 DEF Runner!Persisted
  <1>4. RowFailed => Runner!MarkFailed(theJob)
    BY RowMarked
  <1>5. RunnerRow.status \in {"completed", "failed"} /\ UNCHANGED RunnerRow
            => Runner!Rejects(theJob, Runner!FailableFrom)
    BY DEF Runner!Rejects, Runner!FailableFrom
  <1>6. Runner!Fail(theWorker)
    BY <1>1, <1>2, <1>3, <1>4, <1>5 DEF Runner!Fail, Runner!Fault
  <1> QED BY <1>6, WorkerSteps DEF Runner!Run

\* The finally branch, after which the worker is free.
LEMMA FinishEnds ==
    ASSUME NEW copy, NEW persisted, Doing("finish", copy, persisted), Lost',
           persisted \in BOOLEAN, UNCHANGED <<RunnerRow, Starts>>,
           \/ persisted /\ stored' = None
           \/ ~persisted /\ stored' = stored
           \/ "delete" \in RunnerFaults /\ stored' = stored
    PROVE  Runner!WorkerStep
  <1>1. /\ Runner!WorkerAt(theWorker, "finish") /\ Runner!Task(theWorker) = theJob
        /\ [w \in {theWorker} |-> RunnerState][theWorker].persisted = persisted
    BY DEF Doing, Runner!WorkerAt, Runner!Task
  <1>2. Runner!Release(theWorker)
    BY DEF Lost, Runner!Release
  <1>3. stored' = None => Runner!DeletePrefix(theJob)
    BY DEF Runner!DeletePrefix
  <1>4. Runner!FinishRun(theWorker)
    BY <1>1, <1>2, <1>3 DEF Runner!FinishRun, Runner!Fault
  <1> QED BY <1>4, WorkerSteps DEF Runner!Run

\* A worker dies wherever it is.
LEMMA DeathEnds ==
    ASSUME NEW copy, NEW persisted,
           NEW pc \in {"resolve", "execute", "complete", "fail", "finish"},
           Doing(pc, copy, persisted), Lost', "worker" \in RunnerFaults,
           UNCHANGED <<RunnerRow, stored, Starts>>
    PROVE  Runner!WorkerStep
  <1>1. Runner!WorkerCrash(theWorker)
    BY DEF Doing, Lost, Runner!WorkerCrash, Runner!WorkerAt, Runner!Release,
           Runner!Fault, Runner!resourceVars
  <1> QED BY <1>1, WorkerSteps

-----------------------------------------------------------------------------
(* What the places and fields of a run are to its job.                       *)

\* A terminal state is persisted by the last steps only; a run that was
\* cancelled persisted none and only cleans up; a limit strikes where it may.
RunnerInv ==
    /\ run.persisted => run.pc \in {"cleanup", "delete", "done", "dead"}
    /\ run.outcome = "cancelled" =>
           /\ run.pc \in {"close", "cleanup", "delete", "done", "dead"}
           /\ ~run.persisted
    /\ run.late => Fault("deadline")

ViewInv == WorkerInv /\ RunnerInv

\* The content that counts as the worker's copy.
Copy == IF run.resolved THEN run.input ELSE None

\* What each place looks like from outside, before and after a step.
LEMMA Places ==
    /\ run.pc \in {"resolve", "download"} => RunnerPc = "resolve"
    /\ run.pc \in Executing => RunnerPc = "execute"
    /\ run.pc \in {"complete", "fail"} => RunnerPc = run.pc
    /\ run.pc \in {"cleanup", "delete"} /\ run.outcome # "cancelled"
           => RunnerPc = "finish"
    /\ run.pc \in {"cleanup", "delete"} /\ run.outcome = "cancelled"
           => RunnerPc = "idle"
    /\ run.pc \in {"done", "dead"} => RunnerPc = "idle"
  BY DEF RunnerPc

\* The same of the next state.
LEMMA PlacesAfter ==
    /\ run'.pc \in {"resolve", "download"} => RunnerPc' = "resolve"
    /\ run'.pc \in Executing => RunnerPc' = "execute"
    /\ run'.pc \in {"complete", "fail"} => RunnerPc' = run'.pc
    /\ run'.pc \in {"cleanup", "delete"} /\ run'.outcome # "cancelled"
           => RunnerPc' = "finish"
    /\ run'.pc \in {"cleanup", "delete"} /\ run'.outcome = "cancelled"
           => RunnerPc' = "idle"
    /\ run'.pc \in {"done", "dead"} => RunnerPc' = "idle"
  BY DEF RunnerPc

\* The worker's record says no more than that.
LEMMA Seen ==
    /\ RunnerPc = "idle" => Lost
    /\ RunnerPc # "idle" => Doing(RunnerPc, Copy, run.persisted)
    /\ RunnerPc' = "idle" => Lost'
    /\ RunnerPc' # "idle" => Doing(RunnerPc, Copy, run.persisted)'
  BY DEF RunnerState, Lost, Doing, Copy, Runner!IdleWorker

\* What does not move the worker.
LEMMA Unseen ==
    ASSUME RunnerPc' = RunnerPc,
           \/ RunnerPc = "idle"
           \/ run'.persisted = run.persisted /\ Copy' = Copy
    PROVE  UNCHANGED RunnerState
  BY DEF RunnerState, Copy

\* What does not touch the row.
LEMMA RowUnseen == ASSUME UNCHANGED <<status, output>> PROVE UNCHANGED RunnerRow
  BY DEF RunnerRow

\* A failure of this run is one that WorkerRunner allows.
LEMMA CausesKnown ==
    ASSUME ViewInv
    PROVE  /\ Fault("database") => {"db", "commit"} \subseteq RunnerFaults
           /\ Fault("storage") \/ Fault("disk") \/ Fault("deadline")
                  => "storage" \in RunnerFaults
           /\ Fault("storage") \/ Fault("deadline") => "delete" \in RunnerFaults
           /\ Fault("kill") \/ Fault("deadline") => "worker" \in RunnerFaults
  <1>1. job \in Jobs
    BY TypeFacts DEF ViewInv
  <1>2. \A f \in DOMAIN Causes : \A k \in Causes[f] : Fault(k) => f \in RunnerFaults
    BY <1>1 DEF RunnerFaults, Fault
  <1> QED BY <1>2 DEF Causes

\* A step of the run is one of the worker, of the other request, or hidden.
Follows ==
    \/ Runner!WorkerStep \/ OtherRequest \/ CompletedOverwritten
    \/ UNCHANGED runnerVars

\* A step inside of one call of the worker.
LEMMA HiddenFollows ==
    ASSUME UNCHANGED <<status, output, stored>>, RunnerPc' = RunnerPc,
           run'.resolved = run.resolved,
           \/ RunnerPc = "idle"
           \/ run'.persisted = run.persisted /\ Copy' = Copy
    PROVE  Follows
  BY Unseen, RowUnseen DEF Follows, runnerVars, Starts

\* What the steps of the run itself leave of the record, but for its end.
Passes ==
    /\ run'.resolved = run.resolved /\ run'.input = run.input
    /\ run'.persisted = run.persisted
    /\ run'.late => run.late \/ Fault("deadline")
    /\ UNCHANGED <<job, status, output>>

-----------------------------------------------------------------------------
(* Each step of the run follows.                                             *)

\* The nodes of the graphs are hidden in one call.
LEMMA GraphFollows == ASSUME ViewInv, GraphStep PROVE RunnerInv' /\ Follows
  <1>1. CASE Broken \/ Onward
    <2>1. /\ run.pc \in InDirectory \ {"close"} /\ run'.pc \in InDirectory
          /\ run'.outcome # "cancelled" /\ Passes /\ UNCHANGED stored
      BY <1>1 DEF Broken, Onward, Keeps, Passes, ViewInv, RunnerInv
    <2>2. RunnerInv'
      BY <2>1 DEF Passes, ViewInv, RunnerInv, Fault
    <2>3. Follows
      BY <2>1, Places, PlacesAfter, HiddenFollows DEF Passes, Copy
    <2> QED BY <2>2, <2>3
  <1>2. CASE Waits
    <2>1. RunnerInv'
      BY <1>2 DEF Waits, Keeps, ViewInv, RunnerInv, Fault
    <2>2. UNCHANGED <<RunnerPc, Copy>>
      BY <1>2 DEF Waits, RunnerPc, Copy
    <2>3. Follows
      BY <1>2, <2>2, HiddenFollows DEF Waits, Keeps
    <2> QED BY <2>1, <2>3
  <1> QED BY <1>1, <1>2, GraphGoes DEF ViewInv

\* In place the input is resolved at once, else by the download.
LEMMA ResolveFollows == ASSUME ViewInv, ResolveInput PROVE RunnerInv' /\ Follows
  <1>1. /\ run.pc = "resolve" /\ ~run.resolved /\ run.persisted = FALSE
        /\ run.outcome # "cancelled" /\ stored # None
        /\ UNCHANGED <<job, status, output, stored>>
    BY TypeFacts
       DEF ResolveInput, ViewInv, RunnerInv, WorkerInv, CourseInv, StoredInv, Run
  <1>2. RunnerPc = "resolve" /\ Doing("resolve", None, FALSE) /\ Starts = 0
    BY <1>1, Places, Seen DEF Copy, Starts
  <1>3. CASE InPlace /\ run' = [run EXCEPT !.pc = "prepare", !.resolved = TRUE,
                                           !.input = stored]
    <2>1. /\ run'.pc = "prepare" /\ run'.resolved /\ run'.input = stored
          /\ run'.persisted = FALSE /\ run'.late = run.late
          /\ run'.outcome = run.outcome
      BY <1>1, <1>3, TypeFacts DEF ViewInv, Run
    <2>2. RunnerInv'
      BY <1>1, <2>1 DEF ViewInv, RunnerInv, Fault
    <2>3. Doing("execute", stored, FALSE)' /\ Starts' = 1
      BY <1>1, <2>1, PlacesAfter, Seen DEF Copy, Starts, Doing
    <2>4. UNCHANGED <<RunnerRow, stored>>
      BY <1>1, RowUnseen
    <2> QED BY <1>1, <1>2, <2>2, <2>3, <2>4, ResolveStarts DEF Follows
  <1>4. CASE ~InPlace /\ run' = [run EXCEPT !.pc = "download", !.resolved = FALSE,
                                            !.input = stored]
    <2>1. /\ run'.pc = "download" /\ run'.resolved = run.resolved
          /\ run'.persisted = run.persisted /\ run'.late = run.late
          /\ run'.outcome = run.outcome
      BY <1>1, <1>4, TypeFacts DEF ViewInv, Run
    <2>2. RunnerInv'
      BY <1>1, <2>1 DEF ViewInv, RunnerInv, Fault
    <2> QED BY <1>1, <2>1, <2>2, Places, PlacesAfter, HiddenFollows DEF Copy
  <1>5. CASE (Fault("storage") \/ Fault("disk")) /\ RaiseOutside
    <2>1. /\ run'.pc = "fail" /\ ~run'.resolved
          /\ run'.persisted = FALSE /\ run'.late = run.late
          /\ run'.outcome = "error"
      BY <1>1, <1>5, TypeFacts DEF ViewInv, Run
    <2>2. RunnerInv'
      BY <1>1, <2>1 DEF ViewInv, RunnerInv, Fault
    <2>3. Doing("fail", None, FALSE)' /\ UNCHANGED Starts
      BY <1>1, <2>1, PlacesAfter, Seen DEF Copy, Starts, Doing
    <2>4. UNCHANGED <<RunnerRow, stored>> /\ "storage" \in RunnerFaults
      BY <1>1, <1>5, RowUnseen, CausesKnown
    <2> QED BY <1>2, <2>2, <2>3, <2>4, ResolveFails DEF Follows
  <1> QED BY <1>1, <1>3, <1>4, <1>5 DEF ResolveInput

\* A run whose input is not resolved fails.
LEMMA UnresolvedFollows ==
    ASSUME ViewInv, run.pc \in {"resolve", "download"}, run'.pc = "fail",
           run'.outcome = "error", Passes, UNCHANGED stored,
           Fault("storage") \/ Fault("disk") \/ Fault("deadline")
    PROVE  RunnerInv' /\ Follows
  <1>1. ~run.resolved /\ run.persisted = FALSE
    BY TypeFacts DEF ViewInv, RunnerInv, WorkerInv, CourseInv, Run
  <1>2. RunnerInv'
    BY <1>1 DEF Passes, ViewInv, RunnerInv, Fault
  <1>3. Doing("resolve", None, FALSE) /\ Doing("fail", None, FALSE)'
    BY <1>1, Places, PlacesAfter, Seen DEF Passes, Copy, Doing
  <1>4. UNCHANGED <<RunnerRow, stored, Starts>> /\ "storage" \in RunnerFaults
    BY RowUnseen, CausesKnown DEF Passes, Starts
  <1> QED BY <1>2, <1>3, <1>4, ResolveFails DEF Follows

\* The call of the workflows ends.
LEMMA ExecutedFollows ==
    ASSUME ViewInv, run.pc \in Executing, run'.pc \in {"complete", "fail"},
           run'.outcome # "cancelled", Passes, UNCHANGED stored
    PROVE  RunnerInv' /\ Follows
  <1>1. run.persisted = FALSE
    BY TypeFacts DEF ViewInv, RunnerInv, Run
  <1>2. RunnerInv'
    BY <1>1 DEF Passes, ViewInv, RunnerInv, Fault
  <1>3. Doing("execute", Copy, FALSE)
    BY <1>1, Places, Seen DEF Doing
  <1>4. /\ Copy' = Copy /\ RunnerPc' = run'.pc
        /\ RunnerState' = [pc |-> run'.pc, job |-> theJob, copy |-> Copy,
                           persisted |-> FALSE]
    BY <1>1, PlacesAfter, Seen DEF Passes, Copy, Doing
  <1>5. UNCHANGED <<RunnerRow, stored, Starts>>
    BY RowUnseen DEF Passes, Starts
  <1>6. Runner!WorkerStep
    BY <1>3, <1>4, <1>5, ExecuteEnds DEF Doing
  <1> QED BY <1>2, <1>6 DEF Follows

\* The run is lost to its job: killed, or cancelled and past what still runs.
LEMMA LostFollows ==
    ASSUME ViewInv, RunnerPc' = "idle", RunnerInv', Fault("kill") \/ Fault("deadline"),
           Passes, UNCHANGED stored
    PROVE  Follows
  <1>1. UNCHANGED <<RunnerRow, stored, Starts>> /\ "worker" \in RunnerFaults
    BY RowUnseen, CausesKnown DEF Passes, Starts
  <1>2. CASE RunnerPc = "idle"
    BY <1>2, HiddenFollows DEF Passes
  <1>3. CASE RunnerPc # "idle"
    <2>1. Doing(RunnerPc, Copy, run.persisted) /\ Lost'
      BY <1>3, Seen
    <2>2. RunnerPc \in {"resolve", "execute", "complete", "fail", "finish"}
      BY <1>3 DEF RunnerPc
    <2> QED BY <1>1, <2>1, <2>2, DeathEnds DEF Follows
  <1> QED BY <1>2, <1>3

LEMMA DownloadFollows == ASSUME ViewInv, DownloadInput PROVE RunnerInv' /\ Follows
  <1>1. /\ run.pc = "download" /\ ~run.resolved /\ run.persisted = FALSE
        /\ run.outcome # "cancelled" /\ stored # None
        /\ UNCHANGED <<job, status, output, stored>>
    BY TypeFacts
       DEF DownloadInput, ViewInv, RunnerInv, WorkerInv, CourseInv, StoredInv, Run
  <1>2. CASE run' = [run EXCEPT !.pc = "prepare", !.resolved = TRUE, !.input = stored]
    <2>1. /\ run'.pc = "prepare" /\ run'.resolved /\ run'.input = stored
          /\ run'.persisted = FALSE /\ run'.late = run.late
          /\ run'.outcome = run.outcome
      BY <1>1, <1>2, TypeFacts DEF ViewInv, Run
    <2>2. RunnerInv'
      BY <1>1, <2>1 DEF ViewInv, RunnerInv, Fault
    <2>3. Doing("resolve", None, FALSE) /\ Starts = 0
      BY <1>1, Places, Seen DEF Copy, Starts, Doing
    <2>4. Doing("execute", stored, FALSE)' /\ Starts' = 1
      BY <1>1, <2>1, PlacesAfter, Seen DEF Copy, Starts, Doing
    <2>5. UNCHANGED <<RunnerRow, stored>>
      BY <1>1, RowUnseen
    <2> QED BY <1>1, <2>2, <2>3, <2>4, <2>5, ResolveStarts DEF Follows
  <1>3. CASE Fault("storage") /\ (\/ RaiseOutside
                                  \/ run' = [run EXCEPT !.pc = "fail",
                                             !.outcome = "error", !.stuck = TRUE])
    <2>1. run'.pc = "fail" /\ run'.outcome = "error" /\ Passes
      BY <1>1, <1>3, TypeFacts DEF ViewInv, Run, Passes
    <2> QED BY <1>1, <1>3, <2>1, UnresolvedFollows
  <1> QED BY <1>2, <1>3 DEF DownloadInput

LEMMA PrepareFollows == ASSUME ViewInv, Prepare PROVE RunnerInv' /\ Follows
  <1>1. /\ run.pc = "prepare" /\ run.persisted = FALSE /\ run.outcome # "cancelled"
        /\ UNCHANGED <<job, status, output, stored>>
    BY TypeFacts DEF Prepare, ViewInv, RunnerInv, Run
  <1>2. CASE Goto("convert")
    <2>1. run'.pc = "convert" /\ run'.outcome = run.outcome /\ Passes
      BY <1>1, <1>2, TypeFacts DEF ViewInv, Run, Passes
    <2>2. RunnerInv'
      BY <1>1, <2>1 DEF ViewInv, RunnerInv, Passes, Fault
    <2> QED BY <1>1, <2>1, <2>2, Places, PlacesAfter, HiddenFollows DEF Copy, Passes
  <1>3. CASE RaiseOutside
    <2>1. run'.pc = "fail" /\ run'.outcome = "error" /\ Passes
      BY <1>1, <1>3, TypeFacts DEF ViewInv, Run, Passes
    <2> QED BY <1>1, <2>1, ExecutedFollows
  <1> QED BY <1>2, <1>3 DEF Prepare

LEMMA CloseFollows == ASSUME ViewInv, CloseDirectory PROVE RunnerInv' /\ Follows
  <1>1. /\ run.pc = "close" /\ run.outcome \in {"ok", "error", "cancelled"}
        /\ run.outcome = "cancelled" => Fault("deadline")
        /\ UNCHANGED <<job, status, output, stored>>
    BY TypeFacts DEF CloseDirectory, ViewInv, RunnerInv, WorkerInv, CourseInv, Run
  <1>2. CASE Goto(AfterClose(run.outcome))
    <2>1. /\ run'.pc = AfterClose(run.outcome) /\ run'.outcome = run.outcome /\ Passes
      BY <1>1, <1>2, TypeFacts DEF ViewInv, Run, Passes
    <2>2. CASE run.outcome = "cancelled"
      <3>1. run'.pc = "cleanup"
        BY <2>1, <2>2 DEF AfterClose
      <3>2. RunnerInv'
        BY <1>1, <2>1, <3>1 DEF ViewInv, RunnerInv, Passes, Fault
      <3> QED BY <1>1, <2>1, <2>2, <3>1, <3>2, PlacesAfter, LostFollows
    <2>3. CASE run.outcome # "cancelled"
      <3>1. run'.pc \in {"complete", "fail"}
        BY <1>1, <2>1, <2>3 DEF AfterClose
      <3> QED BY <1>1, <2>1, <2>3, <3>1, ExecutedFollows
    <2> QED BY <2>2, <2>3
  <1>3. CASE run' = [run EXCEPT !.pc = "fail", !.outcome = "error", !.stuck = TRUE]
    <2>1. run'.pc = "fail" /\ run'.outcome = "error" /\ Passes
      BY <1>1, <1>3, TypeFacts DEF ViewInv, Run, Passes
    <2> QED BY <1>1, <2>1, ExecutedFollows
  <1> QED BY <1>2, <1>3 DEF CloseDirectory

\* The row as the run fills it, and its updates.
Row(state, result) == [status |-> state, owner |-> None, run |-> None, input |-> None,
                       direct |-> FALSE, output |-> result]
Rows(state, result) == [status : {state}, owner : {None}, run : {None}, input : {None},
                        direct : {FALSE}, output : {result}]

\* A set of one row.
LEMMA RowsAre == ASSUME NEW state, NEW result, NEW r \in Rows(state, result)
                 PROVE  r = Row(state, result)
  BY DEF Row, Rows

\* The row after mark_failed, and after mark_completed.
RowFails(row, result) ==
    row = Row("running", result)
    => /\ row.status = "running"
       /\ [row EXCEPT !.status = "failed"] = Row("failed", result)
RowCompletes(row, result) ==
    row = Row("running", None)
    => /\ row.status = "running"
       /\ [row EXCEPT !.status = "completed", !.output = result]
              = Row("completed", result)

LEMMA RowUpdates ==
    ASSUME NEW row, NEW result
    PROVE  RowFails(row, result) /\ RowCompletes(row, result)
  <1>1. ASSUME row = Row("running", result)
        PROVE  /\ row.status = "running"
               /\ [row EXCEPT !.status = "failed"] = Row("failed", result)
    <2>1. row \in Rows("running", result)
      BY <1>1 DEF Row, Rows
    <2>2. [row EXCEPT !.status = "failed"] \in Rows("failed", result)
      BY <2>1 DEF Rows
    <2>3. row.status = "running"
      BY <2>1 DEF Rows
    <2> QED BY <2>2, <2>3, RowsAre
  <1>2. ASSUME row = Row("running", None)
        PROVE  /\ row.status = "running"
               /\ [row EXCEPT !.status = "completed", !.output = result]
                      = Row("completed", result)
    <2>1. row \in Rows("running", None)
      BY <1>2 DEF Row, Rows
    <2>2. [row EXCEPT !.status = "completed", !.output = result]
              \in Rows("completed", result)
      BY <2>1 DEF Rows
    <2>3. row.status = "running"
      BY <2>1 DEF Rows
    <2> QED BY <2>2, <2>3, RowsAre
  <1> QED BY <1>1, <1>2 DEF RowFails, RowCompletes

\* What mark_failed writes.
LEMMA FailedRow ==
    ASSUME status = "running", status' = "failed", output' = output
    PROVE  RowFailed
  <1> DEFINE result == IF output = None THEN None ELSE output.media
  <1>1. RunnerRow = Row("running", result) /\ RunnerRow' = Row("failed", result)
    BY DEF RunnerRow, Row
  <1>2. RowFails(RunnerRow, result)
    BY RowUpdates
  <1> QED BY <1>1, <1>2 DEF RowFails, RowFailed

LEMMA CompleteFollows == ASSUME ViewInv, Complete PROVE RunnerInv' /\ Follows
  <1>1. /\ run.pc = "complete" /\ run.persisted = FALSE /\ run.outcome # "cancelled"
        /\ run.resolved /\ output = None /\ UNCHANGED <<job, stored>>
    BY TypeFacts
       DEF Complete, ViewInv, RunnerInv, WorkerInv, CourseInv, RowInv, Run
  <1>2. /\ Result \in Output /\ Result # None /\ Result.media = run.heard
        /\ Quiet => run.heard = run.input
    BY <1>1, ResultFacts, OutputAssumption DEF ViewInv
  <1>3. Doing("complete", Copy, FALSE)
    BY <1>1, Places, Seen DEF Doing
  <1>4. ASSUME status = "running", status' = "completed", output' = Result
        PROVE  RowCompleted(run.heard)
    <2>1. RunnerRow = Row("running", None)
      BY <1>1, <1>4 DEF RunnerRow, Row
    <2>2. RunnerRow' = Row("completed", run.heard)
      BY <1>2, <1>4 DEF RunnerRow, Row
    <2>3. RowCompletes(RunnerRow, run.heard)
      BY RowUpdates
    <2> QED BY <2>1, <2>2, <2>3 DEF RowCompletes, RowCompleted
  <1>5. /\ run.heard \in Media
        /\ Quiet => Copy = run.heard
        /\ ~Quiet => InPlace /\ repeated # "not_sent"
    BY <1>1, <1>2 DEF Copy, Quiet, ViewInv, WorkerInv, SourceInv, Knows
  <1>6. CASE /\ status = "running" /\ status' = "completed" /\ output' = Result
             /\ Settle(TRUE)
    <2>1. /\ run'.pc = "cleanup" /\ run'.outcome = run.outcome /\ run'.persisted = TRUE
          /\ run'.resolved = run.resolved /\ run'.input = run.input
          /\ run'.late = run.late
      BY <1>1, <1>6, TypeFacts DEF ViewInv, Run, Settle
    <2>2. RunnerInv'
      BY <1>1, <2>1 DEF ViewInv, RunnerInv, Fault
    <2>3. /\ RunnerState' = [pc |-> "finish", job |-> theJob, copy |-> Copy,
                             persisted |-> TRUE]
          /\ UNCHANGED <<stored, Starts>>
      BY <1>1, <2>1, PlacesAfter, Seen DEF Doing, Copy, Starts
    <2>4. CASE Quiet
      BY <1>3, <1>4, <1>5, <1>6, <2>2, <2>3, <2>4, CompleteEnds DEF Follows, Doing
    <2>5. CASE ~Quiet
      BY <1>3, <1>4, <1>5, <1>6, <2>2, <2>3, <2>5, OverwrittenEnds
         DEF Follows, Doing
    <2> QED BY <2>4, <2>5
  <1>7. CASE /\ RaiseOutside
             /\ \/ /\ status = "running" /\ status' = "completed" /\ output' = Result
                   /\ Fault("database")
                \/ /\ status # "running" \/ Fault("database")
                   /\ UNCHANGED <<status, output>>
    <2>1. /\ run'.pc = "fail" /\ run'.outcome = "error" /\ run'.persisted = FALSE
          /\ run'.resolved = run.resolved /\ run'.input = run.input
          /\ run'.late = run.late
      BY <1>1, <1>7, TypeFacts DEF ViewInv, Run
    <2>2. RunnerInv'
      BY <1>1, <2>1 DEF ViewInv, RunnerInv, Fault
    <2>3. /\ RunnerState' = [pc |-> "fail", job |-> theJob, copy |-> Copy,
                             persisted |-> FALSE]
          /\ UNCHANGED <<stored, Starts>>
      BY <1>1, <2>1, PlacesAfter, Seen DEF Doing, Copy, Starts
    <2>4. CASE UNCHANGED <<status, output>>
      <3>1. UNCHANGED RunnerRow /\ RunnerRow.status = status
        BY <2>4, RowUnseen DEF RunnerRow
      <3>2. RunnerRow.status # "running" \/ "db" \in RunnerFaults
        BY <1>2, <1>7, <2>4, <3>1, CausesKnown
      <3> QED BY <1>3, <2>2, <2>3, <3>1, <3>2, CompleteEnds DEF Follows, Doing
    <2>5. CASE output' = Result /\ status = "running" /\ status' = "completed"
      <3>1. "commit" \in RunnerFaults
        BY <1>7, <2>5, CausesKnown
      <3>2. CASE Quiet
        BY <1>3, <1>4, <1>5, <2>2, <2>3, <2>5, <3>1, <3>2, CompleteEnds
           DEF Follows, Doing
      <3>3. CASE ~Quiet
        BY <1>3, <1>4, <1>5, <2>2, <2>3, <2>5, <3>1, <3>3, OverwrittenEnds
           DEF Follows, Doing
      <3> QED BY <3>2, <3>3
    <2> QED BY <1>7, <2>4, <2>5
  <1> QED BY <1>6, <1>7 DEF Complete

LEMMA FailFollows == ASSUME ViewInv, Fail PROVE RunnerInv' /\ Follows
  <1>1. /\ run.pc = "fail" /\ run.persisted = FALSE /\ run.outcome # "cancelled"
        /\ UNCHANGED <<job, stored, output>>
        /\ status \in {"running", "completed", "failed"}
    BY TypeFacts, RowTypes DEF Fail, ViewInv, RunnerInv, Run
  <1>2. Doing("fail", Copy, FALSE)
    BY <1>1, Places, Seen DEF Doing
  <1>3. ASSUME NEW persisted \in BOOLEAN, Settle(persisted)
        PROVE  /\ RunnerInv'
               /\ RunnerState' = [pc |-> "finish", job |-> theJob, copy |-> Copy,
                                  persisted |-> persisted]
               /\ UNCHANGED <<stored, Starts>>
    <2>1. /\ run'.pc = "cleanup" /\ run'.outcome = run.outcome
          /\ run'.persisted = persisted
          /\ run'.resolved = run.resolved /\ run'.input = run.input
          /\ run'.late = run.late
      BY <1>1, <1>3, TypeFacts DEF ViewInv, Run, Settle
    <2>2. RunnerInv'
      BY <1>1, <2>1 DEF ViewInv, RunnerInv, Fault
    <2> QED BY <1>1, <2>1, <2>2, PlacesAfter, Seen DEF Doing, Copy, Starts
  <1>4. RunnerRow.status = status
    BY DEF RunnerRow
  <1>5. status = "running" /\ status' = "failed" => RowFailed
    BY <1>1, FailedRow
  <1>6. status' = status => UNCHANGED RunnerRow
    BY <1>1, RowUnseen
  <1>7. Fault("database") => "db" \in RunnerFaults /\ "commit" \in RunnerFaults
    BY CausesKnown
  <1>8. CASE Settle(TRUE) /\ status = "running" /\ status' = "failed"
    <2>1. /\ RunnerState' = [pc |-> "finish", job |-> theJob, copy |-> Copy,
                             persisted |-> TRUE]
          /\ RunnerInv' /\ UNCHANGED <<stored, Starts>>
      BY <1>3, <1>8
    <2> QED BY <1>2, <1>5, <1>8, <2>1, FailEnds DEF Follows, Doing
  <1>9. CASE /\ Settle(FALSE)
             /\ \/ status = "running" /\ status' = "failed" /\ Fault("database")
                \/ (status # "running" \/ Fault("database")) /\ UNCHANGED status
    <2>1. /\ RunnerState' = [pc |-> "finish", job |-> theJob, copy |-> Copy,
                             persisted |-> FALSE]
          /\ RunnerInv' /\ UNCHANGED <<stored, Starts>>
      BY <1>3, <1>9
    <2>2. \/ RunnerRow.status \in {"completed", "failed"} /\ UNCHANGED RunnerRow
          \/ "db" \in RunnerFaults /\ UNCHANGED RunnerRow
          \/ "commit" \in RunnerFaults /\ RowFailed
      BY <1>1, <1>4, <1>5, <1>6, <1>7, <1>9
    <2> QED BY <1>2, <2>1, <2>2, FailEnds DEF Follows, Doing
  <1> QED BY <1>8, <1>9 DEF Fail

LEMMA CleanupFollows == ASSUME ViewInv, Cleanup PROVE RunnerInv' /\ Follows
  <1>1. /\ run.pc = "cleanup" /\ run'.pc = "delete" /\ run'.outcome = run.outcome
        /\ Passes /\ UNCHANGED stored
    BY TypeFacts DEF Cleanup, ViewInv, Run, Passes
  <1>2. RunnerInv'
    BY <1>1 DEF ViewInv, RunnerInv, Passes, Fault
  <1>3. RunnerPc' = RunnerPc
    BY <1>1, Places, PlacesAfter
  <1> QED BY <1>1, <1>2, <1>3, HiddenFollows DEF Passes, Copy

\* The last step of a run: the stored files go, or stay.
LEMMA LastFollows ==
    ASSUME ViewInv, run.pc = "delete", run'.pc = "done", run'.outcome = run.outcome,
           Passes,
           \/ stored' = IF run.persisted THEN None ELSE stored
           \/ UNCHANGED stored /\ (Fault("storage") \/ Fault("deadline"))
    PROVE  RunnerInv' /\ Follows
  <1>1. RunnerInv'
    BY DEF ViewInv, RunnerInv, Passes, Fault
  <1>2. UNCHANGED <<RunnerRow, Starts>>
    BY RowUnseen DEF Passes, Starts
  <1>3. CASE run.outcome = "cancelled"
    <2>1. RunnerPc = "idle" /\ RunnerPc' = "idle" /\ UNCHANGED stored
      BY <1>3, Places, PlacesAfter DEF ViewInv, RunnerInv
    <2> QED BY <1>1, <2>1, HiddenFollows DEF Passes
  <1>4. CASE run.outcome # "cancelled"
    <2>1. Doing("finish", Copy, run.persisted) /\ Lost' /\ run.persisted \in BOOLEAN
      BY <1>4, Places, PlacesAfter, Seen, TypeFacts DEF Doing, ViewInv, Run
    <2>2. Fault("storage") \/ Fault("deadline") => "delete" \in RunnerFaults
      BY CausesKnown
    <2> QED BY <1>1, <1>2, <2>1, <2>2, FinishEnds DEF Follows
  <1> QED BY <1>3, <1>4

LEMMA DeleteFollows == ASSUME ViewInv, DeleteFiles PROVE RunnerInv' /\ Follows
  <1>1. /\ run.pc = "delete" /\ run'.pc = "done" /\ run'.outcome = run.outcome
        /\ Passes
    BY TypeFacts DEF DeleteFiles, ViewInv, Run, Passes
  <1>2. \/ stored' = IF run.persisted THEN None ELSE stored
        \/ UNCHANGED stored /\ Fault("storage")
    BY DEF DeleteFiles
  <1> QED BY <1>1, <1>2, LastFollows

LEMMA CancelFollows == ASSUME ViewInv, CancelRun PROVE RunnerInv' /\ Follows
  <1>1. /\ run.persisted = FALSE /\ Fault("deadline")
        /\ run'.outcome = "cancelled" /\ Passes /\ UNCHANGED stored
        /\ \/ run.pc \in InDirectory \ {"close"} /\ run'.pc = "close"
           \/ run.pc \in {"complete", "fail"} /\ run'.pc = "cleanup"
    <2>1. Fault("deadline") /\ run.pc \in Awaiting /\ UNCHANGED <<jobRow, stored>>
      BY DEF CancelRun, Strikes
    <2>2. run.persisted = FALSE
      BY <2>1, TypeFacts DEF Awaiting, ViewInv, RunnerInv, Run
    <2>3. /\ run'.outcome = "cancelled" /\ run'.persisted = run.persisted
          /\ run'.resolved = run.resolved /\ run'.input = run.input
          /\ run'.pc = IF run.pc \in {"complete", "fail"} THEN "cleanup" ELSE "close"
      BY TypeFacts DEF CancelRun, ViewInv, Run
    <2> QED BY <2>1, <2>2, <2>3 DEF Awaiting, Passes
  <1>2. RunnerInv'
    BY <1>1 DEF ViewInv, RunnerInv, Passes, Fault
  <1>3. CASE run.pc \in InDirectory \ {"close"} /\ run'.pc = "close"
    <2>1. RunnerPc' = RunnerPc
      BY <1>3, Places, PlacesAfter
    <2> QED BY <1>1, <1>2, <2>1, HiddenFollows DEF Passes, Copy
  <1>4. CASE run'.pc = "cleanup"
    BY <1>1, <1>2, <1>4, PlacesAfter, LostFollows
  <1> QED BY <1>1, <1>3, <1>4

LEMMA InterruptFollows == ASSUME ViewInv, InterruptRun PROVE RunnerInv' /\ Follows
  <1>1. Fault("deadline") /\ UNCHANGED <<job, status, output, stored>>
    BY DEF InterruptRun, Strikes
  <1>2. /\ Passes
        /\ \/ /\ run.pc \in {"resolve", "download"}
              /\ run'.pc = "fail" /\ run'.outcome = "error"
           \/ /\ run.pc \in {"prepare", "close"}
              /\ run'.pc = "fail" /\ run'.outcome = "error"
           \/ /\ run.pc \in {"convert", "transcribe", "measure", "copy_input"}
              /\ run'.pc = "close" /\ run'.outcome = "error"
           \/ /\ run.pc = "cleanup" /\ run'.pc = "delete"
              /\ run'.outcome = run.outcome
           \/ /\ run.pc = "delete" /\ run'.pc = "done"
              /\ run'.outcome = run.outcome
    BY <1>1, TypeFacts DEF InterruptRun, ViewInv, Run, Passes
  <1>3. CASE /\ run.pc \in {"resolve", "download"}
             /\ run'.pc = "fail" /\ run'.outcome = "error"
    BY <1>1, <1>2, <1>3, UnresolvedFollows
  <1>4. CASE /\ run.pc \in {"prepare", "close"}
             /\ run'.pc = "fail" /\ run'.outcome = "error"
    BY <1>1, <1>2, <1>4, ExecutedFollows
  <1>5. CASE /\ run.pc \in {"convert", "transcribe", "measure", "copy_input"}
             /\ run'.pc = "close" /\ run'.outcome = "error"
    <2>1. RunnerInv'
      BY <1>2, <1>5 DEF ViewInv, RunnerInv, Passes, Fault
    <2>2. RunnerPc' = RunnerPc
      BY <1>5, Places, PlacesAfter
    <2> QED BY <1>1, <1>2, <2>1, <2>2, HiddenFollows DEF Passes, Copy
  <1>6. CASE run.pc = "cleanup" /\ run'.pc = "delete" /\ run'.outcome = run.outcome
    <2>1. RunnerInv'
      BY <1>2, <1>6 DEF ViewInv, RunnerInv, Passes, Fault
    <2>2. RunnerPc' = RunnerPc
      BY <1>6, Places, PlacesAfter
    <2> QED BY <1>1, <1>2, <2>1, <2>2, HiddenFollows DEF Passes, Copy
  <1>7. CASE run.pc = "delete" /\ run'.pc = "done" /\ run'.outcome = run.outcome
    BY <1>1, <1>2, <1>7, LastFollows
  <1> QED BY <1>2, <1>3, <1>4, <1>5, <1>6, <1>7

LEMMA KillFollows == ASSUME ViewInv, Kill PROVE RunnerInv' /\ Follows
  <1>1. /\ run'.pc = "dead" /\ run'.outcome = run.outcome /\ Passes
        /\ UNCHANGED stored /\ Fault("kill")
    BY TypeFacts DEF Kill, ViewInv, Run, Passes
  <1>2. RunnerInv'
    BY <1>1 DEF ViewInv, RunnerInv, Passes, Fault
  <1> QED BY <1>1, <1>2, PlacesAfter, LostFollows

LEMMA RepeatFollows ==
    ASSUME ViewInv, RepeatStores \/ RepeatFails PROVE RunnerInv' /\ Follows
  <1>1. UNCHANGED <<job, output, run>>
    BY DEF RepeatStores, RepeatFails
  <1>2. RunnerInv' /\ UNCHANGED <<RunnerState, Starts>>
    BY <1>1 DEF ViewInv, RunnerInv, Fault, RunnerState, RunnerPc, Starts
  <1>3. CASE RepeatStores
    <2>1. UNCHANGED RunnerRow /\ stored' \in Media
      BY <1>1, <1>3, RowUnseen DEF RepeatStores
    <2>2. Runner!SaveObject(theJob, stored')
      BY DEF Runner!SaveObject
    <2> QED BY <1>2, <2>1, <2>2 DEF OtherRequest, Follows
  <1>4. CASE RepeatFails /\ status = "running"
    <2>1. RowFailed /\ UNCHANGED stored
      BY <1>1, <1>4, FailedRow DEF RepeatFails
    <2> QED BY <1>2, <2>1, RowMarked DEF OtherRequest, Follows
  <1>5. CASE RepeatFails /\ status # "running"
    <2>1. UNCHANGED RunnerRow /\ UNCHANGED stored
      BY <1>1, <1>5, RowUnseen DEF RepeatFails
    <2> QED BY <1>2, <2>1 DEF Follows, runnerVars
  <1> QED BY <1>3, <1>4, <1>5

\* The first state and the step.
LEMMA ViewInit == ExecInit => ViewInv /\ JustClaimed
  <1> SUFFICES ASSUME ExecInit PROVE ViewInv /\ JustClaimed
    OBVIOUS
  <1>1. WorkerInv
    BY WorkerInvInit
  <1>2. RunnerInv
    BY DEF ExecInit, NewRun, RunnerInv
  <1>3. JustClaimed
    <2>1. /\ run.pc = "resolve" /\ run.resolved = FALSE /\ run.persisted = FALSE
          /\ status = "running" /\ stored \in Media
      BY DEF ExecInit, InputInit, NewRun
    <2>2. Doing("resolve", None, FALSE)
      BY <2>1, Places, Seen DEF Copy
    <2>3. RunnerRow.status = "running" /\ Starts = 0
      BY <2>1 DEF RunnerRow, Starts
    <2> QED BY <2>1, <2>2, <2>3 DEF JustClaimed, Doing
  <1> QED BY <1>1, <1>2, <1>3 DEF ViewInv

LEMMA ViewStep == ViewInv /\ [ExecNext]_execVars => ViewInv' /\ Follows
  <1> SUFFICES ASSUME ViewInv, [ExecNext]_execVars PROVE ViewInv' /\ Follows
    OBVIOUS
  <1>1. WorkerInv'
    BY WorkerInvStep DEF ViewInv
  <1>2. CASE RunStep
    BY <1>1, <1>2, GraphFollows, ResolveFollows, DownloadFollows, PrepareFollows,
       CloseFollows, CompleteFollows, FailFollows, CleanupFollows, DeleteFollows
       DEF RunStep, GraphStep, ViewInv
  <1>3. CASE UNCHANGED execVars
    <2>1. RunnerInv'
      BY <1>3 DEF ViewInv, RunnerInv, Fault
    <2>2. UNCHANGED <<RunnerPc, Copy>>
      BY <1>3 DEF RunnerPc, Copy
    <2> QED BY <1>1, <1>3, <2>1, <2>2, HiddenFollows DEF ViewInv
  <1> QED BY <1>1, <1>2, <1>3, CancelFollows, InterruptFollows, KillFollows,
             RepeatFollows
             DEF ExecNext, ViewInv

\* A run, seen from its job, is one of the worker that JobPipeline composes
\* with the requests.
THEOREM RunsImplementRunner == ExecSpec => ImplementsRunner
  <1>1. ViewInv /\ [ExecNext]_execVars
            => [Runner!WorkerStep \/ OtherRequest \/ CompletedOverwritten]_runnerVars
    BY ViewStep DEF Follows
  <1> QED BY <1>1, ViewInit, ViewStep, PTL DEF ExecSpec, ImplementsRunner
=============================================================================
