# Formal models of kyrgstudio

kyrgstudio takes a video, transcribes it and analyses or rewrites its sales copy
with language models. An HTTP API accepts the file, a Celery worker runs the
workflows, and a PostgreSQL table of jobs, an object storage and a broker queue
sit between them. These modules model the life of a job from the request that
creates it to the deletion of its input; one run of the worker in detail, with
its graphs, temporary files, tokens and time limits; the graph that adapts a
script; authentication over its tables; billing; the command-line client; and
the media editor. Paths below are relative to the repository's `src`; the
application lives in `src/app`, the library in `src/kyrg`, the client in
`src/cli`.

## 1. Inventory

| component | state | operations | talks to |
|---|---|---|---|
| job store, `store/jobs.py` | table `jobs`, `run_id` unique | `create_job`, `mark_uploaded`, `mark_running`, `mark_completed`, `mark_failed`, reads | database, one transaction per call |
| pipeline service, `pipeline/service.py` | one request's locals | `start_from_upload`, `prepare_presigned_upload`, `confirm_presigned_upload` | job store, storage, queue |
| worker, `worker/runner.py`, `tasks.py`, `celery_app.py` | one task's locals | `run` | job store, materializer, executor, storage |
| executor, `worker/workflows.py` | a temporary directory | `execute` | transcriber, analysis and adaptation graphs |
| materializer, `worker/materializer.py` | workspaces on the worker's disk | `resolve`, `cleanup` | storage |
| queue, `queue/celery.py` | broker messages | `enqueue` | worker |
| storage, `storage/*.py` | objects under `jobs/<id>/` | save, sign, inspect, read, delete prefix | - |
| job routes, `api/routers/jobs.py` | - | submit, prepare, confirm; list, status, result | pipeline service |
| authentication, `auth/service.py`, `transactional_store.py`, `password_reset.py`, `email_verification.py` | one request's locals | registration, verification, login, Google login, refresh, logout, reset | account tables, email |
| account tables, `store/users.py`, `password_resets.py`, `email_verifications.py` | users, refresh sessions, one-time tokens | inserts, conditional updates | database |
| billing store, `store/billing.py` | customers, subscriptions, webhook events | link, upsert, cancel, event bookkeeping | database; no route calls it yet |
| transcriber, copy analysis, `kyrg/workflows` | the graph's state of one run | nodes and two routes | FFmpeg, transcribers, model adapters |
| copy adaptation, `kyrg/workflows/copyadaptation` | the graph's state: sections, revisions, verdicts, retry counters, tokens | eight nodes, two routes | model adapters |
| workflow base, `kyrg/workflows/base.py`, `checkpointers.py` | checkpoint of a `thread_id` | `start`, `astart` | the graph, SQLite or PostgreSQL |
| model adapters, `kyrg/llms` | usage of the latest call | structured calls with bounded retries | remote services |
| transcribers, `kyrg/transcribers` | - | one call, the remote one with retries | remote services, a local model |
| media editor, `kyrg/editor` | files | some hundred FFmpeg commands | FFmpeg |
| command-line client, `cli` | session file, one process per command | login, logout, API calls with refresh | HTTP API |
| `frontend` | tokens of one user | presentation, refresh, polling | HTTP API |

What is hard here, and hard to test:

* two requests with one `Idempotency-Key`, two confirmations of one upload, two
  deliveries of one task, two refreshes with one token, a login during a reset,
  two webhooks for one subscription (interleaving, row locks, snapshots);
* a request that stops between two of its three commits: job row, `uploaded`,
  task message (partial failure, crash);
* an answer of the database, the broker or the server that is lost after the
  effect happened;
* a task acknowledged before it runs, on a worker that may die or meet its time
  limit at any of its awaits;
* the input deleted too early, replaced, or never deleted;
* a presigned URL that outlives the check of what it uploaded;
* answers of a model that are invalid, out of order or contradictory, in a graph
  that loops on them, fails in the middle and is started again;
* tokens that are charged in three places and added up in a fourth;
* a session file that several processes read and write.

`PROJECT.json` lists each of these at its line under "hazards", with the property
that covers it or the reason why none does.

What makes each component correct: the *job store* moves a row only along
pending, uploaded, running, completed/failed, and never twice for one cause; the
*service* puts a job in the queue after its upload is committed, once, and settles
what it could not finish; the *worker* runs a job once, on the file it was
submitted with, and removes what it made on every path; *authentication* keeps a
session family a chain with one usable end, and lets a one-time token work once;
*billing* applies an event once and as a whole; the *adaptation graph* delivers one
draft with the verdict that was given on it, after a bounded number of requests, and
a resumed run pays for no node twice; the *adapters* report the tokens of a call
once; the *client* never presents a token it knows to be used, and never leaves a
session it has logged out; the *editor* keeps sound and picture in step.

## 2. Modules

```
JobStore  <-  JobResources  <-  PipelineService  <-+
                            <-  WorkerRunner     <-+- JobPipeline  <- MCJobPipeline
JobLifecycle (abstract)  . . . . INSTANCE . . . .  .     ^
            JobPipelineProofs <- JobExecutionProofs

                  +-  CopyAdaptation  <-  CopyAdaptationProofs
StructuredCall  <-+
                  +-  WorkflowExecutor  <-  WorkerRun  <-  RunToRunner
InputMaterializer  <--+                                      ^
                                            WorkerRunProofs, MCWorkerRun
WorkerRunner  . . . . . . . INSTANCE . . . . . . . . . RunToRunner

AuthStore  <-  AuthService  <-  AuthGuarantees  <-  AuthServiceProofs, MCAuthService
TokenFamilies (abstract)  . INSTANCE .  .
TokenFamilies  . . . . . .  INSTANCE . . . . .  CliSession  <-  CliSessionProofs

BillingStore  <-  BillingStoreProofs, MCBillingStore
BillingEvents (abstract)  . INSTANCE .  .

MediaCommands  <-  MediaEditor  <-  MediaEditorProofs, MCMediaEditor
```

**JobStore** is the table. `InsertRow` is `create_job`'s INSERT, `IsExistingRun`
the row it looks up after a unique violation. The four `Mark...` operators are the
`UPDATE ... WHERE status IN (...) RETURNING id` of `_transition_job`, and
`Rejects` is the case in which the UPDATE matches no row and the code raises
`JobStoreError`. PostgreSQL evaluates the WHERE against the committed row under a
row lock, so one such transaction is one atomic step. A row keeps the columns
that guards and results depend on; timestamps, `current_step`, `error_json` and
the file reference (a function of the job id) are left out.

**JobResources** adds the storage, the presigned URLs and the broker queue, and the
constant `Faults` with the failures a configuration admits:

| fault | meaning | where the code sees it |
|---|---|---|
| `db` | a statement fails, nothing is committed | `JobStoreError` or `StoreError` |
| `commit` | the commit takes effect, its answer is lost | `StoreError` of `async_transaction_scope` |
| `queue`, `publish` | `delay` raises before, or after, the broker took the task | `CeleryQueue.enqueue` |
| `storage` | saving, signing, inspecting or reading fails (a failed save may have stored the object) | `StorageError` |
| `delete` | `delete_prefix` fails | swallowed by the runner |
| `workflow` | the workflows, or the soft time limit, raise | `except Exception` of `run` |
| `redeliver` | the acknowledgement is lost | a second delivery |
| `api`, `worker` | a process dies (or a request is cancelled; the hard time limit) | - |
| `late_put` | a presigned URL is used again | not seen |

**PipelineService** is one process per HTTP request. A request is suspended at each
call to the store, the storage or the queue, so `pc` names the call it makes next:
`save`, `mark`, `enqueue` for a multipart submission (`_start`); `url` for
preparing a presigned upload; `check`, `mark`, `reread`, `enqueue` for confirming
it; `fail` for `_mark_failed_safely`. Everything between two calls is in one
action with the call before it. `created` is a history bit: did this request
insert the row or find it. `ClientPut` is the browser, `ApiCrash` the death of the
process or the cancellation of the request.

**WorkerRunner** is one process per Celery worker, suspended likewise: `load`
(`get_job` and `_ensure_job_is_uploaded`), `claim` (`mark_running`, outside the
`try`), `resolve`, `execute`, `complete`, `fail` (the `except` branch), `finish`
(the `finally` branch). `persisted` is `terminal_state_persisted`. `Receive` takes
the message off the queue before the task runs, as `task_acks_late=False` says.
`executions` counts how often the workflows were started for a job.

**JobPipeline** composes them. Each step is one step of one request, one worker or
one browser. It states the properties.

**JobLifecycle** is what a job promises without mentioning requests, workers, queue
or storage: the order of the states, at most one start, a result only after a
start, and no change of a finished job. `JobPipeline` implements it under the
mapping `state` = status column, `starts` = `executions`, `outcome` = `output`.

**StructuredCall** is `LLMBase.structured` (and its async twin) with what a provider
adapter does in one attempt. A call is at attempt `attempt + 1`; its answer is valid
(`ValidAnswer`), invalid with an attempt left (`AskAgain`), invalid for the last time
(`GiveUp`, a `StructuredOutputError`), or the SDK fails (`ProviderError`, not
retried). `usage` is an adapter's `_input_tokens + _output_tokens`, which `AddToken`
overwrites. `LLM` chooses the provider, and `Reads` says what its adapter makes of each
kind of reply: the OpenAI SDK (also used for OpenRouter) raises its ValidationError
before the adapter has seen the usage, Google's and LangChain's hand the raw answer
over with it. A valid answer carries its usage unless `UsageReported` is false.
`charged` and `calls` are history: tokens charged for the call in progress, requests
sent.

**CopyAdaptation** is the graph of `copyadaptation/workflow.py`. `st` is
`CopyAdaptationState` with the node to run next; a node's action waits for its model
call and then merges its update, so `CallRepeats` and `CallFails` come between nodes.
`Resolve` is `_resolve_final_sections`, used by the validator, the corrections and
the output. `MissingInput` is `require_value` and `require_non_empty`: no target
language, an answer without sections, a reviewer that disapproves without
instructions, a validator that rejects without errors. `Start` is
`WorkflowBase.start`: it continues from what the saver holds for the thread
(`checkpoint`) and otherwise from the initial state. `Checkpointer` is `none` (the
worker's choice), `memory` (a new `WorkflowMemorySaver` for each start) or `durable`
(SQLite, PostgreSQL). `judged` is history, the sections the validator last saw, and
`st.charged` what the completed nodes were charged.

**InputMaterializer** is `resolve` and `cleanup`: local storage is read in place, a
remote object is copied into a workspace that the materializer owns. `job` is the job
of this behaviour, chosen from `Jobs`, with the faults its surroundings may show.

**WorkflowExecutor** is `KyrgWorkflowExecutor.execute` with the transcriber and copy
analysis graphs, one action per node: the conversion, the transcription by the job's
provider (`OpenRouterRequest` with its bounded retries, `OpenAIRequest`,
`WhisperRun`), the duration limit, correction, and the three questions of the
analysis, each a structured call of `StructuredCall`. `audio` is the executor's
temporary directory; `run.tokens` are what the stages' final states report. The
adaptation graph is the one step `Adapt` here.

**WorkerRun** completes it with the end of `WorkerRunner.run` (`Complete`, `Fail`,
`Cleanup`, `DeleteFiles`) and what interrupts it: the soft time limit, which Celery
raises in the worker's main thread and which therefore cancels the run when it awaits
(`CancelRun`) and is an exception of the run's own code elsewhere (`InterruptRun`); the
hard limit or a dead machine (`Kill`); a client that repeats its submission with
another file (`RepeatStores`, `RepeatFails`).

**RunToRunner** connects the two views of the worker, whose product is too large for
TLC: the job of a run sees only steps of WorkerRunner after its claim. `RunnerPc` makes
the temporary directory and the graphs one call, `execute`; a run that was cancelled
(`worker_late`) and has left the directory does no more for its job than a dead worker.
`Causes` lists what produces each failure of WorkerRunner here, so that a job without a
failing disk or storage, say, cannot fail to resolve. What other requests do meanwhile
is `OtherRequest`: `mark_failed`, or another file under the same key. One step is
excepted, `CompletedOverwritten`: local storage is read in place, so a repeated
submission can change the file under the tools, while WorkerRunner's workers copy their
input when they resolve it.

**AuthStore** is the tables and what each statement does to them; a row, and a
password, is named after the request that makes it. **AuthService** has one process
for each HTTP request. A request takes one step for each transaction; a transaction
whose statement waits for a row lock, or whose snapshot misses a row that another one
inserts, takes two (`LockSession`/`Rotate`, `StartRevoke`/`EndRevoke`,
`Consume`/`CommitReset`, `StartReplace`/`EndReplace`): `targets` is what the statement
found before it waited, and `LockedSessions`, `LockedResets`, `LockedUsers` are the
locks that are held between two steps. `barred` is history: the accounts that were
disabled when the request arrived. `Environment` expires and disables rows.
**AuthGuarantees** states the properties, and **TokenFamilies** what refresh tokens
promise to a client: families that are started, renewed and ended. The client is
checked against TokenFamilies, and the service is proved to implement it.

**BillingEvents** promises that an event takes effect at most once, as a whole, and
that a customer belongs to one user. **BillingStore** is one transaction per delivery
of an event, `record_billing_event` first and the commit last, one step for each
statement, in READ COMMITTED: a statement sees the tables and its own writes
(`tx[d].writes`) and waits for an open transaction that wrote the same row or unique
value (`CustomerHeld`, `SubHeld`). The webhook handler that calls the store is not in
the repository yet and is external. The conflict that finds "a different
subscription" needs a second unique column, which the current schema does not have.

**CliSession** is one process per command. It loads the session file once, sends its
request, refreshes once when the server refuses its access token, saves what it was
given and clears what was refused. A command, the tokens issued to it and the family
of its login have one number. `alone` and `smooth` are history: did the command
overlap another one, and did anything go wrong. The server may also keep a new token
of a rotation that raced a revocation, as RevocationIsComplete allows.

**MediaCommands** describes each FFmpeg command the editor builds by what decides
lengths, streams and frame sizes (seeks, limits, filters, joins, codecs), and
`EditorCommands` is every one of them with every argument out of `Ticks`, `Speeds` and
`Sides`. **MediaEditor** runs chains of them: each caller's operation reads the file its
last one wrote. A run ends with status `ok`, is refused for one of `Refusals`, or is
killed. `motion` is the transforms file of the two-step stabilization, which callers
share when they name none. FFmpeg is external: `Opened`, `Filtered`, `Joined` and
`Written` are what it does with such arguments.

### Abstractions

* `Contents` stands for the pipeline input together with the file. Two requests
  have the same fingerprint, and an object passes the size and type check, when
  the contents are equal. Two different files of equal size and type are not
  told apart by the code, and not by the model.
* A job has one object: `job_input_key` depends on the job and the suffix, and one
  suffix per job is modelled. The comparisons of `input_file_key` in
  `confirm_presigned_upload` then always succeed.
* Validation that fails before `create_job` changes nothing and is left out.
* A request that carries no key is `None` in `RunIds \cup {None}`.
* Reads for the client (list, status, result) change nothing and are left out.
* The local copy of the input is private to the worker; its deletion is part of
  leaving the run.
* A section's text is the draft it belongs to, its place in the answer and its author,
  the writer or the reviewer; its other fields follow it. `draft` numbers the writer's
  answers, and `notes` is the draft that `missing_proofs` and `adaptation_notes` came
  with.
* `flow_issues` and `revision_instructions` count together: only whether both are
  non-empty decides what happens. So does `validation_errors`.
* `desired_duration` is a required field of the profile, so the check for it when the
  output is built never fails. Word counts, timing metrics and the two snapshots of
  sections around a correction are never read by a guard and are left out.
* LangGraph is external. A node's update and its checkpoint are one step (`Commit`):
  the death of the process between the two is not modelled. Its recursion limit,
  above the steps of the worker's `max_retry = 1`, is left out; starting a finished
  thread again, which returns the stored state, is too.
* One thread is started one run at a time, with one input.

* Each account, session and one-time token carries only what a guard reads: times are
  the actions of `Environment` that expire a row, hashes are the password they are of,
  an access token is the session it was issued with. `disabled_at` is set by an
  operator; nothing in the application does. A statement that updates several rows
  locks them at once: two of them that lock in different orders, which PostgreSQL
  resolves by failing one, are a `fail` of either.
* The deletion of expired rows (`delete_expired_*`) has no caller and is left out.
* A transcript is blank or not, and remembers the file it was heard from. Video and
  audio nodes of the transcriber convert alike and are one action. The synchronous
  twins of nodes and adapters do the same as the asynchronous ones, which production
  runs. The ElevenLabs transcriber cannot be chosen by the application.
* A Stripe event says which customer it links and what it does to one subscription.
  Payload validation is left out.
* A length in the editor is a number of ticks, a size a pair of small numbers; gains,
  colours, texts, bit rates and subtitle streams are left out. The editor validates no
  argument; the callers modelled give times and counts that are natural, and speeds,
  widths and heights that are positive.
* The output path is the caller's, and FFmpeg takes the format from it. An audio command
  is therefore there twice (`OnPath`): written to the path of a sound, and to that of a
  video, where a command that gives neither `-vn` nor `-map` keeps the picture. The two
  mixes without `-map`, `MixAudios` and `CrossFadeAudios`, get the largest picture of
  their inputs (`Picture`). The commands of `editor/video` write a video, an image, a
  GIF or nothing, as their documentation says; a sound's path is left out for them.

## 3. Runs

`CHECK_DEADLOCK FALSE` everywhere: a run, a chain of edits, an adaptation ends, and
the bounds on requests, commands and deliveries are used up. Jobs, requests and workers
are symmetric where no liveness is checked.

| run | instance | states | shows |
|---|---|---|---|
| `submit` | 2 requests, 2 users, 2 jobs, 2 workers, multipart or direct, one key or none, all faults | 624 000 | single execution, queued after commit, input available, keys isolated, terminal rows final, refinement of JobLifecycle |
| `direct` | 3 requests, 2 users, 1 job, 1 worker, 2 contents, API faults, each URL used once | 9 300 | one publication per job, a result comes from the declared file |
| `progress` | 3 requests of each kind, 1 job, one key or none, queue, storage and workflow failures, fair | 52 000 | an accepted job finishes; a failed submission settles its job; the input of an executed job goes unless a request failed |
| `replay` | 2 submissions with one key, no fault | violation | a repeated submission fails the existing job |
| `adapt` | answers of up to 2 sections over 2 orders, 2 attempts, 2 starts, durable checkpoint, 1 correction of each kind, fair | 116 000 | one draft, judged as delivered, merged as reviewed; budget spent before a rejected delivery; completed nodes kept; requests bounded; every run ends |
| `worker_run` | 18 kinds of job (backend, pipeline, correction, limit, transcriber, faults), 3 files, 2 attempts, fair | 172 000 | one file per run, nothing left behind, open jobs excused, tokens exact, refinement of WorkerRunner, the run ends |
| `worker_late` | one run, the soft limit strikes once | violation | the job stays running |
| `auth` | 5 scenarios of 3 or 4 requests, 1 or 2 accounts, fair | 523 000 | one-time tokens, disabled and unverified accounts, complete revocation, refinement of TokenFamilies, every request ends |
| `auth_rehash` | login, forgotten password, reset | violation | the login writes the old password back |
| `editor` | every command followed by every other, audio commands to a sound or a video, 4 files, 2 times, 2 speeds, 2 sides; a second caller that stabilizes one video | 103 000 | sound and picture in step, own motion, computed sizes encode |
| `billing` | 3 deliveries of 5 events, 2 users, 2 subscriptions, all faults, fair | 49 000 | answered is applied, refinement of BillingEvents, every delivery ends |
| `cli` | 4 commands, 2 at a time, all faults | 1 490 000 | logout is final, the saved session is usable, a dead session goes |

Why these bounds. A race for a row needs two actors, and the third request of the
direct upload is the one that prepares it. Two workers suffice for a double
claim: whoever comes third meets the same row as the second. Two jobs tell a
property of one row from one of the table (`KeysIsolate`) and let a worker be busy
while another job waits. Two contents tell the declared file from any other. The
safety properties proved below hold for every number of each.

Two sections over two orders give duplicates, gaps and unsorted answers, and a
revision that meets a duplicate, a known order or a new one; nothing in the merge
looks at more than one revision and the sections of its order at a time. (An
instance with three sections, 5.4 million states, holds too and is too slow to
keep.) One correction of each kind is the worker's `max_retry`, and enough for a draft
to have a predecessor and for an uncounted loop to return to itself. Two starts are a
failed run and its resumption, two attempts an invalid answer and its repetition.
`CallCap` (60) lies above every count `CallsBounded` allows there
(`2 * (8 + 2) = 20`), so the cap hides nothing; where it is 0 requests are not
counted.

`worker_run` bounds what a job meets by the list `RunJobs`: each backend, pipeline and
transcriber occurs, and each fault with each place where it can strike; faults that
could excuse one another's effects (a dead worker and a failing disk, say) are not put
into one job. The media are one of exactly the limit, one a second longer, one silent.
`auth` likewise fixes one of five kinds of client per behaviour: refreshing and logging
out, resetting while signed in, new accounts, competing registrations, and disabled
accounts; a race of three transactions about one row occurs in each. Five events of
`billing` hold a start, a change and an end of one subscription and two claims on one
customer; the third delivery is a repetition that meets two others. Four commands of
`cli` are a login, two that race, and one that comes after them. Two operations of
`editor` are a file made by one command read by any other; its second caller matters by
the transforms file it shares, so it begins with one video. Its times, 1 and 3, add up to
the lengths of sources, at which a crossfade just ends, and do not divide them; a side
of 17 is odd and larger than the sources' sides, a side of 6 even and smaller.

`CleanedUnlessRequestFailed` makes an exception for jobs of a request that reported an
error, because of the first finding: such a request can fail the job while a worker
runs it, and then nobody deletes the input, since the worker deletes stored files only
if it persisted a terminal state itself. `progress` has no `delete` fault, since the
runner swallows that error and tries only once, and no `late_put`, since a PUT after the
cleanup stores an object that nothing deletes. It has no database failure or crash
either, because the code does not recover from them: a worker that dies leaves a
`running` job, an API that dies leaves a `pending` or `uploaded` one, and a failing
`mark_failed` is swallowed. `direct` has no `late_put` because nothing looks at the
object again after the confirmation; the theorems cover late PUTs for the other
properties. `OneFilePerRun` excepts a repeated submission on local storage, whose file
is read in place by two tools one after the other.

### Fairness

`FairSpec` gives weak fairness to each request that has begun (`Proceed`) and to
each worker (`Run`). A coroutine that awaits a database, storage or broker call is
resumed when the call returns, and every such call has a timeout; a Celery worker
polls its queue and runs what it takes, under a hard time limit. Clients owe
nothing: no fairness for new requests, for the browser's PUT, for crashes.

`Spec` of CopyAdaptation is weakly fair to `Work`, the steps of a started run: a
provider's SDK answers or times out, and LangGraph runs the next node. Nothing is
assumed about what a model answers, and nothing obliges a caller to start again.
`FairExecSpec` is weakly fair to `RunStep`, the run's own steps, on the same grounds;
limits need not strike. `FairAuthSpec` is weakly fair to each request (`Proceed`) and
`FairBillingSpec` to each delivery (`Handle`): a statement that waits for a lock goes on
when the lock is free, and a coroutine when its statement returns. Weak fairness is
enough because a lock once free is wanted by a request that can always take it or find
its row changed. Nothing obliges anybody to send a request, and nothing has to expire.

### Findings

1. `replay`: `_start` treats every error alike and fails the job of the first,
   successful attempt (`service.py:316`), where `store/README.md:604` promises the
   existing job or a controlled idempotency error.
2. `auth_rehash`: `login_with_password` verifies the stored hash in one transaction and
   writes its rehash in another without comparing (`auth/service.py:233`); a reset that
   commits between the two is undone, where `password_reset.py:156` speaks of replacing
   the password atomically.
3. `worker_late`: the soft time limit cancels a run that awaits, `CancelledError` is no
   `Exception`, and the job stays running (`runner.py:126`), where the runner "persists
   the final state" (`runner.py:7`) and `worker/README.md:351` wants the job failed.

Seen while modelling, without a run of their own:

* A confirmation repeated after the worker claimed the job is refused, since the
  reread accepts the status `uploaded` only (`service.py:253`), where the comment at 245
  rules out a false failure.
* `_add_token` keeps the tokens of the last attempt; those of invalid answers are lost
  (`llms/base.py:264`), and `MemoryCheckpointer` hands out an empty saver for each start
  (`checkpointers.py:15`). A merge without revisions leaves the sections unsorted
  (`_utils.py:251`).
* The store has nothing to order webhooks by: an older subscription event overwrites a
  newer one.
* Editor: `TrimVideo` puts `-ss` before the input, so that its end time acts as a
  duration; `CrossFadeVideos` has a default offset that keeps sound and picture in step
  only when the first clip has 5 seconds; overlays and stacks with a longer second video
  outlast the sound; `TrimAudio`, `DelayAudio`, `PadAudio`, `ChangeAudioSpeed`,
  `RemoveSilence` and `AddEcho`, written to a video, keep its whole picture beside the
  changed sound, as `MixAudios` and `CrossFadeAudios` do beside a sound of another
  length (no document says what they write but a sound, so `OneSided` names them and
  `InStep` excepts them); `ConvertVideoToGif` may compute an odd height (GIF takes it,
  an H.264 command that reads it does not); the default transforms file of
  the stabilization is shared by all callers in a directory; `ExtractFrame` past the end writes nothing.
* The OpenAI transcriber catches `requests.RequestException` while it uses httpx.

Every property of a passing run has a mutant in `PROJECT.json`: a plausible wrong
version of one mapped definition (defined next to it, marked "Mutant") under which
TLC finds the property violated.

## 4. Proofs

Eight modules hold theorems that TLAPS checks, each with no assumption but those on the
constants that the modules state: the constants that name kinds (`Faults`, `Ops`,
`Kinds`, `LLM`, `Scenarios`, the effects of an event, the fields of a job) take the
values the code knows; bounds, orders, charges and durations are natural numbers;
`MaxAttempts` is positive; `None` is none of the values it is told from; a caller of the
editor gives natural times and counts, positive speeds and sides, and files that have
lengths and sizes. So they hold for every number of jobs, requests, workers, users,
keys, contents, accounts, tokens, events, commands, sections, attempts and corrections,
every length and size of a video, and every choice of faults.

| theorem | property |
|---|---|
| `TypeCorrect` | `TypeOK` of JobPipeline |
| `TerminalStaysFinal` | `TerminalIsFinal` |
| `KeysStayIsolated` | `KeysIsolate` |
| `PublishedOnceAfterCommit`, `QueuedOnlyAfterCommit` | `PublishedOnce`, `QueuedAfterCommit` |
| `OneExecutionPerJob` | `SingleExecution` |
| `PurgeIsLast` | `PurgeOnlyFinished` |
| `InputStaysAvailable` | `InputAvailable` |
| `FailedSubmissionsSettle` | `FailedSubmissionSettled`, if no statement fails (`db`) |
| `ResultIsOfDeclaredFile` | `OutputMatchesInput`, if all uploads are direct and no URL is used late |
| `PipelineImplementsLifecycle` | `ImplementsLifecycle` |
| `ExecTypesHold` | `ExecTypeOK` of WorkerRun |
| `CompletedFromOneFile` | `OneFilePerRun` |
| `RunsTidyUp` | `NothingLeftBehind` |
| `OpenJobsExcused` | `OpenJobIsExcused` |
| `UsageAddsUp` | `UsageIsExact`, if answers carry their usage |
| `RunsImplementRunner` | `ImplementsRunner` |
| `AdaptationTypeCorrect` | `TypeOK` of CopyAdaptation |
| `OneDraftDelivered` | `OneDraft` |
| `ReviewMerged` | `MergedAsReviewed` |
| `VerdictMatches` | `VerdictIsAboutScript` |
| `BudgetSpentOnRejection` | `RejectedOnlyWhenSpent` |
| `TokensAtMostCharged` | `TokensNotInflated` |
| `RequestsBounded` | `CallsBounded` |
| `ResumesWhereItFailed` | `NothingRedone`, for a durable checkpointer |
| `AuthTypesHold` | `AuthTypeOK` of AuthGuarantees |
| `FamiliesAreChains` | `FamilyIsChain` |
| `OneTimeTokens` | `TokensWorkOnce` |
| `DisabledStayOut` | `DisabledGetsNoTokens` |
| `OnlyVerifiedSignIn` | `SignedInIsVerified` |
| `RevocationsComplete` | `RevocationIsComplete` |
| `SessionsImplementFamilies` | `ImplementsFamilies` |
| `BillingInvHolds` | types, locks and ledger of BillingStore |
| `AnsweredIsAppliedAlways` | `AnsweredIsApplied` |
| `BillingImplementsEvents` | `ImplementsEvents` |
| `CliTypesHold` | `CliTypeOK` |
| `LogoutStaysFinal` | `LogoutIsFinal` |
| `CalmSessionUsable` | `SavedSessionUsable` |
| `DeadSessionsGo` | `DeadSessionGoes` |
| `EditTypes` | `EditTypeOK` of MediaEditorProofs |
| `ChainsInStep` | `InStep` |
| `TransformsOwned` | `OwnMotion` |
| `SizesEncode` | `ComputedSizesEncode` |

Nearly all of them follow one plan. *Effect lemmas* say what each operation does to one row,
request, worker or command, and that it leaves the others alone; they reduce the many
actions to a few shapes. An inductive invariant, with one part for each question, is
shown to be kept by each shape. Its parts explain why the property is true:

### Pipeline (JobPipelineProofs, JobExecutionProofs)

`TypeInv` adds to `TypeOK` which fields a process has set at the point where it uses
them. `ServiceRowsStep` and `WorkerRowsStep` reduce each step to the one store operation
it runs, from which `RowsMonotone` and `StatusStep` read off how a row may change;
`TerminalIsFinal` and the uniqueness half of `KeysIsolate` follow. The other half needs
`OwnerInv`: the row a request holds exists, because only an absent row can be inserted
over, and nothing else changes a row's owner or upload; an absent row carries no key, so
a key never finds one.

`PublishInv` strengthens `PublishedOnce`: a request at `enqueue` is the only one there
for its job, nothing was published for that job yet, and its upload is committed. It
holds because only the winner of `mark_uploaded`, which needs a `pending` row, gets to
`enqueue`, and no operation makes a row pending again.

`ExecInv` strengthens `SingleExecution` with where a claimed worker stands: its job is
at least running, its workflows have not started at `resolve` and have at `execute` and
`complete`, and at `finish` with `persisted` the job is terminal. The claim needs an
`uploaded` row, so no other worker holds the job and nothing was started for it.

`StorageInv` adds that a request about to mark a pending row has its file stored, and
that every existing row carries an input, which makes the comparison in `CheckObject` a
proof of existence. With the last clause of `ExecInv` it gives `InputAvailable`.

The refinement maps each store operation to the abstract action of its name and
everything else to a stutter, except `Resolve`, which starts the workflows.

### Outcomes (JobExecutionProofs)

`SettledInv`: a submission that stopped with an error has a failed row, or one another
request has taken further; on the way there it stands at `fail`. If the database answers
every statement, `mark_failed` finds the row. `FilesInv` follows a content from the
declaration to the result: at `mark` the object of a pending row is the declared one, so
is that of uploaded and running rows, and the copy of a worker is the object it was read
from. Only a browser changes an object (`ObjectMoves`), and a URL that is used once is
used up by then.

### One run (WorkerRunProofs)

The places of the run are sets that contain one another: inside the temporary directory,
after the transcription, after the measurement, after the limit. `CourseInv` says what
holds of the outcome at each, `DiskInv` what exists on disk as long as no removal has
failed, `SourceInv` that what was heard, measured and checked is the file resolved,
`RowInv` that the row is open at the end only with an excuse. Each node of the three
graphs is one of three steps (`Broken`, `Onward`, `Waits`), and every interruption
preserves the same invariant, which is why nothing is left behind on any path.

The refinement (`RunsImplementRunner`) goes in two directions. From below, `Places` and
`Seen` say what each place of a run looks like from outside, so each step of the run is
a change of the view (`GraphFollows`, `ResolveFollows`, and so on) or hidden
(`HiddenFollows`): every node of the graphs, a download that goes on, the removal of the
workspace. From above, `ResolveStarts`, `ExecuteEnds`, `CompleteEnds` and their like
say which changes of the view are steps of WorkerRunner. `RunnerInv` adds what they have
in common: a persisted state belongs to the last places, a cancelled run has persisted
none, and a limit struck only where the job may meet one. Without it a cancelled run
could delete files, or a death be seen that no fault allows. `SourceInv` gives that what
was heard is the copy, except after a local file was written over.

### Adaptation (CopyAdaptationProofs)

* `ThreadInv`: the checkpoint is the state, or there is none. So a start of a durable
  thread changes `st` only the first time, which is most of `NothingRedone`.
* `GraphInv`: the counters stay within `MaxRetry`, and behind a route that went on its
  verdict was positive or its counter had reached `MaxRetry`. This is what
  `RejectedOnlyWhenSpent` needs: at the node that builds the output nothing else
  remembers the route.
* `OneDraft` is inductive by itself, given the types: each correction clears the
  revisions in the step that counts it.
* `JudgedInv`: from the validator to the output `judged` is the merge of the sections
  in the state; a correction of the script leads back to the validator.
* `CallsInv`: requests are at most `MaxAttempts` times accepted answers and failed
  starts, plus the attempts of the call in progress. `Accepted` counts the answers
  from the node reached and the counters. The product with a constant is nonlinear and
  gets a lemma of its own (`OneMore`).
* `ReviewMerged` is about a computation instead of a step: `Resolve` folds `Merge` over
  the revisions and sorts what it gets. `FoldPartials` shows that the community modules'
  `FoldLeft`, a recursive function chosen by CHOOSE, has the values its recursion says;
  `NatSetInduction` is the induction over the naturals, for a set of numbers where the
  library's takes a predicate, from `NatLessThanWellFounded`. Over the revisions it
  gives `MergedAll`: after k revisions a section of the writer's stands as it was,
  unless it is the last of its order and a revision has that order, when the last such
  revision has its place; a revision of an order the writer has not is appended once.

### Authentication (AuthServiceProofs)

`SessionInv` is the chain of each family, with its root: a session that is replaced
names its successor, and a family has one session that is not. `AccountInv` ties
sessions and one-time tokens to accounts in their states, `OwnersInv` says whose row a
number names, `RequestInv` what a request knows at each place: the locks it holds
exclude the others that write these rows, and what it checked before it waited still
holds where the second step relies on it, or is checked again. `ResetInv` does so for
one-time tokens. `SessionsMove` and `SessionsGrow` list how a session can change; each
maps to a sign-in, a renewal or an end of families, or to a stutter.

`RevokingInv` says of a waiting UPDATE that each usable session it is for is among its
targets, or has a replaced session of its family there, or belongs to a family the
account did not have when it began. It survives the steps of others because they weaken
sessions, start a family or renew one (`SessionsTurn`), and a renewed session was
covered before. When the UPDATE commits its targets are not usable, so what is left is
what `RevocationIsComplete` allows.

### Billing (BillingStoreProofs)

Only a commit changes the tables, by the writes of its transaction. `Fits` says that
they are the effect of the event so far, `Apart` that two open transactions write
different rows and unique values, because the second one waited. So a commit is the
whole event, applied to tables that nobody changed under it.

### Client (CliSessionProofs)

A token is issued to one command and lands in the session file at most once (`Landed`):
what a logout found there cannot come back. A command that runs alone is the only one
that moves the file and the families of its token (`SoloInv`, `AloneInv`). While nothing
overlapped and nothing went wrong the token in the file is good or the server ended its
family (`CalmInv`).

### Editor (MediaEditorProofs)

Three layers. `CommandsRegular` goes through the commands, group by group, and says what
each is by its arguments: a chain of two filters at most, with arguments in range
(`WellFormed`); what it does to one file it does to picture and sound alike, or it writes
one of them, or it is named in `OneSided` (`OneInput`); two files are joined on the
streams it maps (`TwoInputs`), and a mix of sounds leaves the picture out or is one of
the two commands that take the picture of an input (`Mixes`). An audio command is
regular on either path, that of a sound and that of a video (`AudioCommandsRegular`).
`OutputFacts` says what FFmpeg makes of such a command: a file of natural lengths, in
step if its inputs are and nothing is said to outlast, and of even size if its inputs are
and no odd side was given. The filter chains are folds of at most two steps (`TimedTwo`,
`FramedTwo`); the rest is arithmetic of minima, quotients and parities.

The invariant `EditInv` adds to the three properties the types, `OwnTransforms` (a
transforms file that a caller names after itself is written by no other) and `OddEnds` (a
chain whose command was refused for an odd frame has ended, so that the file the property
speaks of is still the one the command read). `Execute` is one `Attempt` with a status,
and each part of the invariant is kept by an attempt with any status.

### Only model-checked

The liveness properties (`AcceptedJobFinishes`, `CleanedUnlessRequestFailed`,
`EachRunEnds`, `RunEnds`, `EveryRequestEnds`, `EveryDeliveryEnds`) are outside the
prover, and so is ENABLED, on which fairness rests. Every safety invariant, action
property and refinement that a run checks is proved as well.

## 5. Plan

Every module planned is written. What would add to them, in this order:

1. the webhook handler, when the repository has one, in place of BillingStore's external
   caller;
2. the session refresh of the web frontend, where several tabs share two tokens.

## 6. Not modelled

* Settings, schemas and error rendering: pure functions of their input.
* Logging, the rendering and sending of email: output only.
* Migrations, Docker and Compose files: deployment.
* Prompts of the three workflows: text that becomes one structured call each.
* `frontend`: presentation over the API; its refresh is in the plan.
* Generators (voices, images, videos): remote calls that no part of the application uses.
* Of the adapters, the plain `invoke`, which no graph uses; of the transcribers, the
  construction of requests and subtitle formats.
* The inline queue, which runs the task within the request and is meant for development;
  `mark_step_completed` and `current_step`, which nothing reads back.
* `delete_expired_*` of the account tables, which has no caller.
* Gap analysis and timing metrics of the adaptation, which no guard reads.
* `node_modules`: third-party code.
