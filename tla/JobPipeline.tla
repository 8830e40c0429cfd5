------------------------------ MODULE JobPipeline ------------------------------
(***************************************************************************)
(* The job pipeline: HTTP requests (PipelineService) and Celery workers    *)
(* (WorkerRunner) over one jobs table, one storage and one queue, with the *)
(* failures of Faults.                                                     *)
(***************************************************************************)
EXTENDS PipelineService, WorkerRunner

vars == <<jobs, resourceVars, reqs, workerVars>>

Init == JobStoreInit /\ ResourcesInit /\ ServiceInit /\ WorkerInit

Next == \/ ServiceStep /\ UNCHANGED workerVars
        \/ WorkerStep /\ UNCHANGED reqs

Spec == Init /\ [][Next]_vars

\* A request that has started runs on, and a worker consumes and works, as
\* long as its process lives.  Clients owe nothing: no fairness for Arrive and
\* ClientPut, none for the crashes.
FairSpec ==
    /\ Spec
    /\ \A r \in Reqs : WF_vars(Proceed(r) /\ UNCHANGED workerVars)
    /\ \A w \in Workers : WF_vars(Run(w) /\ UNCHANGED reqs)

TypeOK ==
    /\ jobs \in [JobIds -> JobRow]
    /\ objects \in [JobIds -> Contents \cup {None}]
    /\ urls \subseteq JobIds
    /\ queue \subseteq Message
    /\ published \in [JobIds -> SUBSET Reqs]
    /\ reqs \in [Reqs -> Request]
    /\ workers \in [Workers -> Worker]
    /\ executions \in [JobIds -> Nat]

-----------------------------------------------------------------------------
(* Safety.                                                                  *)

Claimed(w) == workers[w].pc \in {"resolve", "execute", "complete", "fail", "finish"}

\* A job belongs to one worker at most, and its workflows start at most once,
\* whatever is delivered twice, retried or crashed (mark_running is the only
\* arbiter: worker/README.md, "duas tasks nao podem executar o mesmo job").
SingleExecution ==
    /\ \A w1, w2 \in Workers :
          Claimed(w1) /\ Claimed(w2) /\ Task(w1) = Task(w2) => w1 = w2
    /\ \A j \in JobIds : executions[j] <= 1

\* A job is handed to the queue by one request at most: of the confirmations
\* and submissions that race for it, only the one whose mark_uploaded won.
PublishedOnce ==
    \A j \in JobIds : \A r1, r2 \in published[j] : r1 = r2

\* The queue never holds a job whose upload is not committed: a worker that
\* is fast enough still finds the row it needs (enqueue follows the commit).
QueuedAfterCommit ==
    \A m \in queue : jobs[m.job].status \notin {"absent", "pending"}

\* A job that waits for a worker, or that one has claimed, still has its
\* input in the storage: only the worker that persisted a terminal state
\* deletes it, and a terminal state is never left.
InputAvailable ==
    \A j \in JobIds :
        jobs[j].status \in {"uploaded", "running"} => objects[j] # None

RunIdUnique ==
    \A i, j \in JobIds :
        jobs[i].run # None /\ jobs[i].run = jobs[j].run => i = j

\* A request never works on the job of another user, and a URL is signed only
\* for the upload the job was created for.
RequestOwnsJob ==
    \A r \in Reqs :
        Job(r) # None =>
            /\ jobs[Job(r)].owner = reqs[r].user
            /\ At(r, {"prepare"}, "url") => SameFingerprint(Job(r), reqs[r].content)

\* However users, keys and contents of concurrent requests coincide, a key has
\* one job, and finding it never leads a request to somebody else's job or a
\* direct upload to another upload's job (create_job's unique violation path
\* and _ensure_matching_idempotent_request).
KeysIsolate == RunIdUnique /\ RequestOwnsJob

\* The result of a job was computed from the input its request declared.
OutputMatchesInput ==
    \A j \in JobIds :
        jobs[j].status = "completed" => jobs[j].output = jobs[j].input

\* A submission that created its job and then reported an error has left the
\* job in a final state (pipeline/README.md: "se o upload funcionou e a fila
\* falha, marcar job como failed").
FailedSubmissionSettled ==
    \A r \in Reqs :
        reqs[r].op = "submit" /\ reqs[r].created /\ reqs[r].result = "error"
        => jobs[Job(r)].status \in Terminal

-----------------------------------------------------------------------------
(* What no step may do.                                                     *)

\* A completed or failed job keeps its row: a late worker, a retried request
\* or a lost commit answer never replaces the result a client may have read.
TerminalIsFinal ==
    [][\A j \in JobIds : jobs[j].status \in Terminal => jobs'[j] = jobs[j]]_vars

\* Stored files disappear only when their job is finished for good.
PurgeOnlyFinished ==
    [][\A j \in JobIds :
          objects[j] # None /\ objects'[j] = None => jobs[j].status \in Terminal]_vars

\* Lifecycle refinement: each job follows JobLifecycle.
Lifecycle == INSTANCE JobLifecycle WITH
    Ids     <- JobIds,
    Results <- Contents,
    Nothing <- None,
    state   <- [j \in JobIds |-> jobs[j].status],
    starts  <- executions,
    outcome <- [j \in JobIds |-> jobs[j].output]

\* The pipeline implements the abstract job lifecycle.
ImplementsLifecycle == Lifecycle!Spec

-----------------------------------------------------------------------------
(* What the documentation of the code says, and the code does not do.       *)

\* "Se o cliente repetir a mesma requisicao com o mesmo run_id, o app deve
\* retornar o job existente ou falhar com erro controlado" (store/README.md):
\* a request that only found an existing job never fails that job.
ReplayLeavesJobAlone ==
    [][\A r \in Reqs :
          LET j == Job(r)
          IN /\ At(r, {"submit", "prepare"}, "fail")
             /\ reqs'[r].pc = "done"
             /\ ~reqs[r].created
             => jobs'[j].status = jobs[j].status]_vars

-----------------------------------------------------------------------------
(* Progress.                                                                *)

\* A request that was accepted leads to a finished job.
AcceptedJobFinishes ==
    \A r \in Reqs : \A j \in JobIds :
        reqs[r].op \in {"submit", "confirm"} /\ reqs[r].result = "ok"
            /\ reqs[r].job = j
        ~> jobs[j].status \in Terminal

\* The input of a job whose workflows started is deleted in the end, unless a
\* request reported an error for that job and may have failed it meanwhile
\* (_delete_job_files_safely, after the terminal write of the worker).
CleanedUnlessRequestFailed ==
    \A j \in JobIds :
        executions[j] > 0
        ~> \/ objects[j] = None
           \/ \E r \in Reqs : Job(r) = j /\ reqs[r].result = "error"
=============================================================================
