------------------------------ MODULE JobStore ------------------------------
(***************************************************************************)
(* The jobs table of src/app/store/jobs.py as its callers use it: every    *)
(* operation below is one committed transaction (PipelineJobStore in the   *)
(* API, WorkerJobStore in the worker).  A transition is the conditional    *)
(* UPDATE ... WHERE status IN (...) RETURNING id of _transition_job.       *)
(***************************************************************************)
CONSTANTS
    JobIds,     \* identifiers the jobs table can hand out (a bound on rows)
    Users,      \* authenticated users
    RunIds,     \* idempotency keys; a request may also carry none
    Contents,   \* a request's pipeline input together with its file
    None        \* SQL NULL, and "nothing stored"

ASSUME NoneAssumption ==
    /\ None \notin JobIds
    /\ None \notin Users
    /\ None \notin RunIds
    /\ None \notin Contents

VARIABLE jobs

Statuses == {"absent", "pending", "uploaded", "running", "completed", "failed"}
Terminal == {"completed", "failed"}

\* "input" stands for input_json, "direct" says whether it holds the
\* _direct_upload metadata, "output" for output_json.
JobRow == [status : Statuses,
           owner  : Users \cup {None},
           run    : RunIds \cup {None},
           input  : Contents \cup {None},
           direct : BOOLEAN,
           output : Contents \cup {None}]

NoRow == [status |-> "absent", owner |-> None, run |-> None,
          input |-> None, direct |-> FALSE, output |-> None]

JobStoreInit == jobs = [j \in JobIds |-> NoRow]

-----------------------------------------------------------------------------
(* create_job: the INSERT, and the lookup after a unique(run_id) violation. *)

RunIdTaken(k) == k # None /\ \E i \in JobIds : jobs[i].run = k

InsertRow(j, u, k, c, d) ==
    /\ jobs[j].status = "absent"
    /\ ~RunIdTaken(k)
    /\ jobs' = [jobs EXCEPT ![j] =
          [status |-> "pending", owner |-> u, run |-> k,
           input |-> c, direct |-> d, output |-> None]]

\* The existing row a repeated run_id resolves to.
IsExistingRun(j, k) == k # None /\ jobs[j].run = k

-----------------------------------------------------------------------------
(* Guarded status transitions. *)

Transition(j, from, row) ==
    /\ jobs[j].status \in from
    /\ jobs' = [jobs EXCEPT ![j] = row]

\* The UPDATE matches no row: JobStoreError, nothing written.
Rejects(j, from) ==
    /\ jobs[j].status \notin from
    /\ UNCHANGED jobs

UploadableFrom  == {"pending"}
RunnableFrom    == {"uploaded"}
CompletableFrom == {"running"}

\* Mutant: a job can no longer be failed once its upload is committed.
FailableBeforeUpload == {"pending"}

FailableFrom    == {"pending", "uploaded", "running"}

\* Mutant: a job can be claimed again while it runs.
MarkRunningTwice(j) ==
    Transition(j, {"uploaded", "running"}, [jobs[j] EXCEPT !.status = "running"])
\* Mutant: mark_failed forgets its status list.
MarkFailedAlways(j) ==
    /\ jobs[j].status # "absent"
    /\ jobs' = [jobs EXCEPT ![j].status = "failed"]
\* Mutant: the worker writes a status the table does not know.
MarkRunningUnknown(j) ==
    Transition(j, {"uploaded"}, [jobs[j] EXCEPT !.status = "processing"])

MarkUploaded(j) ==
    Transition(j, UploadableFrom, [jobs[j] EXCEPT !.status = "uploaded"])

MarkRunning(j) ==
    Transition(j, RunnableFrom, [jobs[j] EXCEPT !.status = "running"])

MarkCompleted(j, result) ==
    Transition(j, CompletableFrom,
               [jobs[j] EXCEPT !.status = "completed", !.output = result])

MarkFailed(j) ==
    Transition(j, FailableFrom, [jobs[j] EXCEPT !.status = "failed"])
=============================================================================
