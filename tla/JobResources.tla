---------------------------- MODULE JobResources ----------------------------
(***************************************************************************)
(* What the API and the worker share besides the jobs table: the object    *)
(* storage under jobs/<id>/ and the Celery queue.  Every file of a job has *)
(* the one key job_input_key gives it, so a job has at most one object.    *)
(***************************************************************************)
EXTENDS JobStore

CONSTANTS
    Reqs,       \* HTTP requests (a bound on how many are made)
    Workers,    \* Celery worker processes
    Faults      \* which failures of the environment may happen

FaultKinds == {"db",         \* a statement fails, nothing is committed
               "commit",     \* the commit happens but its answer is lost
               "queue",      \* delay() raises, the task was not published
               "publish",    \* delay() raises after the task was published
               "storage",    \* saving, signing, inspecting or reading fails
               "delete",     \* delete_prefix fails
               "workflow",   \* the workflow or its time limit raises
               "redeliver",  \* the acknowledgement is lost
               "api",        \* an API process dies
               "worker",     \* a worker process dies
               "late_put"}   \* a signed URL is used again after confirmation

ASSUME FaultsAssumption == Faults \subseteq FaultKinds

VARIABLES
    objects,    \* the stored input of each job
    urls,       \* jobs with an issued presigned URL
    queue,      \* task messages the broker holds
    published   \* history: the requests that published a task for each job

resourceVars == <<objects, urls, queue, published>>

Message == [job : JobIds, by : Reqs]

ResourcesInit ==
    /\ objects = [j \in JobIds |-> None]
    /\ urls = {}
    /\ queue = {}
    /\ published = [j \in JobIds |-> {}]

Fault(f) == f \in Faults

SaveObject(j, c) == objects' = [objects EXCEPT ![j] = c]

\* delete_prefix(jobs/<id>/).
DeletePrefix(j) == objects' = [objects EXCEPT ![j] = None]

PublishTask(r, j) ==
    /\ queue' = queue \cup {[job |-> j, by |-> r]}
    /\ published' = [published EXCEPT ![j] = @ \cup {r}]
=============================================================================
