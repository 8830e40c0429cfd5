--------------------------- MODULE PipelineService ---------------------------
(***************************************************************************)
(* src/app/pipeline/service.py: one process per HTTP request, suspended    *)
(* between two of its calls to the job store, the storage or the queue.    *)
(***************************************************************************)
EXTENDS JobResources

CONSTANT Ops        \* the operations requests may ask for

OpKinds == {"submit", "prepare", "confirm"}

ASSUME OpsAssumption == Ops \subseteq OpKinds

VARIABLE reqs

RequestPcs == {"idle", "save", "url", "check", "mark", "reread", "enqueue",
               "fail", "done"}

\* "created" remembers whether create_job inserted the row this request uses.
Request == [op      : OpKinds \cup {"none"},
            pc      : RequestPcs,
            user    : Users \cup {None},
            content : Contents \cup {None},
            job     : JobIds \cup {None},
            created : BOOLEAN,
            result  : {"none", "ok", "error", "rejected", "crashed"}]

NoRequest == [op |-> "none", pc |-> "idle", user |-> None, content |-> None,
              job |-> None, created |-> FALSE, result |-> "none"]

ServiceInit == reqs = [r \in Reqs |-> NoRequest]

Begin(r, op, u, c, j, new, pc) ==
    reqs' = [reqs EXCEPT ![r] =
               [op |-> op, pc |-> pc, user |-> u, content |-> c, job |-> j,
                created |-> new, result |-> "none"]]

\* The request is over before it has a job to work on.
Refuse(r, op) ==
    reqs' = [reqs EXCEPT ![r] =
               [op |-> op, pc |-> "done", user |-> None, content |-> None,
                job |-> None, created |-> FALSE, result |-> "error"]]

Goto(r, pc) == reqs' = [reqs EXCEPT ![r].pc = pc]

Finish(r, result) ==
    reqs' = [reqs EXCEPT ![r] =
               [@ EXCEPT !.pc = "done", !.result = result, !.content = None]]

At(r, op, pc) == reqs[r].op \in op /\ reqs[r].pc = pc

Job(r) == reqs[r].job

-----------------------------------------------------------------------------
(* create_pipeline_job, the first checkpoint of a submission.  Then a       *)
(* submission saves its file and a direct upload signs a URL.               *)

\* _ensure_matching_idempotent_request: a direct upload accepts an existing
\* row only when it was created by a direct upload of the same request.
SameFingerprint(j, c) == jobs[j].direct /\ jobs[j].input = c

\* Mutant: an existing row is returned to whoever presents its key.
CreateForAnyUser(r, op, u, k, c) ==
    /\ op \in Ops \cap {"submit", "prepare"}
    /\ reqs[r].pc = "idle"
    /\ LET next   == IF op = "submit" THEN "save" ELSE "url"
           direct == op = "prepare"
       IN \/ \E j \in JobIds :
                InsertRow(j, u, k, c, direct) /\ Begin(r, op, u, c, j, TRUE, next)
          \/ \E j \in JobIds :
                /\ IsExistingRun(j, k)
                /\ direct => SameFingerprint(j, c)
                /\ UNCHANGED jobs /\ Begin(r, op, u, c, j, FALSE, next)
    /\ UNCHANGED resourceVars

Create(r, op, u, k, c) ==
    /\ op \in Ops \cap {"submit", "prepare"}
    /\ reqs[r].pc = "idle"
    /\ LET next   == IF op = "submit" THEN "save" ELSE "url"
           direct == op = "prepare"
       IN \/ \E j \in JobIds :
                /\ InsertRow(j, u, k, c, direct)
                /\ \/ Begin(r, op, u, c, j, TRUE, next)
                   \/ Fault("commit") /\ Refuse(r, op)
          \/ \E j \in JobIds :
                /\ IsExistingRun(j, k)
                /\ UNCHANGED jobs
                /\ \/ /\ jobs[j].owner = u
                      /\ direct => SameFingerprint(j, c)
                      /\ Begin(r, op, u, c, j, FALSE, next)
                   \/ /\ jobs[j].owner # u \/ (direct /\ ~SameFingerprint(j, c))
                      /\ Refuse(r, op)
          \/ Fault("db") /\ UNCHANGED jobs /\ Refuse(r, op)
    /\ UNCHANGED resourceVars

-----------------------------------------------------------------------------
(* _start: save the file, mark the job uploaded, enqueue.                   *)

SaveInput(r) ==
    /\ At(r, {"submit"}, "save")
    /\ \/ SaveObject(Job(r), reqs[r].content) /\ Goto(r, "mark")
       \/ /\ Fault("storage")
          /\ UNCHANGED objects \/ SaveObject(Job(r), reqs[r].content)
          /\ Goto(r, "fail")
    /\ UNCHANGED <<jobs, urls, queue, published>>

\* Mutant: the job is only marked uploaded, never handed to the queue.
MarkSubmittedNoEnqueue(r) ==
    /\ At(r, {"submit"}, "mark")
    /\ MarkUploaded(Job(r)) /\ Finish(r, "ok")
    /\ UNCHANGED resourceVars

\* Mutant: a failed mark_uploaded does not stop the submission.
MarkSubmittedErrorIgnored(r) ==
    /\ At(r, {"submit"}, "mark")
    /\ MarkUploaded(Job(r)) \/ (Fault("db") /\ UNCHANGED jobs)
    /\ Goto(r, "enqueue")
    /\ UNCHANGED resourceVars

MarkSubmitted(r) ==
    /\ At(r, {"submit"}, "mark")
    /\ \/ MarkUploaded(Job(r)) /\ Goto(r, "enqueue")
       \/ Rejects(Job(r), UploadableFrom) /\ Goto(r, "fail")
       \/ Fault("db") /\ UNCHANGED jobs /\ Goto(r, "fail")
       \/ Fault("commit") /\ MarkUploaded(Job(r)) /\ Goto(r, "fail")
    /\ UNCHANGED resourceVars

-----------------------------------------------------------------------------
(* prepare_presigned_upload after the row exists.                           *)

SignUrl(r) ==
    /\ At(r, {"prepare"}, "url")
    /\ \/ urls' = urls \cup {Job(r)} /\ Finish(r, "ok")
       \/ Fault("storage") /\ UNCHANGED urls /\ Goto(r, "fail")
    /\ UNCHANGED <<jobs, objects, queue, published>>

\* The browser's PUT, not a step of the service.  The URL fixes key and content
\* type only, so what arrives need not be what was declared.  A browser uploads
\* once; "late_put" lets it use the URL again at any time.
ClientPut(j, c) ==
    /\ j \in urls
    /\ Fault("late_put") \/ (objects[j] = None /\ jobs[j].status = "pending")
    /\ SaveObject(j, c)
    /\ UNCHANGED <<jobs, urls, queue, published, reqs>>

-----------------------------------------------------------------------------
(* confirm_presigned_upload.                                                *)

ConfirmRead(r, u, j) ==
    /\ "confirm" \in Ops
    /\ reqs[r].pc = "idle"
    /\ \/ /\ jobs[j].status = "absent" \/ jobs[j].owner # u \/ ~jobs[j].direct
          /\ Refuse(r, "confirm")
       \/ Fault("db") /\ Refuse(r, "confirm")
       \/ /\ jobs[j].owner = u /\ jobs[j].direct
          /\ \/ /\ jobs[j].status = "pending"
                /\ Begin(r, "confirm", u, None, j, FALSE, "check")
             \/ /\ jobs[j].status \in {"uploaded", "running"} \cup Terminal
                /\ reqs' = [reqs EXCEPT ![r] =
                      [op |-> "confirm", pc |-> "done", user |-> u,
                       content |-> None, job |-> j, created |-> FALSE,
                       result |-> IF jobs[j].status = "uploaded"
                                  THEN "ok" ELSE "rejected"]]
    /\ UNCHANGED <<jobs, objects, urls, queue, published>>

\* Mutant: any stored object is accepted, whatever its size and type.
CheckObjectExistsOnly(r) ==
    /\ At(r, {"confirm"}, "check")
    /\ \/ objects[Job(r)] # None /\ Goto(r, "mark")
       \/ objects[Job(r)] = None /\ Finish(r, "error")
    /\ UNCHANGED <<jobs, resourceVars>>
CheckObject(r) ==
    /\ At(r, {"confirm"}, "check")
    /\ \/ objects[Job(r)] = jobs[Job(r)].input /\ Goto(r, "mark")
       \/ objects[Job(r)] # jobs[Job(r)].input /\ Finish(r, "error")
       \/ Fault("storage") /\ Finish(r, "error")
    /\ UNCHANGED <<jobs, resourceVars>>

\* A JobStoreError (a lost race or a failed statement) leads to the second
\* read; an error of the commit itself is a StoreError and leaves at once.
MarkConfirmed(r) ==
    /\ At(r, {"confirm"}, "mark")
    /\ \/ MarkUploaded(Job(r)) /\ Goto(r, "enqueue")
       \/ Rejects(Job(r), UploadableFrom) /\ Goto(r, "reread")
       \/ Fault("db") /\ UNCHANGED jobs /\ (Goto(r, "reread") \/ Finish(r, "error"))
       \/ Fault("commit") /\ MarkUploaded(Job(r)) /\ Finish(r, "error")
    /\ UNCHANGED resourceVars

\* Mutant: the loser of the race enqueues as well.
RereadEnqueues(r) ==
    /\ At(r, {"confirm"}, "reread")
    /\ jobs[Job(r)].status = "uploaded" /\ Goto(r, "enqueue")
    /\ UNCHANGED <<jobs, resourceVars>>

Reread(r) ==
    /\ At(r, {"confirm"}, "reread")
    /\ LET row == jobs[Job(r)]
           committed == row.owner = reqs[r].user /\ row.status = "uploaded"
       IN \/ committed /\ Finish(r, "ok")
          \/ ~committed /\ Finish(r, "rejected")
          \/ Fault("db") /\ Finish(r, "error")
    /\ UNCHANGED <<jobs, resourceVars>>

-----------------------------------------------------------------------------
(* Queue scheduling and failure handling, shared by both flows.             *)

\* CeleryQueue.enqueue; on any error the caller goes on to _mark_failed_safely.
Enqueue(r) ==
    /\ At(r, {"submit", "confirm"}, "enqueue")
    /\ \/ PublishTask(r, Job(r)) /\ Finish(r, "ok")
       \/ Fault("queue") /\ UNCHANGED <<queue, published>> /\ Goto(r, "fail")
       \/ Fault("publish") /\ PublishTask(r, Job(r)) /\ Goto(r, "fail")
    /\ UNCHANGED <<jobs, objects, urls>>

\* _mark_failed_safely swallows every error; the request then re-raises.
MarkFailedSafely(r) ==
    /\ At(r, OpKinds, "fail")
    /\ \/ MarkFailed(Job(r))
       \/ Rejects(Job(r), FailableFrom)
       \/ Fault("db") /\ UNCHANGED jobs
    /\ Finish(r, "error")
    /\ UNCHANGED resourceVars

\* The API process dies: nothing the request still had to do happens.
ApiCrash(r) ==
    /\ Fault("api")
    /\ reqs[r].pc \notin {"idle", "done"}
    /\ Finish(r, "crashed")
    /\ UNCHANGED <<jobs, resourceVars>>

-----------------------------------------------------------------------------
Arrive(r) ==
    \/ \E op \in Ops, u \in Users, k \in RunIds \cup {None}, c \in Contents :
          Create(r, op, u, k, c)
    \/ \E u \in Users, j \in JobIds : ConfirmRead(r, u, j)

Proceed(r) ==
    \/ SaveInput(r) \/ MarkSubmitted(r)
    \/ SignUrl(r)
    \/ CheckObject(r) \/ MarkConfirmed(r) \/ Reread(r)
    \/ Enqueue(r) \/ MarkFailedSafely(r)

ServiceStep ==
    \/ \E r \in Reqs : Arrive(r) \/ Proceed(r) \/ ApiCrash(r)
    \/ \E j \in JobIds, c \in Contents : ClientPut(j, c)
=============================================================================
