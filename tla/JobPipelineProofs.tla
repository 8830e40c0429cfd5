--------------------------- MODULE JobPipelineProofs ---------------------------
(***************************************************************************)
(* Proofs about JobPipeline for every set of jobs, requests, workers,      *)
(* users, keys and contents, and for every choice of Faults and Ops.       *)
(***************************************************************************)
EXTENDS JobPipeline, TLAPS

-----------------------------------------------------------------------------
(* Effects: what each operation on one row, one request or one worker does  *)
(* to it, and that it leaves every other one alone.                         *)

JobsType == jobs \in [JobIds -> JobRow]

\* Row j becomes a row with the given status, every other row is kept.
RowMoves(j, status) ==
    /\ jobs' \in [JobIds -> JobRow]
    /\ jobs'[j].status = status
    /\ jobs'[j].run = jobs[j].run
    /\ jobs'[j].input = jobs[j].input
    /\ jobs'[j].owner = jobs[j].owner /\ jobs'[j].direct = jobs[j].direct
    /\ \A i \in JobIds : i # j => jobs'[i] = jobs[i]

LEMMA InsertRowEffect ==
  ASSUME JobsType, NEW j \in JobIds, NEW u \in Users, NEW k \in RunIds \cup {None},
         NEW c \in Contents, NEW d \in BOOLEAN, InsertRow(j, u, k, c, d)
  PROVE  /\ jobs' \in [JobIds -> JobRow]
         /\ jobs[j].status = "absent"
         /\ jobs'[j].status = "pending"
         /\ jobs'[j].run = k /\ jobs'[j].input = c /\ jobs'[j].output = None
         /\ jobs'[j].owner = u /\ jobs'[j].direct = d
         /\ \A i \in JobIds : i # j => jobs'[i] = jobs[i]
         /\ ~RunIdTaken(k)
  <1> DEFINE row == [status |-> "pending", owner |-> u, run |-> k,
                     input |-> c, direct |-> d, output |-> None]
  <1>1. row \in JobRow
    BY DEF JobRow, Statuses
  <1> QED
    BY <1>1 DEF InsertRow, JobsType

LEMMA TransitionEffect ==
  ASSUME JobsType, NEW j \in JobIds, NEW from, NEW row \in JobRow, Transition(j, from, row)
  PROVE  /\ jobs' \in [JobIds -> JobRow]
         /\ jobs[j].status \in from
         /\ jobs'[j] = row
         /\ \A i \in JobIds : i # j => jobs'[i] = jobs[i]
  BY DEF Transition, JobsType

LEMMA MarkUploadedEffect ==
  ASSUME JobsType, NEW j \in JobIds, MarkUploaded(j)
  PROVE  /\ jobs[j].status = "pending"
         /\ RowMoves(j, "uploaded")
         /\ jobs'[j].output = jobs[j].output
  <1> DEFINE row == [jobs[j] EXCEPT !.status = "uploaded"]
  <1>1. /\ row \in JobRow /\ row.status = "uploaded" /\ row.run = jobs[j].run
        /\ row.input = jobs[j].input /\ row.output = jobs[j].output
        /\ row.owner = jobs[j].owner /\ row.direct = jobs[j].direct
    BY DEF JobRow, Statuses, JobsType
  <1> HIDE DEF row
  <1>2. Transition(j, {"pending"}, row)
    BY DEF MarkUploaded, UploadableFrom, row
  <1> QED
    BY <1>1, <1>2, TransitionEffect DEF RowMoves

LEMMA MarkRunningEffect ==
  ASSUME JobsType, NEW j \in JobIds, MarkRunning(j)
  PROVE  /\ jobs[j].status = "uploaded"
         /\ RowMoves(j, "running")
         /\ jobs'[j].output = jobs[j].output
  <1> DEFINE row == [jobs[j] EXCEPT !.status = "running"]
  <1>1. /\ row \in JobRow /\ row.status = "running" /\ row.run = jobs[j].run
        /\ row.input = jobs[j].input /\ row.output = jobs[j].output
        /\ row.owner = jobs[j].owner /\ row.direct = jobs[j].direct
    BY DEF JobRow, Statuses, JobsType
  <1> HIDE DEF row
  <1>2. Transition(j, {"uploaded"}, row)
    BY DEF MarkRunning, RunnableFrom, row
  <1> QED
    BY <1>1, <1>2, TransitionEffect DEF RowMoves

LEMMA MarkCompletedEffect ==
  ASSUME JobsType, NEW j \in JobIds, NEW c \in Contents, MarkCompleted(j, c)
  PROVE  /\ jobs[j].status = "running"
         /\ RowMoves(j, "completed")
         /\ jobs'[j].output = c
  <1> DEFINE row == [jobs[j] EXCEPT !.status = "completed", !.output = c]
  <1>1. /\ row \in JobRow /\ row.status = "completed" /\ row.run = jobs[j].run
        /\ row.input = jobs[j].input /\ row.output = c
        /\ row.owner = jobs[j].owner /\ row.direct = jobs[j].direct
    BY DEF JobRow, Statuses, JobsType
  <1> HIDE DEF row
  <1>2. Transition(j, {"running"}, row)
    BY DEF MarkCompleted, CompletableFrom, row
  <1> QED
    BY <1>1, <1>2, TransitionEffect DEF RowMoves

LEMMA MarkFailedEffect ==
  ASSUME JobsType, NEW j \in JobIds, MarkFailed(j)
  PROVE  /\ jobs[j].status \in {"pending", "uploaded", "running"}
         /\ RowMoves(j, "failed")
         /\ jobs'[j].output = jobs[j].output
  <1> DEFINE row == [jobs[j] EXCEPT !.status = "failed"]
  <1>1. /\ row \in JobRow /\ row.status = "failed" /\ row.run = jobs[j].run
        /\ row.input = jobs[j].input /\ row.output = jobs[j].output
        /\ row.owner = jobs[j].owner /\ row.direct = jobs[j].direct
    BY DEF JobRow, Statuses, JobsType
  <1> HIDE DEF row
  <1>2. Transition(j, {"pending", "uploaded", "running"}, row)
    BY DEF MarkFailed, FailableFrom, row
  <1> QED
    BY <1>1, <1>2, TransitionEffect DEF RowMoves

ReqsType == reqs \in [Reqs -> Request]

LEMMA BeginEffect ==
  ASSUME ReqsType, NEW r \in Reqs, NEW op \in OpKinds, NEW u \in Users,
         NEW c \in Contents \cup {None}, NEW j \in JobIds, NEW new \in BOOLEAN,
         NEW pc \in RequestPcs, Begin(r, op, u, c, j, new, pc)
  PROVE  /\ reqs' \in [Reqs -> Request]
         /\ reqs'[r].op = op /\ reqs'[r].pc = pc /\ reqs'[r].job = j
         /\ reqs'[r].content = c /\ reqs'[r].user = u
         /\ \A q \in Reqs : q # r => reqs'[q] = reqs[q]
  <1> DEFINE req == [op |-> op, pc |-> pc, user |-> u, content |-> c, job |-> j,
                     created |-> new, result |-> "none"]
  <1>1. req \in Request
    BY DEF Request
  <1> QED
    BY <1>1 DEF Begin, ReqsType

LEMMA RefuseEffect ==
  ASSUME ReqsType, NEW r \in Reqs, NEW op \in OpKinds, Refuse(r, op)
  PROVE  /\ reqs' \in [Reqs -> Request]
         /\ reqs'[r].pc = "done" /\ reqs'[r].job = None
         /\ \A q \in Reqs : q # r => reqs'[q] = reqs[q]
  <1> DEFINE req == [op |-> op, pc |-> "done", user |-> None, content |-> None,
                     job |-> None, created |-> FALSE, result |-> "error"]
  <1>1. reqs' = [reqs EXCEPT ![r] = req]
    BY DEF Refuse
  <1>2. req \in Request /\ req.pc = "done" /\ req.job = None
    BY DEF Request, RequestPcs
  <1> QED
    BY <1>1, <1>2 DEF ReqsType

LEMMA GotoEffect ==
  ASSUME ReqsType, NEW r \in Reqs, NEW pc \in RequestPcs, Goto(r, pc)
  PROVE  /\ reqs' \in [Reqs -> Request]
         /\ reqs'[r].op = reqs[r].op /\ reqs'[r].pc = pc
         /\ reqs'[r].job = reqs[r].job /\ reqs'[r].content = reqs[r].content
         /\ reqs'[r].user = reqs[r].user
         /\ \A q \in Reqs : q # r => reqs'[q] = reqs[q]
  BY DEF Goto, ReqsType, Request

LEMMA FinishEffect ==
  ASSUME ReqsType, NEW r \in Reqs, NEW result \in {"ok", "error", "rejected", "crashed"},
         Finish(r, result)
  PROVE  /\ reqs' \in [Reqs -> Request]
         /\ reqs'[r].pc = "done" /\ reqs'[r].job = reqs[r].job
         /\ reqs'[r].user = reqs[r].user
         /\ \A q \in Reqs : q # r => reqs'[q] = reqs[q]
  <1> DEFINE req == [reqs[r] EXCEPT !.pc = "done", !.result = result, !.content = None]
  <1>1. reqs[r] \in Request
    BY DEF ReqsType
  <1>2. req \in Request
    BY <1>1 DEF Request, RequestPcs
  <1>3. req.pc = "done" /\ req.job = reqs[r].job /\ req.user = reqs[r].user
    BY <1>1 DEF Request
  <1> HIDE DEF req
  <1>4. reqs' = [reqs EXCEPT ![r] = req]
    BY DEF Finish, req
  <1> QED
    BY <1>2, <1>3, <1>4 DEF ReqsType

\* The last step of a confirmation that ends with its first read.
LEMMA ConfirmEndEffect ==
  ASSUME ReqsType, NEW r \in Reqs, NEW u \in Users, NEW j \in JobIds,
         NEW result \in {"ok", "rejected"},
         reqs' = [reqs EXCEPT ![r] =
            [op |-> "confirm", pc |-> "done", user |-> u, content |-> None,
             job |-> j, created |-> FALSE, result |-> result]]
  PROVE  /\ reqs' \in [Reqs -> Request]
         /\ reqs'[r].pc = "done" /\ reqs'[r].job = j /\ reqs'[r].user = u
         /\ \A q \in Reqs : q # r => reqs'[q] = reqs[q]
  BY DEF ReqsType, Request, RequestPcs, OpKinds

WorkersType == workers \in [Workers -> Worker]

LEMMA ReleaseEffect ==
  ASSUME WorkersType, NEW w \in Workers, Release(w)
  PROVE  /\ workers' \in [Workers -> Worker]
         /\ workers'[w].pc = "idle"
         /\ \A v \in Workers : v # w => workers'[v] = workers[v]
  BY DEF Release, WorkersType, IdleWorker, Worker, WorkerPcs

LEMMA WorkerGotoEffect ==
  ASSUME WorkersType, NEW w \in Workers, NEW pc \in WorkerPcs, WorkerGoto(w, pc)
  PROVE  /\ workers' \in [Workers -> Worker]
         /\ workers'[w].pc = pc /\ workers'[w].job = workers[w].job
         /\ workers'[w].copy = workers[w].copy
         /\ workers'[w].persisted = workers[w].persisted
         /\ \A v \in Workers : v # w => workers'[v] = workers[v]
  BY DEF WorkerGoto, WorkersType, Worker

LEMMA PersistedEffect ==
  ASSUME WorkersType, NEW w \in Workers, NEW yes \in BOOLEAN, Persisted(w, yes)
  PROVE  /\ workers' \in [Workers -> Worker]
         /\ workers'[w].pc = "finish" /\ workers'[w].job = workers[w].job
         /\ workers'[w].persisted = yes
         /\ \A v \in Workers : v # w => workers'[v] = workers[v]
  <1> DEFINE row == [workers[w] EXCEPT !.pc = "finish", !.persisted = yes]
  <1>1. workers[w] \in Worker
    BY DEF WorkersType
  <1>2. row \in Worker
    BY <1>1 DEF Worker, WorkerPcs
  <1>3. row.pc = "finish" /\ row.job = workers[w].job /\ row.persisted = yes
    BY <1>1 DEF Worker
  <1>4. workers' = [workers EXCEPT ![w] = row]
    BY DEF Persisted, WorkersType
  <1> HIDE DEF row
  <1> QED
    BY <1>2, <1>3, <1>4 DEF WorkersType

LEMMA ReceiveEffect ==
  ASSUME WorkersType, NEW w \in Workers, NEW m \in Message, Receive(w, m)
  PROVE  /\ workers' \in [Workers -> Worker]
         /\ workers'[w].pc = "load" /\ workers'[w].job = m.job
         /\ \A v \in Workers : v # w => workers'[v] = workers[v]
  BY DEF Receive, WorkersType, Worker, WorkerPcs, IdleWorker, Message

\* A worker that got its input runs the workflows on it.
LEMMA ResolveEffect ==
  ASSUME WorkersType, NEW w \in Workers, NEW c \in Contents,
         workers' = [workers EXCEPT ![w].pc = "execute", ![w].copy = c]
  PROVE  /\ workers' \in [Workers -> Worker]
         /\ workers'[w].pc = "execute" /\ workers'[w].job = workers[w].job
         /\ workers'[w].copy = c
         /\ \A v \in Workers : v # w => workers'[v] = workers[v]
  BY DEF WorkersType, Worker, WorkerPcs

-----------------------------------------------------------------------------
(* Type correctness.  RequestFields and WorkerFields say which fields a     *)
(* process has set at the points where it uses them.                        *)

RequestFields ==
    \A r \in Reqs :
        /\ reqs[r].pc \notin {"idle", "done"} => reqs[r].job \in JobIds
        /\ reqs[r].pc = "save" => reqs[r].content \in Contents

WorkerFields ==
    \A w \in Workers :
        /\ workers[w].pc # "idle" => workers[w].job \in JobIds
        /\ workers[w].pc \in {"execute", "complete"} => workers[w].copy \in Contents

ResourcesType ==
    /\ objects \in [JobIds -> Contents \cup {None}]
    /\ urls \subseteq JobIds
    /\ queue \subseteq Message
    /\ published \in [JobIds -> SUBSET Reqs]

TypeInv ==
    /\ JobsType /\ ResourcesType
    /\ ReqsType /\ RequestFields
    /\ WorkersType /\ WorkerFields
    /\ executions \in [JobIds -> Nat]

LEMMA TypeInvInit == Init => TypeInv
  <1> SUFFICES ASSUME Init PROVE TypeInv
    OBVIOUS
  <1> USE DEF Init
  <1>1. JobsType
    BY DEF JobsType, JobStoreInit, NoRow, JobRow, Statuses
  <1>2. ResourcesType
    BY DEF ResourcesType, ResourcesInit
  <1>3. ReqsType /\ RequestFields
    BY DEF ReqsType, RequestFields, ServiceInit, NoRequest, Request, RequestPcs
  <1>4. WorkersType /\ WorkerFields /\ executions \in [JobIds -> Nat]
    BY DEF WorkersType, WorkerFields, WorkerInit, IdleWorker, Worker, WorkerPcs
  <1> QED
    BY <1>1, <1>2, <1>3, <1>4 DEF TypeInv

LEMMA ServiceType ==
  ASSUME TypeInv, ServiceStep, UNCHANGED workerVars
  PROVE  TypeInv'
  <1>1. WorkersType' /\ WorkerFields' /\ (executions \in [JobIds -> Nat])'
    BY DEF TypeInv, workerVars, WorkersType, WorkerFields
  <1> USE DEF RequestPcs, OpKinds
  <1>2. ASSUME NEW r \in Reqs, NEW op \in Ops, NEW u \in Users,
               NEW k \in RunIds \cup {None}, NEW c \in Contents, Create(r, op, u, k, c)
        PROVE  JobsType' /\ ResourcesType' /\ ReqsType' /\ RequestFields'
    <2>1. op \in OpKinds
      BY OpsAssumption
    <2>2. JobsType'
      BY <1>2, InsertRowEffect DEF Create, TypeInv, JobsType
    <2>3. ResourcesType'
      BY <1>2 DEF Create, TypeInv, ResourcesType, resourceVars
    <2>4. ReqsType' /\ RequestFields'
      <3>1. \/ \E j \in JobIds, new \in BOOLEAN, pc \in {"save", "url"} :
                  Begin(r, op, u, c, j, new, pc)
            \/ Refuse(r, op)
        BY <1>2 DEF Create
      <3>2. ASSUME NEW j \in JobIds, NEW new \in BOOLEAN, NEW pc \in {"save", "url"},
                   Begin(r, op, u, c, j, new, pc)
            PROVE  ReqsType' /\ RequestFields'
        BY <3>2, <2>1, BeginEffect DEF TypeInv, ReqsType, RequestFields
      <3>3. CASE Refuse(r, op)
        BY <3>3, <2>1, RefuseEffect DEF TypeInv, ReqsType, RequestFields
      <3> QED
        BY <3>1, <3>2, <3>3
    <2> QED
      BY <2>2, <2>3, <2>4
  <1>3. ASSUME NEW r \in Reqs, NEW u \in Users, NEW j \in JobIds, ConfirmRead(r, u, j)
        PROVE  JobsType' /\ ResourcesType' /\ ReqsType' /\ RequestFields'
    <2>1. JobsType' /\ ResourcesType'
      BY <1>3 DEF ConfirmRead, TypeInv, JobsType, ResourcesType
    <2>2. ReqsType' /\ RequestFields'
      <3> DEFINE End(result) == reqs' = [reqs EXCEPT ![r] =
                    [op |-> "confirm", pc |-> "done", user |-> u, content |-> None,
                     job |-> j, created |-> FALSE, result |-> result]]
      <3>1. \/ Refuse(r, "confirm")
            \/ \E new \in BOOLEAN : Begin(r, "confirm", u, None, j, new, "check")
            \/ \E result \in {"ok", "rejected"} : End(result)
        <4> DEFINE res == IF jobs[j].status = "uploaded" THEN "ok" ELSE "rejected"
        <4>1. res \in {"ok", "rejected"}
          OBVIOUS
        <4>2. Refuse(r, "confirm") \/ Begin(r, "confirm", u, None, j, FALSE, "check") \/ End(res)
          BY <1>3 DEF ConfirmRead
        <4> QED
          BY <4>1, <4>2
      <3>2. CASE Refuse(r, "confirm")
        BY <3>2, RefuseEffect DEF TypeInv, ReqsType, RequestFields
      <3>3. ASSUME NEW new \in BOOLEAN, Begin(r, "confirm", u, None, j, new, "check")
            PROVE  ReqsType' /\ RequestFields'
        <4> DEFINE op == "confirm"
                   pc == "check"
        <4>1. op \in OpKinds /\ pc \in RequestPcs /\ pc \notin {"idle", "done", "save"}
          OBVIOUS
        <4> HIDE DEF op, pc
        <4>2. Begin(r, op, u, None, j, new, pc)
          BY <3>3 DEF op, pc
        <4>3. ReqsType /\ None \in Contents \cup {None}
          BY DEF TypeInv
        <4>4. /\ reqs' \in [Reqs -> Request] /\ reqs'[r].pc = pc /\ reqs'[r].job = j
              /\ \A q \in Reqs : q # r => reqs'[q] = reqs[q]
          BY <4>1, <4>2, <4>3, BeginEffect
        <4> QED
          BY <4>1, <4>4 DEF TypeInv, ReqsType, RequestFields
      <3>4. ASSUME NEW result \in {"ok", "rejected"}, End(result)
            PROVE  ReqsType' /\ RequestFields'
        BY <3>4, ConfirmEndEffect DEF TypeInv, ReqsType, RequestFields
      <3> QED
        BY <3>1, <3>2, <3>3, <3>4
    <2> QED
      BY <2>1, <2>2
  <1>4. ASSUME NEW r \in Reqs, SaveInput(r)
        PROVE  JobsType' /\ ResourcesType' /\ ReqsType' /\ RequestFields'
    BY <1>4, GotoEffect
    DEF SaveInput, At, Job, SaveObject, TypeInv, JobsType, ResourcesType, ReqsType, RequestFields
  <1>5. ASSUME NEW r \in Reqs, MarkSubmitted(r)
        PROVE  JobsType' /\ ResourcesType' /\ ReqsType' /\ RequestFields'
    BY <1>5, GotoEffect, MarkUploadedEffect
    DEF MarkSubmitted, At, Job, Rejects, RowMoves, TypeInv, JobsType, ResourcesType,
        resourceVars, ReqsType, RequestFields
  <1>6. ASSUME NEW r \in Reqs, SignUrl(r)
        PROVE  JobsType' /\ ResourcesType' /\ ReqsType' /\ RequestFields'
    BY <1>6, GotoEffect, FinishEffect
    DEF SignUrl, At, Job, TypeInv, JobsType, ResourcesType, ReqsType, RequestFields
  <1>7. ASSUME NEW r \in Reqs, CheckObject(r)
        PROVE  JobsType' /\ ResourcesType' /\ ReqsType' /\ RequestFields'
    BY <1>7, GotoEffect, FinishEffect
    DEF CheckObject, At, Job, TypeInv, JobsType, ResourcesType, resourceVars, ReqsType, RequestFields
  <1>8. ASSUME NEW r \in Reqs, MarkConfirmed(r)
        PROVE  JobsType' /\ ResourcesType' /\ ReqsType' /\ RequestFields'
    BY <1>8, GotoEffect, FinishEffect, MarkUploadedEffect
    DEF MarkConfirmed, At, Job, Rejects, RowMoves, TypeInv, JobsType, ResourcesType,
        resourceVars, ReqsType, RequestFields
  <1>9. ASSUME NEW r \in Reqs, Reread(r)
        PROVE  JobsType' /\ ResourcesType' /\ ReqsType' /\ RequestFields'
    BY <1>9, FinishEffect
    DEF Reread, At, Job, TypeInv, JobsType, ResourcesType, resourceVars, ReqsType, RequestFields
  <1>10. ASSUME NEW r \in Reqs, Enqueue(r)
         PROVE  JobsType' /\ ResourcesType' /\ ReqsType' /\ RequestFields'
    BY <1>10, GotoEffect, FinishEffect
    DEF Enqueue, At, Job, PublishTask, Message, TypeInv, JobsType, ResourcesType, ReqsType, RequestFields
  <1>11. ASSUME NEW r \in Reqs, MarkFailedSafely(r)
         PROVE  JobsType' /\ ResourcesType' /\ ReqsType' /\ RequestFields'
    BY <1>11, FinishEffect, MarkFailedEffect
    DEF MarkFailedSafely, At, Job, Rejects, RowMoves, TypeInv, JobsType, ResourcesType,
        resourceVars, ReqsType, RequestFields
  <1>12. ASSUME NEW r \in Reqs, ApiCrash(r)
         PROVE  JobsType' /\ ResourcesType' /\ ReqsType' /\ RequestFields'
    BY <1>12, FinishEffect
    DEF ApiCrash, TypeInv, JobsType, ResourcesType, resourceVars, ReqsType, RequestFields
  <1>13. ASSUME NEW j \in JobIds, NEW c \in Contents, ClientPut(j, c)
         PROVE  JobsType' /\ ResourcesType' /\ ReqsType' /\ RequestFields'
    BY <1>13
    DEF ClientPut, SaveObject, TypeInv, JobsType, ResourcesType, ReqsType, RequestFields
  <1> QED
    BY <1>1, <1>2, <1>3, <1>4, <1>5, <1>6, <1>7, <1>8, <1>9, <1>10, <1>11, <1>12, <1>13
    DEF ServiceStep, Arrive, Proceed, TypeInv

LEMMA WorkerType ==
  ASSUME TypeInv, WorkerStep, UNCHANGED reqs
  PROVE  TypeInv'
  <1>1. ReqsType' /\ RequestFields'
    BY DEF TypeInv, ReqsType, RequestFields
  <1> USE DEF WorkerPcs
  <1> DEFINE Typed == /\ JobsType' /\ ResourcesType' /\ WorkersType' /\ WorkerFields'
                      /\ executions' \in [JobIds -> Nat]
  <1>2. ASSUME NEW w \in Workers, NEW m \in queue, Receive(w, m) PROVE Typed
    <2>1. m \in Message
      BY DEF TypeInv, ResourcesType
    <2>2. WorkersType' /\ WorkerFields'
      BY <1>2, <2>1, ReceiveEffect DEF Message, TypeInv, WorkersType, WorkerFields
    <2> QED
      BY <1>2, <2>2 DEF Receive, TypeInv, JobsType, ResourcesType
  <1>3. ASSUME NEW w \in Workers, Load(w) PROVE Typed
    BY <1>3, WorkerGotoEffect, ReleaseEffect
    DEF Load, WorkerAt, TypeInv, JobsType, ResourcesType, resourceVars, WorkersType, WorkerFields
  <1>4. ASSUME NEW w \in Workers, Claim(w) PROVE Typed
    BY <1>4, WorkerGotoEffect, ReleaseEffect, MarkRunningEffect
    DEF Claim, WorkerAt, Task, Rejects, RowMoves, TypeInv, JobsType, ResourcesType, resourceVars,
        WorkersType, WorkerFields
  <1>5. ASSUME NEW w \in Workers, Resolve(w) PROVE Typed
    BY <1>5, WorkerGotoEffect, ResolveEffect
    DEF Resolve, WorkerAt, Task, TypeInv, JobsType, ResourcesType, resourceVars,
        WorkersType, WorkerFields
  <1>6. ASSUME NEW w \in Workers, Execute(w) PROVE Typed
    BY <1>6, WorkerGotoEffect
    DEF Execute, WorkerAt, TypeInv, JobsType, ResourcesType, resourceVars, WorkersType, WorkerFields
  <1>7. ASSUME NEW w \in Workers, Complete(w) PROVE Typed
    <2>1. Task(w) \in JobIds /\ workers[w].copy \in Contents
      BY <1>7 DEF Complete, WorkerAt, Task, TypeInv, WorkerFields
    <2>2. JobsType'
      <3>1. UNCHANGED jobs \/ MarkCompleted(Task(w), workers[w].copy)
        BY <1>7 DEF Complete, Rejects
      <3> QED
        BY <2>1, <3>1, MarkCompletedEffect DEF RowMoves, TypeInv, JobsType
    <2>3. WorkersType' /\ WorkerFields'
      <3>1. WorkerGoto(w, "fail") \/ \E yes \in BOOLEAN : Persisted(w, yes)
        BY <1>7 DEF Complete
      <3> QED
        BY <2>1, <3>1, WorkerGotoEffect, PersistedEffect DEF Task, TypeInv, WorkerFields, WorkersType
    <2>4. ResourcesType' /\ executions' \in [JobIds -> Nat]
      BY <1>7 DEF Complete, TypeInv, ResourcesType, resourceVars
    <2> QED
      BY <2>2, <2>3, <2>4
  <1>8. ASSUME NEW w \in Workers, Fail(w) PROVE Typed
    <2>1. Task(w) \in JobIds
      BY <1>8 DEF Fail, WorkerAt, Task, TypeInv, WorkerFields
    <2>2. JobsType'
      <3>1. UNCHANGED jobs \/ MarkFailed(Task(w))
        BY <1>8 DEF Fail, Rejects
      <3> QED
        BY <2>1, <3>1, MarkFailedEffect DEF RowMoves, TypeInv, JobsType
    <2>3. WorkersType' /\ WorkerFields'
      <3>1. \E yes \in BOOLEAN : Persisted(w, yes)
        BY <1>8 DEF Fail
      <3> QED
        BY <2>1, <3>1, PersistedEffect DEF Task, TypeInv, WorkerFields, WorkersType
    <2>4. ResourcesType' /\ executions' \in [JobIds -> Nat]
      BY <1>8 DEF Fail, TypeInv, ResourcesType, resourceVars
    <2> QED
      BY <2>2, <2>3, <2>4
  <1>9. ASSUME NEW w \in Workers, FinishRun(w) PROVE Typed
    BY <1>9, ReleaseEffect
    DEF FinishRun, WorkerAt, Task, DeletePrefix, TypeInv, JobsType, ResourcesType,
        WorkersType, WorkerFields
  <1>10. ASSUME NEW w \in Workers, WorkerCrash(w) PROVE Typed
    BY <1>10, ReleaseEffect
    DEF WorkerCrash, TypeInv, JobsType, ResourcesType, resourceVars, WorkersType, WorkerFields
  <1> QED
    BY <1>1, <1>2, <1>3, <1>4, <1>5, <1>6, <1>7, <1>8, <1>9, <1>10
    DEF WorkerStep, Run, TypeInv

LEMMA TypeInvStep == TypeInv /\ [Next]_vars => TypeInv'
  <1> SUFFICES ASSUME TypeInv, [Next]_vars PROVE TypeInv'
    OBVIOUS
  <1>1. CASE ServiceStep /\ UNCHANGED workerVars
    BY <1>1, ServiceType
  <1>2. CASE WorkerStep /\ UNCHANGED reqs
    BY <1>2, WorkerType
  <1>3. CASE UNCHANGED vars
    BY <1>3 DEF vars, resourceVars, workerVars, TypeInv, JobsType, ResourcesType, ReqsType,
                RequestFields, WorkersType, WorkerFields
  <1> QED
    BY <1>1, <1>2, <1>3 DEF Next

\* Every process, row and message of the pipeline keeps its type.
THEOREM TypeCorrect == Spec => []TypeOK
  <1>1. Spec => []TypeInv
    BY TypeInvInit, TypeInvStep, PTL DEF Spec
  <1>2. TypeInv => TypeOK
    BY DEF TypeInv, TypeOK, JobsType, ResourcesType, ReqsType, WorkersType
  <1> QED
    BY <1>1, <1>2, PTL

-----------------------------------------------------------------------------
(* The jobs table: every step runs at most one operation of the store.      *)

ServiceRows ==
    \/ UNCHANGED jobs
    \/ \E j \in JobIds, u \in Users, k \in RunIds \cup {None}, c \in Contents,
          d \in BOOLEAN : InsertRow(j, u, k, c, d)
    \/ \E j \in JobIds : MarkUploaded(j) \/ MarkFailed(j)

WorkerRows ==
    \/ UNCHANGED jobs
    \/ \E j \in JobIds : MarkRunning(j) \/ MarkFailed(j)
    \/ \E j \in JobIds, c \in Contents : MarkCompleted(j, c)

LEMMA ServiceRowsStep ==
  ASSUME TypeInv, ServiceStep
  PROVE  ServiceRows
  <1>1. ASSUME NEW r \in Reqs, NEW op \in Ops, NEW u \in Users,
               NEW k \in RunIds \cup {None}, NEW c \in Contents, Create(r, op, u, k, c)
        PROVE  ServiceRows
    <2>1. (op = "prepare") \in BOOLEAN
      OBVIOUS
    <2>2. \/ UNCHANGED jobs
          \/ \E j \in JobIds : InsertRow(j, u, k, c, op = "prepare")
      BY <1>1 DEF Create
    <2> QED
      BY <2>1, <2>2 DEF ServiceRows
  <1>2. ASSUME NEW r \in Reqs, NEW u \in Users, NEW j \in JobIds, ConfirmRead(r, u, j)
        PROVE  ServiceRows
    BY <1>2 DEF ConfirmRead, ServiceRows
  <1>3. ASSUME NEW r \in Reqs, Proceed(r) PROVE ServiceRows
    <2>1. reqs[r].pc \notin {"idle", "done"} => Job(r) \in JobIds
      BY DEF TypeInv, RequestFields, Job
    <2> QED
      BY <1>3, <2>1
      DEF Proceed, SaveInput, MarkSubmitted, SignUrl, CheckObject, MarkConfirmed, Reread,
          Enqueue, MarkFailedSafely, At, Rejects, ServiceRows
  <1>4. ASSUME NEW r \in Reqs, ApiCrash(r) PROVE ServiceRows
    BY <1>4 DEF ApiCrash, ServiceRows
  <1>5. ASSUME NEW j \in JobIds, NEW c \in Contents, ClientPut(j, c) PROVE ServiceRows
    BY <1>5 DEF ClientPut, ServiceRows
  <1> QED
    BY <1>1, <1>2, <1>3, <1>4, <1>5 DEF ServiceStep, Arrive

LEMMA WorkerRowsStep ==
  ASSUME TypeInv, WorkerStep
  PROVE  WorkerRows
  <1>1. PICK w \in Workers : Run(w) \/ WorkerCrash(w)
    BY DEF WorkerStep
  <1>2. workers[w].pc # "idle" => Task(w) \in JobIds
    BY DEF TypeInv, WorkerFields, Task
  <1>3. workers[w].pc = "complete" => workers[w].copy \in Contents
    BY DEF TypeInv, WorkerFields
  <1> QED
    BY <1>1, <1>2, <1>3
    DEF Run, WorkerCrash, Receive, Load, Claim, Resolve, Execute, Complete, Fail, FinishRun,
        WorkerAt, Rejects, WorkerRows

\* The states of a job some worker has claimed.
Started == {"running", "completed", "failed"}

\* No operation moves a job out of Started, and none touches a terminal row.
LEMMA RowsMonotone ==
  ASSUME TypeInv, ServiceRows \/ WorkerRows, NEW j \in JobIds
  PROVE  /\ jobs[j].status \in Started => jobs'[j].status \in Started
         /\ jobs[j].status \in Terminal => jobs'[j] = jobs[j]
  <1> USE DEF Started, Terminal, RowMoves, TypeInv
  <1>1. CASE UNCHANGED jobs
    BY <1>1
  <1>2. CASE \E i \in JobIds, u \in Users, k \in RunIds \cup {None}, c \in Contents,
                d \in BOOLEAN : InsertRow(i, u, k, c, d)
    <2>1. \E i \in JobIds : /\ jobs[i].status = "absent"
                             /\ \A n \in JobIds : n # i => jobs'[n] = jobs[n]
      BY <1>2, InsertRowEffect
    <2> QED
      BY <2>1
  <1>3. CASE \E i \in JobIds : MarkUploaded(i)
    BY <1>3, MarkUploadedEffect
  <1>4. CASE \E i \in JobIds : MarkFailed(i)
    BY <1>4, MarkFailedEffect
  <1>5. CASE \E i \in JobIds : MarkRunning(i)
    BY <1>5, MarkRunningEffect
  <1>6. CASE \E i \in JobIds, c \in Contents : MarkCompleted(i, c)
    <2>1. \E i \in JobIds : /\ jobs[i].status = "running" /\ jobs'[i].status = "completed"
                             /\ \A n \in JobIds : n # i => jobs'[n] = jobs[n]
      BY <1>6, MarkCompletedEffect
    <2> QED
      BY <2>1
  <1> QED
    BY <1>1, <1>2, <1>3, <1>4, <1>5, <1>6 DEF ServiceRows, WorkerRows

\* A completed or failed job keeps its row for ever.
THEOREM TerminalStaysFinal == Spec => TerminalIsFinal
  <1> DEFINE Final == \A j \in JobIds : jobs[j].status \in Terminal => jobs'[j] = jobs[j]
  <1>1. TypeInv /\ [Next]_vars => [Final]_vars
    BY ServiceRowsStep, WorkerRowsStep, RowsMonotone DEF Next
  <1>2. Spec => []TypeInv
    BY TypeInvInit, TypeInvStep, PTL DEF Spec
  <1> QED
    BY <1>1, <1>2, PTL DEF Spec, TerminalIsFinal

-----------------------------------------------------------------------------
(* One job per idempotency key.                                             *)

LEMMA RunIdUniqueStep ==
  ASSUME TypeInv, RunIdUnique, ServiceRows \/ WorkerRows
  PROVE  RunIdUnique'
  <1> USE DEF RunIdUnique
  <1>1. CASE \A i \in JobIds : jobs'[i].run = jobs[i].run
    BY <1>1
  <1>2. ASSUME NEW j \in JobIds, NEW u \in Users, NEW k \in RunIds \cup {None},
               NEW c \in Contents, NEW d \in BOOLEAN, InsertRow(j, u, k, c, d)
        PROVE  RunIdUnique'
    <2>1. /\ jobs'[j].run = k
          /\ \A i \in JobIds : i # j => jobs'[i] = jobs[i]
          /\ k # None => \A i \in JobIds : jobs[i].run # k
      BY <1>2, InsertRowEffect DEF TypeInv, RunIdTaken
    <2> QED
      BY <2>1
  <1>3. \/ \A i \in JobIds : jobs'[i].run = jobs[i].run
        \/ \E j \in JobIds, u \in Users, k \in RunIds \cup {None}, c \in Contents,
              d \in BOOLEAN : InsertRow(j, u, k, c, d)
    <2> USE DEF RowMoves, TypeInv
    <2>1. \A j \in JobIds : MarkUploaded(j) => \A i \in JobIds : jobs'[i].run = jobs[i].run
      BY MarkUploadedEffect
    <2>2. \A j \in JobIds : MarkFailed(j) => \A i \in JobIds : jobs'[i].run = jobs[i].run
      BY MarkFailedEffect
    <2>3. \A j \in JobIds : MarkRunning(j) => \A i \in JobIds : jobs'[i].run = jobs[i].run
      BY MarkRunningEffect
    <2>4. \A j \in JobIds, c \in Contents :
             MarkCompleted(j, c) => \A i \in JobIds : jobs'[i].run = jobs[i].run
      BY MarkCompletedEffect
    <2> QED
      BY <2>1, <2>2, <2>3, <2>4 DEF ServiceRows, WorkerRows
  <1> HIDE DEF RunIdUnique
  <1> QED
    BY <1>1, <1>2, <1>3, Zenon

\* Requests that repeat an idempotency key never make a second job.
THEOREM OneJobPerRunId == Spec => []RunIdUnique
  <1>1. Init => RunIdUnique
    BY DEF Init, JobStoreInit, NoRow, RunIdUnique
  <1>2. TypeInv /\ RunIdUnique /\ [Next]_vars => RunIdUnique'
    <2> SUFFICES ASSUME TypeInv, RunIdUnique, [Next]_vars PROVE RunIdUnique'
      OBVIOUS
    <2>1. CASE Next
      BY <2>1, ServiceRowsStep, WorkerRowsStep, RunIdUniqueStep DEF Next
    <2>2. CASE UNCHANGED vars
      BY <2>2 DEF vars, RunIdUnique
    <2> QED
      BY <2>1, <2>2
  <1>3. Spec => []TypeInv
    BY TypeInvInit, TypeInvStep, PTL DEF Spec
  <1> QED
    BY <1>1, <1>2, <1>3, PTL DEF Spec

-----------------------------------------------------------------------------
(* The queue: the request whose mark_uploaded won is the only one that may  *)
(* publish, and by then the upload is committed.                            *)

\* The states of a job whose upload was committed (or that failed).
Uploaded == {"uploaded", "running", "completed", "failed"}

AtEnqueue(r, j) == reqs[r].pc = "enqueue" /\ reqs[r].job = j

PublishInv ==
    /\ \A j \in JobIds, r \in Reqs :
          AtEnqueue(r, j) => jobs[j].status \in Uploaded /\ published[j] = {}
    /\ \A j \in JobIds, r1, r2 \in Reqs :
          AtEnqueue(r1, j) /\ AtEnqueue(r2, j) => r1 = r2
    /\ \A j \in JobIds : published[j] # {} => jobs[j].status \in Uploaded
    /\ PublishedOnce
    /\ \A m \in queue : m.by \in published[m.job]

\* No operation takes a job back before its upload.
LEMMA RowsStayUploaded ==
  ASSUME TypeInv, ServiceRows \/ WorkerRows, NEW j \in JobIds, jobs[j].status \in Uploaded
  PROVE  jobs'[j].status \in Uploaded
  <1>1. CASE jobs[j].status \in Started
    BY <1>1, RowsMonotone DEF Started, Uploaded
  <1>2. CASE jobs[j].status = "uploaded"
    <2> USE <1>2 DEF Uploaded, RowMoves, TypeInv
    <2>1. ASSUME NEW i \in JobIds, NEW u \in Users, NEW k \in RunIds \cup {None},
                 NEW c \in Contents, NEW d \in BOOLEAN, InsertRow(i, u, k, c, d)
          PROVE  jobs'[j].status \in Uploaded
      BY <2>1, InsertRowEffect
    <2>2. ASSUME NEW i \in JobIds, MarkUploaded(i) PROVE jobs'[j].status \in Uploaded
      BY <2>2, MarkUploadedEffect
    <2>3. ASSUME NEW i \in JobIds, MarkFailed(i) PROVE jobs'[j].status \in Uploaded
      BY <2>3, MarkFailedEffect
    <2>4. ASSUME NEW i \in JobIds, MarkRunning(i) PROVE jobs'[j].status \in Uploaded
      BY <2>4, MarkRunningEffect
    <2>5. ASSUME NEW i \in JobIds, NEW c \in Contents, MarkCompleted(i, c)
          PROVE  jobs'[j].status \in Uploaded
      BY <2>5, MarkCompletedEffect
    <2> QED
      BY <2>1, <2>2, <2>3, <2>4, <2>5 DEF ServiceRows, WorkerRows
  <1> QED
    BY <1>1, <1>2 DEF Uploaded, Started

\* A step that publishes nothing and sends no new request to "enqueue".
LEMMA PublishInvFrame ==
  ASSUME TypeInv, PublishInv, ServiceRows \/ WorkerRows,
         UNCHANGED published, queue' \subseteq queue,
         \A r \in Reqs, j \in JobIds : AtEnqueue(r, j)' => AtEnqueue(r, j)
  PROVE  PublishInv'
  <1> USE DEF PublishInv, PublishedOnce
  <1>1. \A j \in JobIds : jobs[j].status \in Uploaded => jobs'[j].status \in Uploaded
    BY RowsStayUploaded
  <1> QED
    BY <1>1

\* The winner of mark_uploaded goes to "enqueue".
LEMMA PublishInvWinner ==
  ASSUME TypeInv, PublishInv, NEW r \in Reqs, Job(r) \in JobIds,
         MarkUploaded(Job(r)), Goto(r, "enqueue"), UNCHANGED <<published, queue>>
  PROVE  PublishInv'
  <1> DEFINE j == reqs[r].job
  <1>1. /\ jobs[j].status = "pending" /\ jobs'[j].status = "uploaded"
        /\ \A i \in JobIds : i # j => jobs'[i] = jobs[i]
    BY MarkUploadedEffect DEF RowMoves, TypeInv, Job
  <1>2. /\ reqs'[r].pc = "enqueue" /\ reqs'[r].job = j
        /\ \A q \in Reqs : q # r => reqs'[q] = reqs[q]
    BY GotoEffect DEF TypeInv, RequestPcs
  <1>3. published[j] = {} /\ \A q \in Reqs : ~AtEnqueue(q, j)
    BY <1>1 DEF PublishInv, Uploaded, Job
  <1>4. \A q \in Reqs, i \in JobIds :
           AtEnqueue(q, i)' => (q = r /\ i = j) \/ (AtEnqueue(q, i) /\ i # j)
    BY <1>2, <1>3 DEF AtEnqueue
  <1>5. \A i \in JobIds : jobs[i].status \in Uploaded => jobs'[i].status \in Uploaded
    BY <1>1 DEF Uploaded
  <1>6. jobs'[j].status \in Uploaded
    BY <1>1 DEF Uploaded
  <1> HIDE DEF j
  <1> QED
    BY <1>3, <1>4, <1>5, <1>6 DEF PublishInv, PublishedOnce

LEMMA PublishInvPublish ==
  ASSUME TypeInv, PublishInv, NEW r \in Reqs, reqs[r].pc = "enqueue",
         UNCHANGED jobs, PublishTask(r, Job(r)),
         NEW pc \in {"done", "fail"}, reqs'[r].pc = pc,
         \A q \in Reqs : q # r => reqs'[q] = reqs[q]
  PROVE  PublishInv'
  <1> DEFINE j == reqs[r].job
  <1>1. j \in JobIds /\ AtEnqueue(r, j)
    BY DEF TypeInv, RequestFields, AtEnqueue
  <1>2. published[j] = {} /\ jobs[j].status \in Uploaded
    BY <1>1 DEF PublishInv
  <1>3. /\ published'[j] = {r}
        /\ \A i \in JobIds : i # j => published'[i] = published[i]
    BY <1>1, <1>2 DEF PublishTask, Job, TypeInv, ResourcesType
  <1>4. \A q \in Reqs, i \in JobIds : AtEnqueue(q, i)' => AtEnqueue(q, i) /\ q # r
    BY DEF AtEnqueue
  <1>5. \A q \in Reqs : AtEnqueue(q, j) => q = r
    BY <1>1 DEF PublishInv
  <1>6. \A m \in queue : m.job \in JobIds
    BY DEF TypeInv, ResourcesType, Message
  <1>7. \A m \in queue' : m.by \in published'[m.job]
    BY <1>1, <1>2, <1>3, <1>6 DEF PublishInv, PublishTask, Job
  <1> HIDE DEF j
  <1> QED
    BY <1>1, <1>2, <1>3, <1>4, <1>5, <1>7 DEF PublishInv, PublishedOnce

LEMMA PublishInvStep ==
  ASSUME TypeInv, PublishInv, Next
  PROVE  PublishInv'
  <1>1. ServiceRows \/ WorkerRows
    BY ServiceRowsStep, WorkerRowsStep DEF Next
  <1> DEFINE NoNew == \A r \in Reqs, j \in JobIds : AtEnqueue(r, j)' => AtEnqueue(r, j)
             Quiet == UNCHANGED published /\ queue' \subseteq queue /\ NoNew
  <1>2. Quiet => PublishInv'
    BY <1>1, PublishInvFrame
  <1>3. CASE WorkerStep /\ UNCHANGED reqs
    <2>1. NoNew
      BY <1>3 DEF AtEnqueue
    <2>2. UNCHANGED published /\ queue' \subseteq queue
      BY <1>3 DEF WorkerStep, Run, WorkerCrash, Receive, Load, Claim, Resolve, Execute, Complete,
                  Fail, FinishRun, resourceVars
    <2> QED
      BY <1>2, <2>1, <2>2
  <1>4. ASSUME NEW r \in Reqs, NEW op \in Ops, NEW u \in Users,
               NEW k \in RunIds \cup {None}, NEW c \in Contents, Create(r, op, u, k, c)
        PROVE  PublishInv'
    <2>1. \/ \E j \in JobIds, new \in BOOLEAN, pc \in {"save", "url"} :
                Begin(r, op, u, c, j, new, pc)
          \/ Refuse(r, op)
      BY <1>4 DEF Create
    <2>2. op \in OpKinds
      BY OpsAssumption
    <2>3. NoNew
      <3>1. ASSUME NEW j \in JobIds, NEW new \in BOOLEAN, NEW pc \in {"save", "url"},
                   Begin(r, op, u, c, j, new, pc)
            PROVE  NoNew
        <4>1. pc \in RequestPcs
          BY DEF RequestPcs
        <4> QED
          BY <2>2, <3>1, <4>1, BeginEffect DEF TypeInv, AtEnqueue
      <3>2. CASE Refuse(r, op)
        BY <2>2, <3>2, RefuseEffect DEF TypeInv, AtEnqueue
      <3> QED
        BY <2>1, <3>1, <3>2
    <2> QED
      BY <1>2, <1>4, <2>3 DEF Create, resourceVars
  <1>5. ASSUME NEW r \in Reqs, NEW u \in Users, NEW j \in JobIds, ConfirmRead(r, u, j)
        PROVE  PublishInv'
    <2>1. reqs'[r].pc \in {"done", "check"} /\ \A q \in Reqs : q # r => reqs'[q] = reqs[q]
      BY <1>5 DEF ConfirmRead, Refuse, Begin, TypeInv, ReqsType
    <2>2. NoNew
      BY <2>1 DEF AtEnqueue
    <2> QED
      BY <1>2, <1>5, <2>2 DEF ConfirmRead
  <1>6. ASSUME NEW r \in Reqs, MarkSubmitted(r) \/ MarkConfirmed(r)
        PROVE  PublishInv'
    <2>1. CASE MarkUploaded(Job(r)) /\ Goto(r, "enqueue")
      <3>1. Job(r) \in JobIds /\ UNCHANGED <<published, queue>>
        BY <1>6 DEF MarkSubmitted, MarkConfirmed, At, Job, TypeInv, RequestFields, resourceVars
      <3> QED
        BY <2>1, <3>1, PublishInvWinner
    <2>2. CASE \E pc \in {"fail", "reread"} : Goto(r, pc)
      <3>1. NoNew
        BY <2>2, GotoEffect DEF TypeInv, AtEnqueue, RequestPcs
      <3> QED
        BY <1>2, <1>6, <3>1 DEF MarkSubmitted, MarkConfirmed, resourceVars
    <2>3. CASE Finish(r, "error")
      <3>1. NoNew
        BY <2>3, FinishEffect DEF TypeInv, AtEnqueue
      <3> QED
        BY <1>2, <1>6, <3>1 DEF MarkSubmitted, MarkConfirmed, resourceVars
    <2> QED
      BY <1>6, <2>1, <2>2, <2>3 DEF MarkSubmitted, MarkConfirmed
  <1>7. ASSUME NEW r \in Reqs, Enqueue(r) PROVE PublishInv'
    <2>1. \/ \E pc \in {"done", "fail"} :
                /\ PublishTask(r, Job(r))
                /\ reqs'[r].pc = pc
                /\ \A q \in Reqs : q # r => reqs'[q] = reqs[q]
          \/ UNCHANGED <<queue, published>> /\ Goto(r, "fail")
      BY <1>7, GotoEffect, FinishEffect DEF Enqueue, TypeInv, RequestPcs
    <2>2. CASE UNCHANGED <<queue, published>> /\ Goto(r, "fail")
      BY <1>2, <2>2, GotoEffect DEF TypeInv, AtEnqueue, RequestPcs
    <2> QED
      BY <1>7, <2>1, <2>2, PublishInvPublish DEF Enqueue, At
  <1>8. ASSUME NEW r \in Reqs,
               SaveInput(r) \/ SignUrl(r) \/ CheckObject(r) \/ Reread(r)
                 \/ MarkFailedSafely(r) \/ ApiCrash(r)
        PROVE  PublishInv'
    <2>1. \/ \E pc \in {"mark", "fail"} : Goto(r, pc)
          \/ \E result \in {"ok", "error", "rejected", "crashed"} : Finish(r, result)
      BY <1>8 DEF SaveInput, SignUrl, CheckObject, Reread, MarkFailedSafely, ApiCrash
    <2>2. NoNew
      BY <2>1, GotoEffect, FinishEffect DEF TypeInv, AtEnqueue, RequestPcs
    <2> QED
      BY <1>2, <1>8, <2>2
      DEF SaveInput, SignUrl, CheckObject, Reread, MarkFailedSafely, ApiCrash, resourceVars
  <1>9. ASSUME NEW j \in JobIds, NEW c \in Contents, ClientPut(j, c) PROVE PublishInv'
    BY <1>2, <1>9 DEF ClientPut, AtEnqueue
  <1> QED
    BY <1>3, <1>4, <1>5, <1>6, <1>7, <1>8, <1>9 DEF Next, ServiceStep, Arrive, Proceed

\* Whatever races for a job, one request at most hands it to the queue, and
\* only after the upload is committed.
THEOREM PublishedOnceAfterCommit == Spec => [](PublishedOnce /\ QueuedAfterCommit)
  <1>1. Init => PublishInv
    BY DEF Init, ResourcesInit, ServiceInit, NoRequest, PublishInv, PublishedOnce, AtEnqueue
  <1>2. TypeInv /\ PublishInv /\ [Next]_vars => PublishInv'
    <2> SUFFICES ASSUME TypeInv, PublishInv, [Next]_vars PROVE PublishInv'
      OBVIOUS
    <2>1. CASE UNCHANGED vars
      BY <2>1 DEF vars, resourceVars, PublishInv, PublishedOnce, AtEnqueue
    <2> QED
      BY <2>1, PublishInvStep
  <1>3. TypeInv /\ PublishInv => PublishedOnce /\ QueuedAfterCommit
    <2> SUFFICES ASSUME TypeInv, PublishInv, NEW m \in queue
                 PROVE  jobs[m.job].status \notin {"absent", "pending"}
      BY DEF PublishInv, QueuedAfterCommit
    <2>1. m.job \in JobIds /\ published[m.job] # {}
      BY DEF TypeInv, ResourcesType, Message, PublishInv
    <2> QED
      BY <2>1 DEF PublishInv, Uploaded
  <1>4. Spec => []TypeInv
    BY TypeInvInit, TypeInvStep, PTL DEF Spec
  <1> QED
    BY <1>1, <1>2, <1>3, <1>4, PTL DEF Spec

\* The queue never holds a job whose upload is not committed: mark_uploaded is
\* before enqueue in _start and in confirm_presigned_upload.
THEOREM QueuedOnlyAfterCommit == Spec => []QueuedAfterCommit
  BY PublishedOnceAfterCommit, PTL

-----------------------------------------------------------------------------
(* A request works on a row of its own user: the row was inserted for it,   *)
(* or the owner was compared when it was found, and neither side changes.   *)

OwnsRow(r) ==
    /\ Job(r) \in JobIds
    /\ jobs[Job(r)].status # "absent"
    /\ jobs[Job(r)].owner = reqs[r].user
    /\ At(r, {"prepare"}, "url") => SameFingerprint(Job(r), reqs[r].content)

OwnerInv ==
    /\ \A j \in JobIds : jobs[j].status = "absent" => jobs[j].run = None
    /\ \A r \in Reqs : Job(r) # None => OwnsRow(r)

\* No operation changes whose row it is, or for which upload.
LEMMA RowsKeepIdentity ==
  ASSUME TypeInv, ServiceRows \/ WorkerRows, NEW j \in JobIds
  PROVE  \/ /\ jobs'[j].status = "absent" <=> jobs[j].status = "absent"
            /\ jobs'[j].run = jobs[j].run /\ jobs'[j].owner = jobs[j].owner
            /\ jobs'[j].input = jobs[j].input /\ jobs'[j].direct = jobs[j].direct
         \/ jobs[j].status = "absent" /\ jobs'[j].status = "pending"
  <1> DEFINE Same == /\ jobs'[j].status = "absent" <=> jobs[j].status = "absent"
                     /\ jobs'[j].run = jobs[j].run /\ jobs'[j].owner = jobs[j].owner
                     /\ jobs'[j].input = jobs[j].input /\ jobs'[j].direct = jobs[j].direct
             New == jobs[j].status = "absent" /\ jobs'[j].status = "pending"
  <1>1. ASSUME NEW i \in JobIds, NEW u \in Users, NEW k \in RunIds \cup {None},
               NEW c \in Contents, NEW d \in BOOLEAN, InsertRow(i, u, k, c, d)
        PROVE  Same \/ New
    BY <1>1, InsertRowEffect DEF TypeInv
  <1>2. ASSUME NEW i \in JobIds, NEW status \in {"uploaded", "running", "completed", "failed"},
               jobs[i].status # "absent", RowMoves(i, status)
        PROVE  Same
    BY <1>2 DEF RowMoves
  <1> HIDE DEF Same, New
  <1>3. ASSUME NEW i \in JobIds, MarkUploaded(i) PROVE Same
    BY <1>2, <1>3, MarkUploadedEffect DEF TypeInv
  <1>4. ASSUME NEW i \in JobIds, MarkFailed(i) PROVE Same
    BY <1>2, <1>4, MarkFailedEffect DEF TypeInv
  <1>5. ASSUME NEW i \in JobIds, MarkRunning(i) PROVE Same
    BY <1>2, <1>5, MarkRunningEffect DEF TypeInv
  <1>6. ASSUME NEW i \in JobIds, NEW c \in Contents, MarkCompleted(i, c) PROVE Same
    BY <1>2, <1>6, MarkCompletedEffect DEF TypeInv
  <1>7. UNCHANGED jobs => Same
    BY DEF Same
  <1>8. Same \/ New
    BY <1>1, <1>3, <1>4, <1>5, <1>6, <1>7 DEF ServiceRows, WorkerRows
  <1> QED
    BY <1>8 DEF Same, New

\* What the step of one request must show.
LEMMA OwnerInvFrame ==
  ASSUME TypeInv, OwnerInv, ServiceRows \/ WorkerRows, NEW r \in Reqs,
         \A q \in Reqs : q # r => reqs'[q] = reqs[q],
         \/ reqs'[r].job = None
         \/ OwnsRow(r)'
         \/ /\ reqs'[r].job = reqs[r].job /\ reqs'[r].user = reqs[r].user
            /\ reqs'[r] = reqs[r] \/ reqs'[r].pc # "url"
  PROVE  OwnerInv'
  <1>1. ASSUME NEW j \in JobIds, jobs'[j].status = "absent" PROVE jobs'[j].run = None
    BY <1>1, RowsKeepIdentity DEF OwnerInv
  <1>2. ASSUME NEW q \in Reqs, Job(q) # None,
               reqs'[q].job = reqs[q].job, reqs'[q].user = reqs[q].user,
               reqs'[q] = reqs[q] \/ reqs'[q].pc # "url"
        PROVE  OwnsRow(q)'
    <2>1. OwnsRow(q) /\ Job(q) \in JobIds
      BY <1>2 DEF OwnerInv, OwnsRow
    <2>2. /\ jobs'[Job(q)].status # "absent"
          /\ jobs'[Job(q)].owner = jobs[Job(q)].owner
          /\ jobs'[Job(q)].input = jobs[Job(q)].input
          /\ jobs'[Job(q)].direct = jobs[Job(q)].direct
      BY <2>1, RowsKeepIdentity DEF OwnsRow
    <2> QED
      BY <1>2, <2>1, <2>2 DEF OwnsRow, Job, At, SameFingerprint
  <1>3. \A q \in Reqs : reqs'[q].job # None => OwnsRow(q)'
    BY <1>2 DEF Job
  <1> QED
    BY <1>1, <1>3 DEF OwnerInv, Job

LEMMA OwnerInvStep ==
  ASSUME TypeInv, OwnerInv, Next
  PROVE  OwnerInv'
  <1>1. ServiceRows \/ WorkerRows
    BY ServiceRowsStep, WorkerRowsStep DEF Next
  <1> DEFINE Others(r) == \A q \in Reqs : q # r => reqs'[q] = reqs[q]
             Keeps(r)  == /\ reqs'[r].job = reqs[r].job /\ reqs'[r].user = reqs[r].user
                          /\ reqs'[r] = reqs[r] \/ reqs'[r].pc # "url"
  <1>2. ASSUME NEW r \in Reqs, Others(r), reqs'[r].job = None \/ OwnsRow(r)' \/ Keeps(r)
        PROVE  OwnerInv'
    BY <1>1, <1>2, OwnerInvFrame
  <1>3. CASE UNCHANGED reqs
    <2>1. CASE Reqs = {}
      BY <1>1, <2>1, RowsKeepIdentity DEF OwnerInv
    <2>2. CASE Reqs # {}
      <3>1. PICK r \in Reqs : TRUE
        BY <2>2
      <3> QED
        BY <1>2, <1>3, <3>1
    <2> QED
      BY <2>1, <2>2
  <1>4. ASSUME NEW r \in Reqs, NEW op \in Ops, NEW u \in Users,
               NEW k \in RunIds \cup {None}, NEW c \in Contents, Create(r, op, u, k, c)
        PROVE  OwnerInv'
    <2>1. op \in OpKinds /\ (op = "prepare") \in BOOLEAN
      BY OpsAssumption
    <2>2. ASSUME Refuse(r, op) PROVE OwnerInv'
      BY <1>2, <2>1, <2>2, RefuseEffect DEF TypeInv
    <2>3. ASSUME NEW j \in JobIds, NEW new \in BOOLEAN, NEW pc \in {"save", "url"},
                 Begin(r, op, u, c, j, new, pc),
                 jobs'[j].status # "absent", jobs'[j].owner = u,
                 op = "prepare" => jobs'[j].direct /\ jobs'[j].input = c
          PROVE  OwnerInv'
      <3>1. /\ reqs'[r].op = op /\ reqs'[r].job = j /\ reqs'[r].user = u
            /\ reqs'[r].content = c /\ Others(r)
        BY <2>1, <2>3, BeginEffect DEF TypeInv, RequestPcs
      <3>2. OwnsRow(r)'
        BY <2>3, <3>1 DEF OwnsRow, Job, At, SameFingerprint
      <3> QED
        BY <1>2, <3>1, <3>2
    <2>4. ASSUME NEW j \in JobIds, NEW pc \in {"save", "url"},
                 InsertRow(j, u, k, c, op = "prepare"), Begin(r, op, u, c, j, TRUE, pc)
          PROVE  OwnerInv'
      <3>1. /\ jobs'[j].status = "pending" /\ jobs'[j].owner = u
            /\ jobs'[j].direct = (op = "prepare") /\ jobs'[j].input = c
        BY <2>1, <2>4, InsertRowEffect DEF TypeInv
      <3> QED
        BY <2>3, <2>4, <3>1
    <2>5. ASSUME NEW j \in JobIds, NEW pc \in {"save", "url"},
                 IsExistingRun(j, k), UNCHANGED jobs, jobs[j].owner = u,
                 op = "prepare" => SameFingerprint(j, c), Begin(r, op, u, c, j, FALSE, pc)
          PROVE  OwnerInv'
      <3>1. jobs[j].status # "absent"
        BY <2>5 DEF IsExistingRun, OwnerInv
      <3> QED
        BY <2>3, <2>5, <3>1 DEF SameFingerprint
    <2>6. \/ Refuse(r, op)
          \/ \E j \in JobIds, pc \in {"save", "url"} :
                InsertRow(j, u, k, c, op = "prepare") /\ Begin(r, op, u, c, j, TRUE, pc)
          \/ \E j \in JobIds, pc \in {"save", "url"} :
                /\ IsExistingRun(j, k) /\ UNCHANGED jobs /\ jobs[j].owner = u
                /\ op = "prepare" => SameFingerprint(j, c)
                /\ Begin(r, op, u, c, j, FALSE, pc)
      BY <1>4 DEF Create
    <2> QED
      BY <2>2, <2>4, <2>5, <2>6
  <1>5. ASSUME NEW r \in Reqs, NEW u \in Users, NEW j \in JobIds, ConfirmRead(r, u, j)
        PROVE  OwnerInv'
    <2>1. UNCHANGED jobs
      BY <1>5 DEF ConfirmRead
    <2>2. ASSUME Refuse(r, "confirm") PROVE OwnerInv'
      <3>1. "confirm" \in OpKinds
        BY DEF OpKinds
      <3> QED
        BY <1>2, <2>2, <3>1, RefuseEffect DEF TypeInv
    <2>3. ASSUME jobs[j].owner = u, jobs[j].status # "absent", Others(r),
                 reqs'[r].job = j, reqs'[r].user = u, reqs'[r].pc # "url"
          PROVE  OwnerInv'
      <3>1. OwnsRow(r)'
        BY <2>1, <2>3 DEF OwnsRow, Job, At
      <3> QED
        BY <1>2, <2>3, <3>1
    <2>4. ASSUME ~Refuse(r, "confirm")
          PROVE  /\ jobs[j].owner = u /\ jobs[j].status # "absent"
                 /\ Others(r) /\ reqs'[r].job = j /\ reqs'[r].user = u
                 /\ reqs'[r].pc # "url"
      <3>1. /\ jobs[j].owner = u
            /\ jobs[j].status \in {"pending", "uploaded", "running"} \cup Terminal
            /\ \/ Begin(r, "confirm", u, None, j, FALSE, "check")
               \/ \E result \in {"ok", "rejected"} : reqs' = [reqs EXCEPT ![r] =
                     [op |-> "confirm", pc |-> "done", user |-> u, content |-> None,
                      job |-> j, created |-> FALSE, result |-> result]]
        BY <1>5, <2>4 DEF ConfirmRead
      <3>2. Others(r) /\ reqs'[r].job = j /\ reqs'[r].user = u /\ reqs'[r].pc # "url"
        BY <3>1 DEF Begin, TypeInv, ReqsType
      <3> QED
        BY <3>1, <3>2 DEF Terminal
    <2> QED
      BY <2>2, <2>3, <2>4
  <1>6. ASSUME NEW r \in Reqs, NEW pc \in RequestPcs \ {"url"}, Goto(r, pc) PROVE OwnerInv'
    BY <1>2, <1>6, GotoEffect DEF TypeInv
  <1>7. ASSUME NEW r \in Reqs, NEW result \in {"ok", "error", "rejected", "crashed"},
               Finish(r, result)
        PROVE  OwnerInv'
    BY <1>2, <1>7, FinishEffect DEF TypeInv
  <1>8. ASSUME NEW r \in Reqs, Proceed(r) \/ ApiCrash(r) PROVE OwnerInv'
    <2>1. \/ \E pc \in RequestPcs \ {"url"} : Goto(r, pc)
          \/ \E result \in {"ok", "error", "rejected", "crashed"} : Finish(r, result)
      BY <1>8
      DEF Proceed, SaveInput, MarkSubmitted, SignUrl, CheckObject, MarkConfirmed, Reread, Enqueue,
          MarkFailedSafely, ApiCrash, RequestPcs
    <2> QED
      BY <1>6, <1>7, <2>1
  <1>9. (\E j \in JobIds, c \in Contents : ClientPut(j, c)) => UNCHANGED reqs
    BY DEF ClientPut
  <1> QED
    BY <1>3, <1>4, <1>5, <1>8, <1>9 DEF Next, ServiceStep, Arrive

\* However users, keys and contents of concurrent requests coincide, a key
\* has one job, and no request works on somebody else's.
THEOREM KeysStayIsolated == Spec => []KeysIsolate
  <1>1. Init => OwnerInv
    BY DEF Init, JobStoreInit, NoRow, ServiceInit, NoRequest, OwnerInv, Job
  <1>2. TypeInv /\ OwnerInv /\ [Next]_vars => OwnerInv'
    <2> SUFFICES ASSUME TypeInv, OwnerInv, [Next]_vars PROVE OwnerInv'
      OBVIOUS
    <2>1. CASE UNCHANGED vars
      BY <2>1 DEF vars, OwnerInv, OwnsRow, Job, At, SameFingerprint
    <2> QED
      BY <2>1, OwnerInvStep
  <1>3. OwnerInv => RequestOwnsJob
    BY DEF OwnerInv, OwnsRow, RequestOwnsJob
  <1>4. Spec => []TypeInv
    BY TypeInvInit, TypeInvStep, PTL DEF Spec
  <1>5. Spec => []RunIdUnique
    BY OneJobPerRunId
  <1>6. RunIdUnique /\ RequestOwnsJob => KeysIsolate
    BY DEF KeysIsolate
  <1> QED
    BY <1>1, <1>2, <1>3, <1>4, <1>5, <1>6, PTL DEF Spec
=============================================================================
