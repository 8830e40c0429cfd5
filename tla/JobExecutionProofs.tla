--------------------------- MODULE JobExecutionProofs ---------------------------
(***************************************************************************)
(* The workers: one claim and one execution per job, the stored input it   *)
(* needs, and the refinement of JobLifecycle, for every value of the       *)
(* constants; then what a client may rely on when requests have ended: a   *)
(* result is that of the declared file, and a failed submission has        *)
(* settled its job.  The last two need an assumption on the environment,   *)
(* which their theorems state.  The lemmas on rows and types come from     *)
(* JobPipelineProofs.                                                      *)
(***************************************************************************)
EXTENDS JobPipelineProofs

-----------------------------------------------------------------------------
(* One claim, one execution.                                                *)

\* Where a claimed worker stands tells what has happened to its job.
ClaimInv ==
    \A w \in Workers :
        /\ Claimed(w) => jobs[Task(w)].status \in Started
        /\ WorkerAt(w, "resolve") => executions[Task(w)] = 0
        /\ WorkerAt(w, "execute") \/ WorkerAt(w, "complete") => executions[Task(w)] = 1
        /\ WorkerAt(w, "finish") /\ workers[w].persisted => jobs[Task(w)].status \in Terminal

\* The workflows start only for a job some worker has claimed, and a job
\* completes only after they have started.
StartInv ==
    \A j \in JobIds :
        /\ executions[j] # 0 => jobs[j].status \in Started
        /\ jobs[j].status = "completed" => executions[j] = 1

ExecInv == SingleExecution /\ ClaimInv /\ StartInv

\* A worker that stays where it is, gives its job up, or works on without
\* claiming a job or starting a workflow.
WorksOn(w) ==
    \/ workers'[w] = workers[w]
    \/ ~Claimed(w)'
    \/ /\ Claimed(w) /\ workers'[w].job = workers[w].job
       /\ \/ workers'[w].pc = "fail"
          \/ WorkerAt(w, "execute") /\ workers'[w].pc = "complete"
          \/ /\ workers'[w].pc = "finish"
             /\ workers'[w].persisted => jobs'[Task(w)].status \in Terminal

\* Steps that claim nothing and start nothing preserve ExecInv.
LEMMA ExecInvFrame ==
  ASSUME TypeInv, ExecInv, ServiceRows \/ WorkerRows, UNCHANGED executions,
         \A j \in JobIds : jobs'[j].status = "completed"
                           => jobs[j].status = "completed" \/ executions[j] = 1,
         \A w \in Workers : WorksOn(w)
  PROVE  ExecInv'
  <1>1. \A j \in JobIds : /\ jobs[j].status \in Started => jobs'[j].status \in Started
                          /\ jobs[j].status \in Terminal => jobs'[j].status \in Terminal
    BY RowsMonotone
  <1>2. \A w \in Workers : workers[w].pc # "idle" => Task(w) \in JobIds
    BY DEF TypeInv, WorkerFields, Task
  <1>3. \A w \in Workers : Claimed(w)' => Claimed(w) /\ Task(w)' = Task(w)
    BY DEF WorksOn, Claimed, Task
  <1>4. SingleExecution'
    BY <1>3 DEF ExecInv, SingleExecution
  <1>5. ClaimInv'
    <2> SUFFICES ASSUME NEW w \in Workers, Claimed(w)'
                 PROVE  /\ jobs'[Task(w)].status \in Started
                        /\ workers'[w].pc = "resolve" => executions[Task(w)] = 0
                        /\ workers'[w].pc \in {"execute", "complete"} => executions[Task(w)] = 1
                        /\ workers'[w].pc = "finish" /\ workers'[w].persisted
                           => jobs'[Task(w)].status \in Terminal
      BY <1>3 DEF ClaimInv, Claimed, WorkerAt
    <2>1. Claimed(w) /\ Task(w)' = Task(w) /\ Task(w) \in JobIds
      BY <1>2, <1>3 DEF Claimed
    <2>2. jobs'[Task(w)].status \in Started
      BY <1>1, <2>1 DEF ExecInv, ClaimInv
    <2>3. CASE workers'[w] = workers[w]
      BY <1>1, <2>1, <2>2, <2>3 DEF ExecInv, ClaimInv, WorkerAt
    <2>4. CASE workers'[w] # workers[w]
      BY <2>1, <2>2, <2>4 DEF WorksOn, ExecInv, ClaimInv, WorkerAt
    <2> QED
      BY <2>3, <2>4
  <1>6. StartInv'
    BY <1>1 DEF ExecInv, StartInv
  <1> QED
    BY <1>4, <1>5, <1>6 DEF ExecInv

\* The UPDATE of mark_running matched: the job becomes this worker's.
LEMMA ExecInvClaim ==
  ASSUME TypeInv, ExecInv, NEW w \in Workers, WorkerAt(w, "claim"),
         MarkRunning(Task(w)), WorkerGoto(w, "resolve"), UNCHANGED executions
  PROVE  ExecInv'
  <1> DEFINE j == Task(w)
  <1>1. j \in JobIds
    BY DEF TypeInv, WorkerFields, Task, WorkerAt
  <1>2. /\ jobs[j].status = "uploaded" /\ jobs'[j].status = "running"
        /\ \A i \in JobIds : i # j => jobs'[i] = jobs[i]
    BY <1>1, MarkRunningEffect DEF TypeInv, RowMoves
  <1>3. /\ workers'[w].pc = "resolve" /\ workers'[w].job = j
        /\ \A v \in Workers : v # w => workers'[v] = workers[v]
    BY WorkerGotoEffect DEF TypeInv, WorkerPcs, Task
  <1>4. executions[j] = 0
    BY <1>1, <1>2 DEF ExecInv, StartInv, Started
  <1>5. \A v \in Workers : Claimed(v) => Task(v) # j /\ Task(v) \in JobIds
    BY <1>2 DEF ExecInv, ClaimInv, Started, TypeInv, WorkerFields, Task, Claimed
  <1> HIDE DEF j
  <1>6. SingleExecution'
    BY <1>3, <1>5 DEF ExecInv, SingleExecution, Claimed, Task
  <1>7. ClaimInv'
    <2>1. ASSUME NEW v \in Workers, v # w
          PROVE  /\ Claimed(v)' <=> Claimed(v)
                 /\ Task(v)' = Task(v)
                 /\ Claimed(v) => jobs'[Task(v)] = jobs[Task(v)]
      BY <1>2, <1>3, <1>5, <2>1 DEF Claimed, Task
    <2>2. ASSUME NEW v \in Workers, v # w
          PROVE  /\ Claimed(v)' => jobs'[Task(v)'].status \in Started
                 /\ WorkerAt(v, "resolve")' => executions'[Task(v)'] = 0
                 /\ WorkerAt(v, "execute")' \/ WorkerAt(v, "complete")'
                    => executions'[Task(v)'] = 1
                 /\ WorkerAt(v, "finish")' /\ workers'[v].persisted
                    => jobs'[Task(v)'].status \in Terminal
      BY <1>3, <2>1, <2>2 DEF ExecInv, ClaimInv, WorkerAt, Claimed
    <2>3. /\ jobs'[Task(w)'].status \in Started /\ executions'[Task(w)'] = 0
          /\ workers'[w].pc = "resolve"
      BY <1>2, <1>3, <1>4 DEF Task, Started
    <2> QED
      BY <2>2, <2>3 DEF ClaimInv, WorkerAt
  <1>8. StartInv'
    BY <1>2 DEF ExecInv, StartInv, Started
  <1> QED
    BY <1>6, <1>7, <1>8 DEF ExecInv

\* The input was resolved: the workflows of this job start.
LEMMA ExecInvStart ==
  ASSUME TypeInv, ExecInv, NEW w \in Workers, WorkerAt(w, "resolve"),
         NEW c \in Contents, UNCHANGED jobs,
         workers' = [workers EXCEPT ![w].pc = "execute", ![w].copy = c],
         executions' = [executions EXCEPT ![Task(w)] = @ + 1]
  PROVE  ExecInv'
  <1> DEFINE j == Task(w)
  <1>1. j \in JobIds /\ Claimed(w)
    BY DEF TypeInv, WorkerFields, Task, WorkerAt, Claimed
  <1>2. /\ workers'[w].pc = "execute" /\ workers'[w].job = j
        /\ \A v \in Workers : v # w => workers'[v] = workers[v]
    BY ResolveEffect DEF TypeInv, Task
  <1>3. executions[j] = 0 /\ jobs[j].status \in Started
    BY <1>1 DEF ExecInv, ClaimInv
  <1>4. executions'[j] = 1 /\ \A i \in JobIds : i # j => executions'[i] = executions[i]
    BY <1>1, <1>3 DEF TypeInv
  <1>5. \A v \in Workers : v # w /\ Claimed(v) => Task(v) # j /\ Task(v) \in JobIds
    BY <1>1 DEF ExecInv, SingleExecution, TypeInv, WorkerFields, Task, Claimed
  <1>6. \A v \in Workers : /\ Claimed(v)' <=> Claimed(v)
                           /\ Task(v)' = Task(v)
    BY <1>1, <1>2 DEF Claimed, Task
  <1> HIDE DEF j
  <1>7. SingleExecution'
    BY <1>3, <1>4, <1>6 DEF ExecInv, SingleExecution
  <1>8. ClaimInv'
    <2>1. ASSUME NEW v \in Workers, v # w
          PROVE  /\ Claimed(v)' => jobs'[Task(v)'].status \in Started
                 /\ WorkerAt(v, "resolve")' => executions'[Task(v)'] = 0
                 /\ WorkerAt(v, "execute")' \/ WorkerAt(v, "complete")'
                    => executions'[Task(v)'] = 1
                 /\ WorkerAt(v, "finish")' /\ workers'[v].persisted
                    => jobs'[Task(v)'].status \in Terminal
      <3>1. workers'[v] = workers[v] /\ Task(v)' = Task(v)
        BY <1>2, <1>6, <2>1
      <3>2. Claimed(v) => executions'[Task(v)] = executions[Task(v)]
        BY <1>4, <1>5, <2>1
      <3> QED
        BY <3>1, <3>2 DEF ExecInv, ClaimInv, WorkerAt, Claimed
    <2>2. /\ jobs'[Task(w)'].status \in Started /\ executions'[Task(w)'] = 1
          /\ workers'[w].pc = "execute"
      BY <1>2, <1>3, <1>4 DEF Task
    <2>3. /\ Claimed(w)' => jobs'[Task(w)'].status \in Started
          /\ WorkerAt(w, "resolve")' => executions'[Task(w)'] = 0
          /\ WorkerAt(w, "execute")' \/ WorkerAt(w, "complete")' => executions'[Task(w)'] = 1
          /\ WorkerAt(w, "finish")' /\ workers'[w].persisted
             => jobs'[Task(w)'].status \in Terminal
      BY <2>2 DEF WorkerAt
    <2> QED
      BY <2>1, <2>3 DEF ClaimInv
  <1>9. StartInv'
    BY <1>3, <1>4 DEF ExecInv, StartInv, Started
  <1> QED
    BY <1>7, <1>8, <1>9 DEF ExecInv

\* Only mark_completed completes a job.
LEMMA CompletedByWorker ==
  ASSUME TypeInv, NEW j \in JobIds, jobs'[j].status = "completed",
         ServiceRows \/ (WorkerRows /\ ~\E i \in JobIds, c \in Contents : MarkCompleted(i, c))
  PROVE  jobs[j].status = "completed"
  <1> USE DEF RowMoves, TypeInv
  <1>1. ASSUME NEW i \in JobIds, NEW u \in Users, NEW k \in RunIds \cup {None},
               NEW c \in Contents, NEW d \in BOOLEAN, InsertRow(i, u, k, c, d)
        PROVE  jobs[j].status = "completed"
    BY <1>1, InsertRowEffect
  <1>2. ASSUME NEW i \in JobIds, MarkUploaded(i) PROVE jobs[j].status = "completed"
    BY <1>2, MarkUploadedEffect
  <1>3. ASSUME NEW i \in JobIds, MarkFailed(i) PROVE jobs[j].status = "completed"
    BY <1>3, MarkFailedEffect
  <1>4. ASSUME NEW i \in JobIds, MarkRunning(i) PROVE jobs[j].status = "completed"
    BY <1>4, MarkRunningEffect
  <1> QED
    BY <1>1, <1>2, <1>3, <1>4 DEF ServiceRows, WorkerRows

LEMMA ExecInvService ==
  ASSUME TypeInv, ExecInv, ServiceStep, UNCHANGED workerVars
  PROVE  ExecInv'
  <1>1. ServiceRows
    BY ServiceRowsStep
  <1>2. \A j \in JobIds : jobs'[j].status = "completed" => jobs[j].status = "completed"
    BY <1>1, CompletedByWorker
  <1>3. UNCHANGED executions /\ \A w \in Workers : WorksOn(w)
    BY DEF workerVars, WorksOn
  <1> QED
    BY <1>1, <1>2, <1>3, ExecInvFrame

LEMMA ExecInvWorker ==
  ASSUME TypeInv, ExecInv, WorkerStep, UNCHANGED reqs
  PROVE  ExecInv'
  <1>1. PICK w \in Workers : Run(w) \/ WorkerCrash(w)
    BY DEF WorkerStep
  <1>2. WorkerRows
    BY WorkerRowsStep
  <1>3. workers[w].pc # "idle" => Task(w) \in JobIds
    BY DEF TypeInv, WorkerFields, Task
  <1> DEFINE OthersStay == \A v \in Workers : v # w => workers'[v] = workers[v]
             NoNewResult == \A j \in JobIds :
                jobs'[j].status = "completed" => jobs[j].status = "completed" \/ executions[j] = 1
             Framed == OthersStay /\ WorksOn(w) /\ NoNewResult /\ UNCHANGED executions
  <1>4. Framed => ExecInv'
    BY <1>2, ExecInvFrame DEF WorksOn
  <1>5. CASE Release(w) /\ UNCHANGED <<jobs, executions>>
    BY <1>4, <1>5, ReleaseEffect DEF TypeInv, WorksOn, Claimed
  <1>6. CASE \E m \in queue : Receive(w, m)
    <2>1. PICK m \in queue : Receive(w, m)
      BY <1>6
    <2>2. m \in Message
      BY DEF TypeInv, ResourcesType
    <2> QED
      BY <1>4, <2>1, <2>2, ReceiveEffect DEF Receive, TypeInv, WorksOn, Claimed
  <1>7. CASE Load(w)
    <2>1. CASE WorkerGoto(w, "claim")
      BY <1>4, <1>7, <2>1, WorkerGotoEffect DEF Load, TypeInv, WorkerPcs, WorksOn, Claimed
    <2> QED
      BY <1>5, <1>7, <2>1 DEF Load
  <1>8. CASE Claim(w)
    <2>1. CASE MarkRunning(Task(w)) /\ WorkerGoto(w, "resolve")
      BY <1>8, <2>1, ExecInvClaim DEF Claim
    <2>2. CASE MarkRunning(Task(w)) /\ Release(w)
      <3>1. NoNewResult
        BY <1>3, <1>8, <2>2, MarkRunningEffect DEF Claim, WorkerAt, TypeInv, RowMoves
      <3> QED
        BY <1>4, <1>8, <2>2, <3>1, ReleaseEffect DEF Claim, TypeInv, WorksOn, Claimed
    <2> QED
      BY <1>5, <1>8, <2>1, <2>2 DEF Claim, Rejects
  <1>9. CASE Resolve(w)
    <2>1. CASE WorkerGoto(w, "fail") /\ UNCHANGED executions
      BY <1>4, <1>9, <2>1, WorkerGotoEffect
      DEF Resolve, WorkerAt, TypeInv, WorkerPcs, WorksOn, Claimed
    <2>2. CASE /\ objects[Task(w)] # None
               /\ workers' = [workers EXCEPT ![w].pc = "execute",
                                             ![w].copy = objects[Task(w)]]
               /\ executions' = [executions EXCEPT ![Task(w)] = @ + 1]
      <3>1. objects[Task(w)] \in Contents
        BY <1>3, <1>9, <2>2 DEF Resolve, WorkerAt, TypeInv, ResourcesType
      <3> QED
        BY <1>9, <2>2, <3>1, ExecInvStart DEF Resolve
    <2> QED
      BY <1>9, <2>1, <2>2 DEF Resolve
  <1>10. CASE Execute(w)
    <2>1. \E pc \in {"complete", "fail"} : WorkerGoto(w, pc)
      BY <1>10 DEF Execute
    <2>2. WorksOn(w) /\ OthersStay
      BY <1>10, <2>1, WorkerGotoEffect DEF Execute, WorkerAt, TypeInv, WorkerPcs, WorksOn, Claimed
    <2> QED
      BY <1>4, <1>10, <2>2 DEF Execute
  <1>11. CASE Complete(w)
    <2>1. executions[Task(w)] = 1 /\ Claimed(w)
      BY <1>11 DEF Complete, WorkerAt, ExecInv, ClaimInv, Claimed
    <2>2. workers[w].copy \in Contents
      BY <1>11 DEF Complete, WorkerAt, TypeInv, WorkerFields
    <2>3. NoNewResult
      BY <1>3, <1>11, <2>1, <2>2, MarkCompletedEffect
      DEF Complete, Rejects, WorkerAt, TypeInv, RowMoves
    <2>4. CASE WorkerGoto(w, "fail")
      BY <1>4, <1>11, <2>1, <2>3, <2>4, WorkerGotoEffect
      DEF Complete, TypeInv, WorkerPcs, WorksOn
    <2>5. CASE \E yes \in BOOLEAN :
                  MarkCompleted(Task(w), workers[w].copy) /\ Persisted(w, yes)
      <3>1. jobs'[Task(w)].status \in Terminal
        BY <1>3, <1>11, <2>2, <2>5, MarkCompletedEffect
        DEF Complete, WorkerAt, TypeInv, RowMoves, Terminal
      <3>2. WorksOn(w) /\ OthersStay
        BY <2>1, <2>5, <3>1, PersistedEffect DEF TypeInv, WorksOn
      <3> QED
        BY <1>4, <1>11, <2>3, <3>2 DEF Complete
    <2> QED
      BY <1>11, <2>4, <2>5 DEF Complete
  <1>12. CASE Fail(w)
    <2>1. Claimed(w)
      BY <1>12 DEF Fail, WorkerAt, Claimed
    <2>2. MarkFailed(Task(w)) => jobs'[Task(w)].status \in Terminal /\ NoNewResult
      BY <1>3, <1>12, MarkFailedEffect DEF Fail, WorkerAt, TypeInv, RowMoves, Terminal
    <2>3. \E yes \in BOOLEAN : Persisted(w, yes) /\ (yes => MarkFailed(Task(w)))
      BY <1>12 DEF Fail
    <2>4. WorksOn(w) /\ OthersStay
      BY <2>1, <2>2, <2>3, PersistedEffect DEF TypeInv, WorksOn
    <2>5. NoNewResult
      BY <1>12, <2>2 DEF Fail, Rejects
    <2> QED
      BY <1>4, <1>12, <2>4, <2>5 DEF Fail
  <1>13. CASE FinishRun(w) \/ WorkerCrash(w)
    BY <1>5, <1>13 DEF FinishRun, WorkerCrash
  <1> QED
    BY <1>1, <1>6, <1>7, <1>8, <1>9, <1>10, <1>11, <1>12, <1>13 DEF Run

LEMMA ExecInvInit == Init => ExecInv
  BY DEF Init, JobStoreInit, NoRow, WorkerInit, IdleWorker, ExecInv, SingleExecution, ClaimInv,
         StartInv, Claimed, WorkerAt

LEMMA ExecInvStep == TypeInv /\ ExecInv /\ [Next]_vars => ExecInv'
  <1> SUFFICES ASSUME TypeInv, ExecInv, [Next]_vars PROVE ExecInv'
    OBVIOUS
  <1>1. CASE UNCHANGED vars
    BY <1>1 DEF vars, workerVars, ExecInv, SingleExecution, ClaimInv, StartInv, Claimed, WorkerAt, Task
  <1> QED
    BY <1>1, ExecInvService, ExecInvWorker DEF Next

\* Whatever is delivered twice, retried or crashed, a job has one worker and
\* one execution at most.
THEOREM OneExecutionPerJob == Spec => []SingleExecution
  <1>1. Spec => []TypeInv
    BY TypeInvInit, TypeInvStep, PTL DEF Spec
  <1>2. ExecInv => SingleExecution
    BY DEF ExecInv
  <1> QED
    BY <1>1, <1>2, ExecInvInit, ExecInvStep, PTL DEF Spec

-----------------------------------------------------------------------------
(* The stored input: it is there when a job is marked uploaded, and stays   *)
(* until the job is finished.                                               *)

Active(r) == reqs[r].pc \notin {"idle", "done"}

\* Every row that exists carries its input, one that does not has neither a
\* key nor a result.
RowsFilled ==
    \A j \in JobIds :
        /\ jobs[j].status = "absent" => jobs[j].run = None /\ jobs[j].output = None
        /\ jobs[j].status # "absent" => jobs[j].input \in Contents

\* A request works on an existing row, and when it is about to mark the row
\* uploaded the file is stored.
RequestInv ==
    \A r \in Reqs :
        /\ Active(r) => jobs[Job(r)].status # "absent"
        /\ reqs[r].pc = "mark" /\ jobs[Job(r)].status = "pending" => objects[Job(r)] # None

StorageInv == RowsFilled /\ RequestInv /\ InputAvailable

\* What one step can do to the status and the fields of one row.
LEMMA StatusStep ==
  ASSUME TypeInv, ServiceRows \/ WorkerRows, NEW j \in JobIds
  PROVE  \/ jobs'[j] = jobs[j]
         \/ /\ jobs[j].status = "absent" /\ jobs'[j].status = "pending"
            /\ jobs'[j].input \in Contents
         \/ /\ jobs'[j].run = jobs[j].run /\ jobs'[j].input = jobs[j].input
            /\ \/ jobs[j].status = "pending" /\ jobs'[j].status = "uploaded"
               \/ jobs[j].status = "uploaded" /\ jobs'[j].status = "running"
               \/ jobs[j].status = "running" /\ jobs'[j].status = "completed"
               \/ /\ jobs[j].status \in {"pending", "uploaded", "running"}
                  /\ jobs'[j].status = "failed"
  <1> DEFINE Goal ==
         \/ jobs'[j] = jobs[j]
         \/ /\ jobs[j].status = "absent" /\ jobs'[j].status = "pending"
            /\ jobs'[j].input \in Contents
         \/ /\ jobs'[j].run = jobs[j].run /\ jobs'[j].input = jobs[j].input
            /\ \/ jobs[j].status = "pending" /\ jobs'[j].status = "uploaded"
               \/ jobs[j].status = "uploaded" /\ jobs'[j].status = "running"
               \/ jobs[j].status = "running" /\ jobs'[j].status = "completed"
               \/ /\ jobs[j].status \in {"pending", "uploaded", "running"}
                  /\ jobs'[j].status = "failed"
  <1> USE DEF RowMoves, TypeInv
  <1>1. ASSUME NEW i \in JobIds, NEW u \in Users, NEW k \in RunIds \cup {None},
               NEW c \in Contents, NEW d \in BOOLEAN, InsertRow(i, u, k, c, d)
        PROVE  Goal
    BY <1>1, InsertRowEffect
  <1>2. ASSUME NEW i \in JobIds, MarkUploaded(i) PROVE Goal
    BY <1>2, MarkUploadedEffect
  <1>3. ASSUME NEW i \in JobIds, MarkFailed(i) PROVE Goal
    BY <1>3, MarkFailedEffect
  <1>4. ASSUME NEW i \in JobIds, MarkRunning(i) PROVE Goal
    BY <1>4, MarkRunningEffect
  <1>5. ASSUME NEW i \in JobIds, NEW c \in Contents, MarkCompleted(i, c) PROVE Goal
    BY <1>5, MarkCompletedEffect
  <1> HIDE DEF Goal
  <1>6. Goal
    BY <1>1, <1>2, <1>3, <1>4, <1>5 DEF ServiceRows, WorkerRows, Goal
  <1> QED
    BY <1>6 DEF Goal

\* What a step must show to preserve StorageInv.
LEMMA StorageInvFrame ==
  ASSUME TypeInv, StorageInv, ServiceRows \/ WorkerRows,
         \A j \in JobIds : objects[j] # None /\ jobs[j].status \notin Terminal
                           => objects'[j] # None,
         \A j \in JobIds : jobs[j].status = "pending" /\ jobs'[j].status = "uploaded"
                           => objects[j] # None,
         \A r \in Reqs : Active(r)' =>
             /\ reqs'[r].job \in JobIds
             /\ \/ Active(r) /\ reqs'[r].job = Job(r)
                \/ jobs'[reqs'[r].job].status # "absent",
         \A r \in Reqs : reqs'[r].pc = "mark" =>
             reqs'[r] = reqs[r] \/ objects'[reqs'[r].job] # None
  PROVE  StorageInv'
  <1>1. RowsFilled'
    <2> SUFFICES ASSUME NEW j \in JobIds
                 PROVE  /\ jobs'[j].status = "absent" => jobs'[j].run = None /\ jobs'[j].output = None
                        /\ jobs'[j].status # "absent" => jobs'[j].input \in Contents
      BY DEF RowsFilled
    <2> QED
      BY StatusStep DEF StorageInv, RowsFilled
  <1>2. \A j \in JobIds : jobs[j].status # "absent" => jobs'[j].status # "absent"
    BY StatusStep
  <1>3. \A r \in Reqs : Active(r)' => jobs'[reqs'[r].job].status # "absent"
    BY <1>2 DEF StorageInv, RequestInv
  <1>4. ASSUME NEW r \in Reqs, reqs'[r].pc = "mark",
               jobs'[reqs'[r].job].status = "pending", reqs'[r] = reqs[r]
        PROVE  objects'[reqs'[r].job] # None
    <2>1. Active(r) /\ Active(r)' /\ reqs[r].pc = "mark"
      BY <1>4 DEF Active
    <2>2. Job(r) \in JobIds /\ Job(r) = reqs'[r].job /\ jobs[Job(r)].status # "absent"
      BY <1>4, <2>1 DEF Job, StorageInv, RequestInv
    <2>3. jobs[Job(r)].status = "pending"
      BY <1>4, <2>2, StatusStep
    <2> QED
      BY <2>1, <2>2, <2>3 DEF StorageInv, RequestInv, Terminal
  <1>5. RequestInv'
    BY <1>3, <1>4 DEF RequestInv, Active, Job
  <1>6. InputAvailable'
    <2> SUFFICES ASSUME NEW j \in JobIds, jobs'[j].status \in {"uploaded", "running"}
                 PROVE  objects'[j] # None
      BY DEF InputAvailable
    <2>1. \/ jobs[j].status \in {"uploaded", "running"}
          \/ jobs[j].status = "pending" /\ jobs'[j].status = "uploaded"
      BY StatusStep
    <2> QED
      BY <2>1 DEF StorageInv, InputAvailable, Terminal
  <1> QED
    BY <1>1, <1>5, <1>6 DEF StorageInv

\* Only a worker that persisted a terminal state deletes stored files.
LEMMA ObjectsKept ==
  ASSUME TypeInv, ExecInv, Next, NEW j \in JobIds, objects[j] # None
  PROVE  objects'[j] # None \/ jobs[j].status \in Terminal
  <1>1. CASE UNCHANGED objects
    BY <1>1
  <1>2. ASSUME NEW i \in JobIds, NEW c \in Contents, SaveObject(i, c)
        PROVE  objects'[j] # None
    BY <1>2, NoneAssumption DEF SaveObject, TypeInv, ResourcesType
  <1>3. ASSUME NEW w \in Workers, WorkerAt(w, "finish"), workers[w].persisted,
               DeletePrefix(Task(w))
        PROVE  objects'[j] # None \/ jobs[j].status \in Terminal
    BY <1>3 DEF DeletePrefix, ExecInv, ClaimInv, TypeInv, ResourcesType
  <1>4. \/ UNCHANGED objects
        \/ \E i \in JobIds, c \in Contents : SaveObject(i, c)
        \/ \E w \in Workers : /\ WorkerAt(w, "finish") /\ workers[w].persisted
                              /\ DeletePrefix(Task(w))
    <2>1. CASE ServiceStep
      <3>1. ASSUME NEW r \in Reqs, SaveInput(r), ~UNCHANGED objects
            PROVE  \E i \in JobIds, c \in Contents : SaveObject(i, c)
        BY <3>1 DEF SaveInput, At, Job, TypeInv, RequestFields
      <3>2. ASSUME NEW r \in Reqs, Arrive(r) \/ ApiCrash(r) PROVE UNCHANGED objects
        BY <3>2 DEF Arrive, Create, ConfirmRead, ApiCrash, resourceVars
      <3>3. ASSUME NEW r \in Reqs, Proceed(r) PROVE SaveInput(r) \/ UNCHANGED objects
        BY <3>3 DEF Proceed, MarkSubmitted, SignUrl, CheckObject, MarkConfirmed, Reread, Enqueue,
                    MarkFailedSafely, resourceVars
      <3> QED
        BY <2>1, <3>1, <3>2, <3>3 DEF ServiceStep, ClientPut
    <2>2. CASE WorkerStep
      BY <2>2
      DEF WorkerStep, Run, WorkerCrash, Receive, Load, Claim, Resolve, Execute, Complete, Fail,
          FinishRun, resourceVars
    <2> QED
      BY <2>1, <2>2 DEF Next
  <1> QED
    BY <1>1, <1>2, <1>3, <1>4

\* Stored files disappear only when their job is finished for good.
THEOREM PurgeIsLast == Spec => PurgeOnlyFinished
  <1> DEFINE Kept == \A j \in JobIds :
                objects[j] # None /\ objects'[j] = None => jobs[j].status \in Terminal
  <1>1. TypeInv /\ ExecInv /\ [Next]_vars => [Kept]_vars
    BY ObjectsKept
  <1>2. Spec => [](TypeInv /\ ExecInv)
    BY TypeInvInit, TypeInvStep, ExecInvInit, ExecInvStep, PTL DEF Spec
  <1> QED
    BY <1>1, <1>2, PTL DEF Spec, PurgeOnlyFinished

LEMMA StorageInvInit == Init => StorageInv
  BY DEF Init, JobStoreInit, NoRow, ServiceInit, NoRequest, StorageInv, RowsFilled, RequestInv,
         Active, InputAvailable

LEMMA StorageInvStep ==
  ASSUME TypeInv, ExecInv, StorageInv, Next
  PROVE  StorageInv'
  <1>1. ServiceRows \/ WorkerRows
    BY ServiceRowsStep, WorkerRowsStep DEF Next
  <1>2. \A j \in JobIds : objects[j] # None /\ jobs[j].status \notin Terminal
                         => objects'[j] # None
    BY ObjectsKept
  <1>3. \A r \in Reqs : Active(r) => Job(r) \in JobIds /\ jobs[Job(r)].status # "absent"
    BY DEF TypeInv, RequestFields, Active, Job, StorageInv, RequestInv
  <1> DEFINE NewUploads == \A j \in JobIds :
                jobs[j].status = "pending" /\ jobs'[j].status = "uploaded" => objects[j] # None
             Keeps(r) == Active(r)' =>
                /\ reqs'[r].job \in JobIds
                /\ \/ Active(r) /\ reqs'[r].job = Job(r)
                   \/ jobs'[reqs'[r].job].status # "absent"
             Marks(r) == reqs'[r].pc = "mark" =>
                reqs'[r] = reqs[r] \/ objects'[reqs'[r].job] # None
             Others(r) == \A q \in Reqs : q # r => reqs'[q] = reqs[q]
  <1>4. NewUploads /\ (\A r \in Reqs : Keeps(r) /\ Marks(r)) => StorageInv'
    BY <1>1, <1>2, StorageInvFrame
  <1>5. \A r \in Reqs : reqs'[r] = reqs[r] => Keeps(r) /\ Marks(r)
    BY <1>3 DEF Active, Job
  <1>6. ASSUME NEW r \in Reqs, NewUploads, Others(r), Keeps(r), Marks(r)
        PROVE  StorageInv'
    BY <1>4, <1>5, <1>6
  <1>7. UNCHANGED jobs => NewUploads
    OBVIOUS
  <1>8. CASE WorkerStep /\ UNCHANGED reqs
    <2>1. NewUploads
      <3>1. WorkerRows
        BY <1>8, WorkerRowsStep
      <3> USE DEF RowMoves, TypeInv
      <3>2. ASSUME NEW i \in JobIds, MarkRunning(i) PROVE NewUploads
        BY <3>2, MarkRunningEffect
      <3>3. ASSUME NEW i \in JobIds, MarkFailed(i) PROVE NewUploads
        BY <3>3, MarkFailedEffect
      <3>4. ASSUME NEW i \in JobIds, NEW c \in Contents, MarkCompleted(i, c) PROVE NewUploads
        BY <3>4, MarkCompletedEffect
      <3> HIDE DEF NewUploads
      <3> QED
        BY <1>7, <3>1, <3>2, <3>3, <3>4 DEF WorkerRows
    <2> QED
      BY <1>4, <1>5, <1>8, <2>1
  <1>9. ASSUME NEW r \in Reqs, NEW op \in Ops, NEW u \in Users,
               NEW k \in RunIds \cup {None}, NEW c \in Contents, Create(r, op, u, k, c)
        PROVE  StorageInv'
    <2>1. op \in OpKinds /\ (op = "prepare") \in BOOLEAN
      BY OpsAssumption
    <2>2. NewUploads /\ (UNCHANGED jobs \/ \E j \in JobIds : InsertRow(j, u, k, c, op = "prepare"))
      <3>1. UNCHANGED jobs \/ \E j \in JobIds : InsertRow(j, u, k, c, op = "prepare")
        BY <1>9 DEF Create
      <3>2. ASSUME NEW j \in JobIds, NEW d \in BOOLEAN, InsertRow(j, u, k, c, d)
            PROVE  NewUploads
        BY <3>2, InsertRowEffect DEF TypeInv
      <3> HIDE DEF NewUploads
      <3> QED
        BY <1>7, <2>1, <3>1, <3>2
    <2>3. \/ Refuse(r, op)
          \/ \E j \in JobIds, new \in BOOLEAN, pc \in {"save", "url"} :
                /\ Begin(r, op, u, c, j, new, pc)
                /\ \/ InsertRow(j, u, k, c, op = "prepare")
                   \/ IsExistingRun(j, k) /\ UNCHANGED jobs
      BY <1>9 DEF Create
    <2>4. CASE Refuse(r, op)
      <3>1. Others(r) /\ reqs'[r].pc = "done"
        BY <2>1, <2>4, RefuseEffect DEF TypeInv
      <3> QED
        BY <1>6, <2>2, <3>1 DEF Active
    <2>5. ASSUME NEW j \in JobIds, NEW new \in BOOLEAN, NEW pc \in {"save", "url"},
                 Begin(r, op, u, c, j, new, pc), jobs'[j].status # "absent"
          PROVE  StorageInv'
      <3>1. Others(r) /\ reqs'[r].pc = pc /\ reqs'[r].job = j
        BY <2>1, <2>5, BeginEffect DEF TypeInv, RequestPcs
      <3> QED
        BY <1>6, <2>2, <2>5, <3>1
    <2>6. ASSUME NEW j \in JobIds, InsertRow(j, u, k, c, op = "prepare")
          PROVE  jobs'[j].status # "absent"
      BY <2>1, <2>6, InsertRowEffect DEF TypeInv
    <2>7. ASSUME NEW j \in JobIds, IsExistingRun(j, k), UNCHANGED jobs
          PROVE  jobs'[j].status # "absent"
      BY <2>7 DEF IsExistingRun, StorageInv, RowsFilled
    <2> QED
      BY <2>3, <2>4, <2>5, <2>6, <2>7
  <1>10. ASSUME NEW r \in Reqs, NEW u \in Users, NEW j \in JobIds, ConfirmRead(r, u, j)
         PROVE  StorageInv'
    <2>1. NewUploads
      BY <1>10 DEF ConfirmRead
    <2>2. \/ reqs'[r].pc = "done"
          \/ jobs[j].status = "pending" /\ reqs'[r].pc = "check" /\ reqs'[r].job = j
      BY <1>10 DEF ConfirmRead, Refuse, Begin, TypeInv, ReqsType
    <2>3. Others(r)
      BY <1>10 DEF ConfirmRead, Refuse, Begin, TypeInv, ReqsType
    <2>4. Keeps(r) /\ Marks(r)
      BY <1>10, <2>2 DEF ConfirmRead, Active
    <2> QED
      BY <1>6, <2>1, <2>3, <2>4
  <1>11. ASSUME NEW r \in Reqs, Active(r), NEW pc \in RequestPcs, Goto(r, pc), NewUploads,
                pc = "mark" => objects'[Job(r)] # None
         PROVE  StorageInv'
    <2>1. Others(r) /\ reqs'[r].pc = pc /\ reqs'[r].job = Job(r)
      BY <1>11, GotoEffect DEF TypeInv, Job
    <2> QED
      BY <1>3, <1>6, <1>11, <2>1
  <1>12. ASSUME NEW r \in Reqs, NEW result \in {"ok", "error", "rejected", "crashed"},
                Finish(r, result), NewUploads
         PROVE  StorageInv'
    <2>1. Others(r) /\ reqs'[r].pc = "done"
      BY <1>12, FinishEffect DEF TypeInv
    <2> QED
      BY <1>6, <1>12, <2>1 DEF Active
  <1>13. ASSUME NEW r \in Reqs, SaveInput(r) PROVE StorageInv'
    <2>1. Active(r) /\ reqs[r].content \in Contents /\ NewUploads
      BY <1>13 DEF SaveInput, At, Active, TypeInv, RequestFields
    <2>2. SaveObject(Job(r), reqs[r].content) => objects'[Job(r)] # None
      BY <1>3, <2>1, NoneAssumption DEF SaveObject, TypeInv, ResourcesType
    <2>3. \E pc \in {"mark", "fail"} : Goto(r, pc) /\ (pc = "mark" => objects'[Job(r)] # None)
      BY <1>13, <2>2 DEF SaveInput
    <2>4. {"mark", "fail"} \subseteq RequestPcs
      BY DEF RequestPcs
    <2> HIDE DEF NewUploads
    <2> QED
      BY <1>11, <2>1, <2>3, <2>4
  <1>14. ASSUME NEW r \in Reqs, MarkSubmitted(r) \/ MarkConfirmed(r) PROVE StorageInv'
    <2>1. Active(r) /\ reqs[r].pc = "mark"
      BY <1>14 DEF MarkSubmitted, MarkConfirmed, At, Active
    <2>2. MarkUploaded(Job(r)) => NewUploads
      BY <1>3, <2>1, MarkUploadedEffect DEF TypeInv, RowMoves, StorageInv, RequestInv
    <2>3. NewUploads
      BY <1>14, <2>2 DEF MarkSubmitted, MarkConfirmed, Rejects
    <2>4. \/ \E pc \in {"enqueue", "fail", "reread"} : Goto(r, pc)
          \/ \E result \in {"error"} : Finish(r, result)
      BY <1>14 DEF MarkSubmitted, MarkConfirmed
    <2>5. {"enqueue", "fail", "reread"} \subseteq RequestPcs
      BY DEF RequestPcs
    <2> HIDE DEF NewUploads
    <2> QED
      BY <1>11, <1>12, <2>1, <2>3, <2>4, <2>5
  <1>15. ASSUME NEW r \in Reqs, CheckObject(r) PROVE StorageInv'
    <2>1. Active(r) /\ NewUploads /\ UNCHANGED objects
      BY <1>15 DEF CheckObject, At, Active, resourceVars
    <2>2. jobs[Job(r)].input # None
      BY <1>3, <2>1, NoneAssumption DEF StorageInv, RowsFilled
    <2>3. \/ \E pc \in {"mark"} : Goto(r, pc) /\ objects'[Job(r)] # None
          \/ \E result \in {"error"} : Finish(r, result)
      BY <1>15, <2>1, <2>2 DEF CheckObject
    <2>4. {"mark"} \subseteq RequestPcs
      BY DEF RequestPcs
    <2> HIDE DEF NewUploads
    <2> QED
      BY <1>11, <1>12, <2>1, <2>3, <2>4
  <1>16. ASSUME NEW r \in Reqs, SignUrl(r) \/ Reread(r) \/ Enqueue(r) PROVE StorageInv'
    <2>1. Active(r) /\ NewUploads
      BY <1>16 DEF SignUrl, Reread, Enqueue, At, Active
    <2>2. \/ \E pc \in {"fail"} : Goto(r, pc)
          \/ \E result \in {"ok", "error", "rejected"} : Finish(r, result)
      BY <1>16 DEF SignUrl, Reread, Enqueue
    <2>3. {"fail"} \subseteq RequestPcs
      BY DEF RequestPcs
    <2> HIDE DEF NewUploads
    <2> QED
      BY <1>11, <1>12, <2>1, <2>2, <2>3
  <1>17. ASSUME NEW r \in Reqs, MarkFailedSafely(r) \/ ApiCrash(r) PROVE StorageInv'
    <2>1. MarkFailedSafely(r) => Active(r)
      BY DEF MarkFailedSafely, At, Active
    <2>2. NewUploads
      <3>1. Active(r) /\ MarkFailed(Job(r)) => NewUploads
        BY <1>3, MarkFailedEffect DEF TypeInv, RowMoves
      <3> QED
        BY <1>17, <2>1, <3>1 DEF MarkFailedSafely, ApiCrash, Rejects
    <2>3. \E result \in {"error", "crashed"} : Finish(r, result)
      BY <1>17 DEF MarkFailedSafely, ApiCrash
    <2> HIDE DEF NewUploads
    <2> QED
      BY <1>12, <2>2, <2>3
  <1>18. ASSUME NEW j \in JobIds, NEW c \in Contents, ClientPut(j, c) PROVE StorageInv'
    BY <1>4, <1>5, <1>18 DEF ClientPut
  <1> QED
    BY <1>8, <1>9, <1>10, <1>13, <1>14, <1>15, <1>16, <1>17, <1>18
    DEF Next, ServiceStep, Arrive, Proceed

LEMMA StorageInvAlways == TypeInv /\ ExecInv /\ StorageInv /\ [Next]_vars => StorageInv'
  <1> SUFFICES ASSUME TypeInv, ExecInv, StorageInv, [Next]_vars PROVE StorageInv'
    OBVIOUS
  <1>1. CASE UNCHANGED vars
    BY <1>1 DEF vars, resourceVars, StorageInv, RowsFilled, RequestInv, InputAvailable, Active, Job
  <1> QED
    BY <1>1, StorageInvStep

\* A job that waits for a worker, or that one works on, has its input stored.
THEOREM InputStaysAvailable == Spec => []InputAvailable
  <1>1. Spec => [](TypeInv /\ ExecInv)
    BY TypeInvInit, TypeInvStep, ExecInvInit, ExecInvStep, PTL DEF Spec
  <1>2. StorageInv => InputAvailable
    BY DEF StorageInv
  <1> QED
    BY <1>1, <1>2, StorageInvInit, StorageInvAlways, PTL DEF Spec

-----------------------------------------------------------------------------
(* The pipeline implements JobLifecycle: status, number of executions and   *)
(* result of every job move as the abstract specification allows.           *)

LEMMA LifecycleInit == Init => Lifecycle!Init
  BY DEF Init, JobStoreInit, NoRow, WorkerInit, Lifecycle!Init

\* A step of the service submits, uploads or fails a job, or stutters.
LEMMA LifecycleService ==
  ASSUME TypeInv, StorageInv, ServiceStep, UNCHANGED workerVars
  PROVE  [Lifecycle!Next]_(Lifecycle!vars)
  <1> USE DEF Lifecycle!vars, Lifecycle!Next, Lifecycle!Step, TypeInv
  <1>1. ServiceRows
    BY ServiceRowsStep
  <1>2. UNCHANGED executions
    BY DEF workerVars
  <1>3. CASE UNCHANGED jobs
    BY <1>2, <1>3
  <1>4. ASSUME NEW j \in JobIds, NEW u \in Users, NEW k \in RunIds \cup {None},
               NEW c \in Contents, NEW d \in BOOLEAN, InsertRow(j, u, k, c, d)
        PROVE  Lifecycle!Submit(j)
    <2>1. /\ jobs[j].status = "absent" /\ jobs'[j].status = "pending"
          /\ jobs'[j].output = jobs[j].output
          /\ \A i \in JobIds : i # j => jobs'[i] = jobs[i]
      BY <1>4, InsertRowEffect DEF StorageInv, RowsFilled
    <2> QED
      BY <1>2, <2>1 DEF Lifecycle!Submit
  <1>5. ASSUME NEW j \in JobIds, MarkUploaded(j) PROVE Lifecycle!Upload(j)
    BY <1>2, <1>5, MarkUploadedEffect DEF Lifecycle!Upload, RowMoves
  <1>6. ASSUME NEW j \in JobIds, MarkFailed(j) PROVE Lifecycle!Fail(j)
    BY <1>2, <1>6, MarkFailedEffect DEF Lifecycle!Fail, RowMoves
  <1> QED
    BY <1>1, <1>3, <1>4, <1>5, <1>6 DEF ServiceRows

\* A step of a worker claims, starts, completes or fails a job, or stutters.
LEMMA LifecycleWorker ==
  ASSUME TypeInv, ExecInv, WorkerStep
  PROVE  [Lifecycle!Next]_(Lifecycle!vars)
  <1> USE DEF Lifecycle!vars, Lifecycle!Next, Lifecycle!Step, TypeInv
  <1>1. PICK w \in Workers : Run(w) \/ WorkerCrash(w)
    BY DEF WorkerStep
  <1>2. workers[w].pc # "idle" => Task(w) \in JobIds
    BY DEF WorkerFields, Task
  <1>3. ASSUME NEW j \in JobIds, MarkRunning(j), UNCHANGED executions
        PROVE  Lifecycle!Claim(j)
    BY <1>3, MarkRunningEffect DEF Lifecycle!Claim, RowMoves
  <1>4. ASSUME NEW j \in JobIds, MarkFailed(j), UNCHANGED executions
        PROVE  Lifecycle!Fail(j)
    BY <1>4, MarkFailedEffect DEF Lifecycle!Fail, RowMoves
  <1>5. ASSUME NEW j \in JobIds, NEW c \in Contents, executions[j] = 1,
               MarkCompleted(j, c), UNCHANGED executions
        PROVE  Lifecycle!Complete(j, c)
    BY <1>5, MarkCompletedEffect DEF Lifecycle!Complete, RowMoves
  <1>6. CASE Resolve(w) /\ ~UNCHANGED executions
    <2> DEFINE j == Task(w)
    <2>1. /\ j \in JobIds /\ executions[j] = 0 /\ UNCHANGED jobs
          /\ jobs[j].status \in {"running", "failed"}
      BY <1>2, <1>6
      DEF Resolve, WorkerAt, Claimed, ExecInv, ClaimInv, StartInv, Started
    <2>2. executions' = [executions EXCEPT ![j] = 1]
      BY <1>6, <2>1 DEF Resolve
    <2> HIDE DEF j
    <2> QED
      BY <2>1, <2>2 DEF Lifecycle!Start
  <1>7. CASE Complete(w)
    <2>1. /\ Task(w) \in JobIds /\ executions[Task(w)] = 1
          /\ workers[w].copy \in Contents /\ UNCHANGED executions
      BY <1>2, <1>7 DEF Complete, WorkerAt, ExecInv, ClaimInv, WorkerFields
    <2>2. UNCHANGED jobs \/ MarkCompleted(Task(w), workers[w].copy)
      BY <1>7 DEF Complete, Rejects
    <2> QED
      BY <1>5, <2>1, <2>2
  <1>8. CASE Claim(w)
    <2>1. Task(w) \in JobIds /\ UNCHANGED executions
      BY <1>2, <1>8 DEF Claim, WorkerAt
    <2>2. UNCHANGED jobs \/ MarkRunning(Task(w))
      BY <1>8 DEF Claim, Rejects
    <2> QED
      BY <1>3, <2>1, <2>2
  <1>9. CASE Fail(w)
    <2>1. Task(w) \in JobIds /\ UNCHANGED executions
      BY <1>2, <1>9 DEF Fail, WorkerAt
    <2>2. UNCHANGED jobs \/ MarkFailed(Task(w))
      BY <1>9 DEF Fail, Rejects
    <2> QED
      BY <1>4, <2>1, <2>2
  <1>10. CASE UNCHANGED <<jobs, executions>>
    BY <1>10
  <1> QED
    BY <1>1, <1>6, <1>7, <1>8, <1>9, <1>10
    DEF Run, WorkerCrash, Receive, Load, Resolve, Execute, FinishRun

\* Every behaviour of the pipeline is one of JobLifecycle.
THEOREM PipelineImplementsLifecycle == Spec => ImplementsLifecycle
  <1>1. Spec => [](TypeInv /\ ExecInv)
    BY TypeInvInit, TypeInvStep, ExecInvInit, ExecInvStep, PTL DEF Spec
  <1>2. Spec => []StorageInv
    BY <1>1, StorageInvInit, StorageInvAlways, PTL DEF Spec
  <1>3. TypeInv /\ ExecInv /\ StorageInv /\ [Next]_vars => [Lifecycle!Next]_(Lifecycle!vars)
    <2>1. CASE UNCHANGED vars
      BY <2>1 DEF vars, workerVars, Lifecycle!vars
    <2> QED
      BY <2>1, LifecycleService, LifecycleWorker DEF Next
  <1> QED
    BY <1>1, <1>2, <1>3, LifecycleInit, PTL DEF Spec, ImplementsLifecycle, Lifecycle!Spec

-----------------------------------------------------------------------------
(* A submission that failed.                                                *)

\* A request has its result when it is done; an error of a submission that
\* created its job leaves that job terminal.
SettledInv ==
    \A r \in Reqs :
        /\ reqs[r].pc # "done" => reqs[r].result = "none"
        /\ reqs[r].op = "submit" /\ reqs[r].created /\ reqs[r].result = "error"
           => Job(r) \in JobIds /\ jobs[Job(r)].status \in Terminal

LEMMA FinishKeeps ==
  ASSUME ReqsType, NEW r \in Reqs, NEW result \in {"ok", "error", "rejected", "crashed"},
         Finish(r, result)
  PROVE  /\ reqs'[r].op = reqs[r].op /\ reqs'[r].created = reqs[r].created
         /\ reqs'[r].job = reqs[r].job
         /\ reqs'[r].pc = "done" /\ reqs'[r].result = result
         /\ \A q \in Reqs : q # r => reqs'[q] = reqs[q]
  BY DEF Finish, ReqsType, Request

\* What one request becomes in a step: it keeps what it had, goes on without a
\* result, or ends in a way that SettledInv allows.
Ends(r) ==
    \/ reqs'[r] = reqs[r]
    \/ reqs'[r].result = "none"
    \/ /\ reqs'[r].pc = "done"
       /\ \/ reqs'[r].result # "error"
          \/ reqs'[r].op # "submit" \/ ~reqs'[r].created
          \/ reqs'[r].job \in JobIds /\ jobs'[reqs'[r].job].status \in Terminal

LEMMA SettledFrame ==
  ASSUME TypeInv, SettledInv, ServiceRows \/ WorkerRows, \A r \in Reqs : Ends(r)
  PROVE  SettledInv'
  <1>1. \A j \in JobIds : jobs[j].status \in Terminal => jobs'[j].status \in Terminal
    BY RowsMonotone
  <1> SUFFICES ASSUME NEW r \in Reqs
               PROVE  /\ reqs'[r].pc # "done" => reqs'[r].result = "none"
                      /\ reqs'[r].op = "submit" /\ reqs'[r].created
                            /\ reqs'[r].result = "error"
                         => /\ reqs'[r].job \in JobIds
                            /\ jobs'[reqs'[r].job].status \in Terminal
    BY DEF SettledInv, Job
  <1>2. CASE reqs'[r] = reqs[r]
    BY <1>1, <1>2 DEF SettledInv, Job
  <1>3. CASE reqs'[r] # reqs[r]
    BY <1>3 DEF Ends
  <1> QED
    BY <1>2, <1>3

LEMMA SettledStep ==
  ASSUME "db" \notin Faults, TypeInv, StorageInv, SettledInv, Next
  PROVE  SettledInv'
  <1>1. ServiceRows \/ WorkerRows
    BY ServiceRowsStep, WorkerRowsStep DEF Next
  <1> DEFINE Others(r) == \A q \in Reqs : q # r => reqs'[q] = reqs[q]
  <1>2. ASSUME NEW r \in Reqs, Others(r), Ends(r)
        PROVE  SettledInv'
    BY <1>1, <1>2, SettledFrame DEF Ends
  <1>3. CASE UNCHANGED reqs
    BY <1>1, <1>3, SettledFrame DEF Ends
  <1>4. ASSUME NEW r \in Reqs, NEW op \in Ops, NEW u \in Users,
               NEW k \in RunIds \cup {None}, NEW c \in Contents, Create(r, op, u, k, c)
        PROVE  SettledInv'
    <2>1. \/ Refuse(r, op)
          \/ \E j \in JobIds, new \in BOOLEAN, pc \in {"save", "url"} :
                Begin(r, op, u, c, j, new, pc)
      BY <1>4 DEF Create
    <2>2. Others(r) /\ Ends(r)
      BY <2>1 DEF Refuse, Begin, Ends, TypeInv, ReqsType
    <2> QED
      BY <1>2, <2>2
  <1>5. ASSUME NEW r \in Reqs, NEW u \in Users, NEW j \in JobIds, ConfirmRead(r, u, j)
        PROVE  SettledInv'
    <2>1. Others(r) /\ Ends(r)
      BY <1>5 DEF ConfirmRead, Refuse, Begin, Ends, TypeInv, ReqsType
    <2> QED
      BY <1>2, <2>1
  <1>6. ASSUME NEW r \in Reqs, Active(r), NEW pc \in RequestPcs, Goto(r, pc)
        PROVE  SettledInv'
    <2>1. reqs[r].result = "none"
      BY <1>6 DEF SettledInv, Active
    <2>2. Others(r) /\ reqs'[r].result = "none"
      BY <1>6, <2>1 DEF Goto, TypeInv, ReqsType, Request
    <2> QED
      BY <1>2, <2>2 DEF Ends
  <1>7. ASSUME NEW r \in Reqs, NEW result \in {"ok", "error", "rejected", "crashed"},
               Finish(r, result),
               \/ result # "error" \/ reqs[r].op # "submit"
               \/ Job(r) \in JobIds /\ jobs'[Job(r)].status \in Terminal
        PROVE  SettledInv'
    <2>1. Others(r) /\ Ends(r)
      BY <1>7, FinishKeeps DEF Ends, TypeInv, Job
    <2> QED
      BY <1>2, <2>1
  <1>8. ASSUME NEW r \in Reqs, SaveInput(r) \/ MarkSubmitted(r) PROVE SettledInv'
    <2>1. Active(r) /\ \E pc \in {"mark", "fail", "enqueue"} : Goto(r, pc)
      BY <1>8 DEF SaveInput, MarkSubmitted, At, Active
    <2> QED
      BY <1>6, <2>1 DEF RequestPcs
  <1>9. ASSUME NEW r \in Reqs,
               SignUrl(r) \/ CheckObject(r) \/ MarkConfirmed(r) \/ Reread(r) \/ Enqueue(r)
        PROVE  SettledInv'
    <2>1. Active(r)
      BY <1>9 DEF SignUrl, CheckObject, MarkConfirmed, Reread, Enqueue, At, Active
    <2>2. \/ \E pc \in {"mark", "fail", "enqueue", "reread"} : Goto(r, pc)
          \/ \E result \in {"ok", "rejected"} : Finish(r, result)
          \/ Finish(r, "error") /\ reqs[r].op # "submit"
      BY <1>9 DEF SignUrl, CheckObject, MarkConfirmed, Reread, Enqueue, At
    <2>3. {"mark", "fail", "enqueue", "reread"} \subseteq RequestPcs
      BY DEF RequestPcs
    <2> QED
      BY <1>6, <1>7, <2>1, <2>2, <2>3
  <1>10. ASSUME NEW r \in Reqs, MarkFailedSafely(r) PROVE SettledInv'
    <2>1. /\ Active(r) /\ Finish(r, "error")
          /\ MarkFailed(Job(r)) \/ Rejects(Job(r), FailableFrom)
      BY <1>10 DEF MarkFailedSafely, At, Active, Fault
    <2>2. Job(r) \in JobIds /\ jobs[Job(r)].status \in Statuses \ {"absent"}
      BY <2>1 DEF Active, Job, TypeInv, RequestFields, StorageInv, RequestInv, JobsType,
                  JobRow
    <2>3. jobs'[Job(r)].status \in Terminal
      <3>1. CASE MarkFailed(Job(r))
        BY <2>2, <3>1, MarkFailedEffect DEF TypeInv, RowMoves, Terminal
      <3>2. CASE Rejects(Job(r), FailableFrom)
        BY <2>2, <3>2 DEF Rejects, FailableFrom, Statuses, Terminal
      <3> QED
        BY <2>1, <3>1, <3>2
    <2> QED
      BY <1>7, <2>1, <2>2, <2>3
  <1>11. ASSUME NEW r \in Reqs, ApiCrash(r) PROVE SettledInv'
    BY <1>7, <1>11 DEF ApiCrash
  <1>12. ASSUME NEW j \in JobIds, NEW c \in Contents, ClientPut(j, c) PROVE SettledInv'
    BY <1>3, <1>12 DEF ClientPut
  <1> QED
    BY <1>3, <1>4, <1>5, <1>8, <1>9, <1>10, <1>11, <1>12
    DEF Next, ServiceStep, Arrive, Proceed

\* Unless a database statement fails, a submission that created its job and
\* reports an error has left it completed or failed, whatever else goes wrong
\* and whatever the worker or another request does meanwhile (_start and
\* _mark_failed_safely).
THEOREM FailedSubmissionsSettle ==
    "db" \notin Faults => (Spec => []FailedSubmissionSettled)
  <1> SUFFICES ASSUME "db" \notin Faults PROVE Spec => []FailedSubmissionSettled
    OBVIOUS
  <1>1. Spec => [](TypeInv /\ ExecInv)
    BY TypeInvInit, TypeInvStep, ExecInvInit, ExecInvStep, PTL DEF Spec
  <1>2. Spec => []StorageInv
    BY <1>1, StorageInvInit, StorageInvAlways, PTL DEF Spec
  <1>3. Init => SettledInv
    BY DEF Init, ServiceInit, NoRequest, SettledInv
  <1>4. TypeInv /\ StorageInv /\ SettledInv /\ [Next]_vars => SettledInv'
    <2>1. ASSUME SettledInv, UNCHANGED vars PROVE SettledInv'
      BY <2>1 DEF vars, SettledInv, Job
    <2> QED
      BY <2>1, SettledStep
  <1>5. SettledInv => FailedSubmissionSettled
    BY DEF SettledInv, FailedSubmissionSettled
  <1> QED
    BY <1>1, <1>2, <1>3, <1>4, <1>5, PTL DEF Spec

-----------------------------------------------------------------------------
(* The file of a result, where uploads are direct and no URL is used late.  *)

\* What a worker works on, and what it may still find, is the declared input.
CopyInv(w) ==
    /\ WorkerAt(w, "resolve") => objects[Task(w)] \in {None, jobs[Task(w)].input}
    /\ WorkerAt(w, "execute") \/ WorkerAt(w, "complete")
       => workers[w].copy = jobs[Task(w)].input

FilesInv ==
    /\ \A r \in Reqs : Active(r) => reqs[r].op # "submit"
    /\ \A r \in Reqs : reqs[r].pc = "mark" /\ jobs[Job(r)].status = "pending"
                       => objects[Job(r)] = jobs[Job(r)].input
    /\ \A j \in JobIds : jobs[j].status \in {"uploaded", "running"}
                         => objects[j] = jobs[j].input
    /\ \A w \in Workers : CopyInv(w)
    /\ OutputMatchesInput

\* An object is uploaded while its job is pending and has none, and deleted
\* when its job is finished.
ObjectMoves(j) ==
    \/ objects'[j] = objects[j]
    \/ jobs[j].status = "pending" /\ objects[j] = None /\ UNCHANGED jobs
    \/ jobs[j].status \in Terminal /\ objects'[j] = None

\* A request comes to mark a row only after it compared the object.
ChecksObject(r) ==
    /\ Active(r)' => reqs'[r].op # "submit"
    /\ reqs'[r].pc = "mark" =>
          \/ reqs'[r] = reqs[r]
          \/ /\ UNCHANGED <<jobs, objects>>
             /\ objects[reqs'[r].job] = jobs[reqs'[r].job].input

\* A worker comes to resolve the input of an uploaded job only, and copies what
\* is stored.
CopiesObject(w) ==
    \/ workers'[w].pc \notin {"resolve", "execute", "complete"}
    \/ workers'[w] = workers[w]
    \/ /\ WorkerAt(w, "claim") /\ workers'[w].pc = "resolve"
       /\ Task(w)' = Task(w) /\ jobs[Task(w)].status = "uploaded"
    \/ /\ WorkerAt(w, "resolve") /\ workers'[w].pc = "execute"
       /\ Task(w)' = Task(w) /\ UNCHANGED jobs
       /\ workers'[w].copy = objects[Task(w)] /\ objects[Task(w)] # None
    \/ /\ WorkerAt(w, "execute") /\ workers'[w].pc = "complete"
       /\ Task(w)' = Task(w) /\ workers'[w].copy = workers[w].copy

LEMMA FilesFrame ==
  ASSUME TypeInv, ExecInv, StorageInv, FilesInv, ServiceRows \/ WorkerRows,
         \A j \in JobIds : ObjectMoves(j),
         \A j \in JobIds : jobs[j].status = "pending" /\ jobs'[j].status = "uploaded"
                           => objects[j] = jobs[j].input,
         \A j \in JobIds : jobs'[j].status = "completed"
                           => jobs[j].status = "completed" \/ jobs'[j].output = jobs[j].input,
         \A r \in Reqs : ChecksObject(r),
         \A w \in Workers : CopiesObject(w)
  PROVE  FilesInv'
  <1>1. \A j \in JobIds : jobs[j].status # "absent" =>
            jobs'[j].input = jobs[j].input /\ jobs[j].input # None
    BY StatusStep, NoneAssumption DEF StorageInv, RowsFilled
  <1>2. \A r \in Reqs : Active(r)' => reqs'[r].op # "submit"
    BY DEF ChecksObject
  <1>3. ASSUME NEW r \in Reqs, reqs'[r].pc = "mark", jobs'[reqs'[r].job].status = "pending"
        PROVE  objects'[reqs'[r].job] = jobs'[reqs'[r].job].input
    <2>1. CASE reqs'[r] = reqs[r]
      <3>1. Job(r) \in JobIds /\ Job(r) = reqs'[r].job /\ jobs[Job(r)].status # "absent"
        BY <1>3, <2>1 DEF Job, Active, TypeInv, RequestFields, StorageInv, RequestInv
      <3>2. jobs[Job(r)].status = "pending"
        BY <1>3, <3>1, StatusStep
      <3>3. objects[Job(r)] = jobs[Job(r)].input /\ reqs[r].pc = "mark"
        BY <1>3, <2>1, <3>2 DEF FilesInv
      <3>4. objects'[Job(r)] = objects[Job(r)]
        BY <1>1, <3>1, <3>2, <3>3 DEF ObjectMoves, Terminal
      <3> QED
        BY <1>1, <3>1, <3>3, <3>4
    <2>2. CASE reqs'[r] # reqs[r]
      BY <1>3, <2>2 DEF ChecksObject
    <2> QED
      BY <2>1, <2>2
  <1>4. ASSUME NEW j \in JobIds, jobs'[j].status \in {"uploaded", "running"}
        PROVE  objects'[j] = jobs'[j].input
    <2>1. \/ jobs[j].status \in {"uploaded", "running"}
          \/ jobs[j].status = "pending" /\ jobs'[j].status = "uploaded"
      BY <1>4, StatusStep
    <2>2. objects[j] = jobs[j].input /\ objects[j] # None
      BY <1>1, <2>1 DEF FilesInv
    <2>3. objects'[j] = objects[j]
      BY <2>1, <2>2 DEF ObjectMoves, Terminal
    <2> QED
      BY <1>1, <2>1, <2>2, <2>3
  <1>5. ASSUME NEW w \in Workers PROVE CopyInv(w)'
    <2>1. workers[w].pc # "idle" => Task(w) \in JobIds
      BY DEF TypeInv, WorkerFields, Task
    <2>2. WorkerAt(w, "resolve") \/ WorkerAt(w, "execute") \/ WorkerAt(w, "complete")
          => jobs[Task(w)].status \in Started
      BY DEF ExecInv, ClaimInv, Claimed, WorkerAt
    <2>3. CASE workers'[w].pc \notin {"resolve", "execute", "complete"}
      BY <2>3 DEF CopyInv, WorkerAt
    <2>4. CASE workers'[w] = workers[w]
      <3>1. Task(w)' = Task(w)
        BY <2>4 DEF Task
      <3>2. WorkerAt(w, "resolve") => objects'[Task(w)] \in {None, jobs'[Task(w)].input}
        BY <1>1, <2>1, <2>2, <2>4 DEF FilesInv, CopyInv, ObjectMoves, WorkerAt, Started
      <3>3. WorkerAt(w, "execute") \/ WorkerAt(w, "complete")
            => workers[w].copy = jobs'[Task(w)].input
        BY <1>1, <2>1, <2>2, <2>4 DEF FilesInv, CopyInv, WorkerAt, Started
      <3> QED
        BY <2>4, <3>1, <3>2, <3>3 DEF CopyInv, WorkerAt
    <2>5. CASE /\ WorkerAt(w, "claim") /\ workers'[w].pc = "resolve"
               /\ Task(w)' = Task(w) /\ jobs[Task(w)].status = "uploaded"
      <3>1. /\ Task(w) \in JobIds
            /\ objects[Task(w)] = jobs[Task(w)].input
        BY <2>1, <2>5 DEF WorkerAt, FilesInv
      <3>2. objects'[Task(w)] = jobs'[Task(w)].input
        BY <1>1, <2>5, <3>1 DEF ObjectMoves, Terminal
      <3> QED
        BY <2>5, <3>2 DEF CopyInv, WorkerAt
    <2>6. CASE /\ WorkerAt(w, "resolve") /\ workers'[w].pc = "execute"
               /\ Task(w)' = Task(w) /\ UNCHANGED jobs
               /\ workers'[w].copy = objects[Task(w)] /\ objects[Task(w)] # None
      BY <2>6 DEF FilesInv, CopyInv, WorkerAt
    <2>7. CASE /\ WorkerAt(w, "execute") /\ workers'[w].pc = "complete"
               /\ Task(w)' = Task(w) /\ workers'[w].copy = workers[w].copy
      BY <1>1, <2>1, <2>2, <2>7 DEF FilesInv, CopyInv, WorkerAt, Started
    <2> QED
      BY <2>3, <2>4, <2>5, <2>6, <2>7 DEF CopiesObject
  <1>6. ASSUME NEW j \in JobIds, jobs'[j].status = "completed"
        PROVE  jobs'[j].output = jobs'[j].input
    <2>1. CASE jobs[j].status = "completed"
      BY <2>1, RowsMonotone DEF FilesInv, OutputMatchesInput, Terminal
    <2>2. CASE jobs[j].status # "completed"
      BY <1>1, <1>6, <2>2, StatusStep
    <2> QED
      BY <2>1, <2>2
  <1> QED
    BY <1>2, <1>3, <1>4, <1>5, <1>6 DEF FilesInv, OutputMatchesInput, Job

\* The steps of the service: only a confirmation that found the declared file
\* marks its row uploaded.
LEMMA FilesService ==
  ASSUME "late_put" \notin Faults, "submit" \notin Ops,
         TypeInv, ExecInv, StorageInv, FilesInv, ServiceStep, UNCHANGED workerVars
  PROVE  FilesInv'
  <1>1. ServiceRows
    BY ServiceRowsStep
  <1>2. \A j \in JobIds : jobs'[j].status = "completed" => jobs[j].status = "completed"
    BY <1>1, CompletedByWorker
  <1>3. \A w \in Workers : CopiesObject(w)
    BY DEF workerVars, CopiesObject
  <1>4. \A r \in Reqs : Active(r) => Job(r) \in JobIds /\ reqs[r].op # "submit"
    BY DEF TypeInv, RequestFields, Active, Job, FilesInv
  <1> DEFINE Uploads == \A j \in JobIds :
                jobs[j].status = "pending" /\ jobs'[j].status = "uploaded"
                => objects[j] = jobs[j].input
             Others(r) == \A q \in Reqs : q # r => reqs'[q] = reqs[q]
  <1>5. \A r \in Reqs : reqs'[r] = reqs[r] => ChecksObject(r)
    BY DEF ChecksObject, FilesInv, Active
  <1>6. Uploads /\ (\A j \in JobIds : ObjectMoves(j)) /\ (\A r \in Reqs : ChecksObject(r))
        => FilesInv'
    BY <1>1, <1>2, <1>3, FilesFrame
  <1>7. ASSUME NEW r \in Reqs, Others(r), ChecksObject(r), Uploads, UNCHANGED objects
        PROVE  FilesInv'
    BY <1>5, <1>6, <1>7 DEF ObjectMoves
  <1>8. UNCHANGED jobs => Uploads
    OBVIOUS
  <1>9. ASSUME NEW r \in Reqs, NEW op \in Ops, NEW u \in Users,
               NEW k \in RunIds \cup {None}, NEW c \in Contents, Create(r, op, u, k, c)
        PROVE  FilesInv'
    <2>1. op \in OpKinds /\ op # "submit" /\ (op = "prepare") \in BOOLEAN
      BY OpsAssumption
    <2>2. Uploads
      <3>1. UNCHANGED jobs \/ \E j \in JobIds : InsertRow(j, u, k, c, op = "prepare")
        BY <1>9 DEF Create
      <3>2. ASSUME NEW j \in JobIds, NEW d \in BOOLEAN, InsertRow(j, u, k, c, d)
            PROVE  Uploads
        BY <3>2, InsertRowEffect DEF TypeInv
      <3> HIDE DEF Uploads
      <3> QED
        BY <1>8, <2>1, <3>1, <3>2
    <2>3. \/ Refuse(r, op)
          \/ \E j \in JobIds, new \in BOOLEAN, pc \in {"save", "url"} :
                Begin(r, op, u, c, j, new, pc)
      BY <1>9 DEF Create
    <2>4. Others(r) /\ ChecksObject(r)
      BY <2>1, <2>3 DEF Refuse, Begin, ChecksObject, Active, TypeInv, ReqsType
    <2> QED
      BY <1>7, <1>9, <2>2, <2>4 DEF Create, resourceVars
  <1>10. ASSUME NEW r \in Reqs, NEW u \in Users, NEW j \in JobIds, ConfirmRead(r, u, j)
         PROVE  FilesInv'
    <2>1. Others(r) /\ ChecksObject(r)
      BY <1>10 DEF ConfirmRead, Refuse, Begin, ChecksObject, Active, TypeInv, ReqsType
    <2> QED
      BY <1>7, <1>8, <1>10, <2>1 DEF ConfirmRead
  <1>11. ASSUME NEW r \in Reqs, Active(r), NEW pc \in RequestPcs, Goto(r, pc), Uploads,
                UNCHANGED objects,
                pc = "mark" => UNCHANGED jobs /\ objects[Job(r)] = jobs[Job(r)].input
         PROVE  FilesInv'
    <2>1. /\ Others(r) /\ reqs'[r].pc = pc
          /\ reqs'[r].job = Job(r) /\ reqs'[r].op = reqs[r].op
      BY <1>11, GotoEffect DEF TypeInv, Job
    <2>2. ChecksObject(r)
      BY <1>4, <1>11, <2>1 DEF ChecksObject
    <2> QED
      BY <1>7, <1>11, <2>1, <2>2
  <1>12. ASSUME NEW r \in Reqs, NEW result \in {"ok", "error", "rejected", "crashed"},
                Finish(r, result), Uploads, UNCHANGED objects
         PROVE  FilesInv'
    <2>1. Others(r) /\ reqs'[r].pc = "done"
      BY <1>12, FinishEffect DEF TypeInv
    <2> QED
      BY <1>7, <1>12, <2>1 DEF ChecksObject, Active
  <1>13. ASSUME NEW r \in Reqs, SaveInput(r) \/ MarkSubmitted(r) PROVE FilesInv'
    BY <1>4, <1>13 DEF SaveInput, MarkSubmitted, At, Active
  <1>14. ASSUME NEW r \in Reqs, MarkConfirmed(r) PROVE FilesInv'
    <2>1. Active(r) /\ reqs[r].pc = "mark"
      BY <1>14 DEF MarkConfirmed, At, Active
    <2>2. MarkUploaded(Job(r)) => Uploads
      BY <1>4, <2>1, MarkUploadedEffect DEF TypeInv, RowMoves, FilesInv
    <2>3. Uploads /\ UNCHANGED objects
      BY <1>14, <2>2 DEF MarkConfirmed, Rejects, resourceVars
    <2>4. \/ \E pc \in {"enqueue", "reread"} : Goto(r, pc)
          \/ \E result \in {"error"} : Finish(r, result)
      BY <1>14 DEF MarkConfirmed
    <2>5. {"enqueue", "reread"} \subseteq RequestPcs
      BY DEF RequestPcs
    <2> HIDE DEF Uploads
    <2> QED
      BY <1>11, <1>12, <2>1, <2>3, <2>4, <2>5
  <1>15. ASSUME NEW r \in Reqs, CheckObject(r) PROVE FilesInv'
    <2>1. Active(r) /\ UNCHANGED <<jobs, objects>>
      BY <1>15 DEF CheckObject, At, Active, resourceVars
    <2>2. \/ \E pc \in {"mark"} : Goto(r, pc) /\ objects[Job(r)] = jobs[Job(r)].input
          \/ \E result \in {"error"} : Finish(r, result)
      BY <1>15 DEF CheckObject
    <2>3. {"mark"} \subseteq RequestPcs
      BY DEF RequestPcs
    <2> QED
      BY <1>8, <1>11, <1>12, <2>1, <2>2, <2>3
  <1>16. ASSUME NEW r \in Reqs, SignUrl(r) \/ Reread(r) \/ Enqueue(r) PROVE FilesInv'
    <2>1. Active(r) /\ UNCHANGED <<jobs, objects>>
      BY <1>16 DEF SignUrl, Reread, Enqueue, At, Active, resourceVars
    <2>2. \/ \E pc \in {"fail"} : Goto(r, pc)
          \/ \E result \in {"ok", "error", "rejected"} : Finish(r, result)
      BY <1>16 DEF SignUrl, Reread, Enqueue
    <2>3. {"fail"} \subseteq RequestPcs
      BY DEF RequestPcs
    <2> QED
      BY <1>8, <1>11, <1>12, <2>1, <2>2, <2>3
  <1>17. ASSUME NEW r \in Reqs, MarkFailedSafely(r) \/ ApiCrash(r) PROVE FilesInv'
    <2>1. Uploads
      <3>1. MarkFailedSafely(r) => Job(r) \in JobIds
        BY <1>4 DEF MarkFailedSafely, At, Active
      <3>2. Job(r) \in JobIds /\ MarkFailed(Job(r)) => Uploads
        BY MarkFailedEffect DEF TypeInv, RowMoves
      <3> QED
        BY <1>17, <3>1, <3>2 DEF MarkFailedSafely, ApiCrash, Rejects
    <2>2. /\ UNCHANGED objects
          /\ \E result \in {"error", "crashed"} : Finish(r, result)
      BY <1>17 DEF MarkFailedSafely, ApiCrash, resourceVars
    <2> HIDE DEF Uploads
    <2> QED
      BY <1>12, <2>1, <2>2
  <1>18. ASSUME NEW j \in JobIds, NEW c \in Contents, ClientPut(j, c) PROVE FilesInv'
    <2>1. /\ objects[j] = None /\ jobs[j].status = "pending" /\ UNCHANGED <<jobs, reqs>>
          /\ \A i \in JobIds : i # j => objects'[i] = objects[i]
      BY <1>18 DEF ClientPut, Fault, SaveObject, TypeInv, ResourcesType
    <2> QED
      BY <1>5, <1>6, <1>8, <2>1 DEF ObjectMoves
  <1> QED
    BY <1>9, <1>10, <1>13, <1>14, <1>15, <1>16, <1>17, <1>18
    DEF ServiceStep, Arrive, Proceed

\* The steps of a worker: it works on the copy it took of what is stored.
LEMMA FilesWorker ==
  ASSUME TypeInv, ExecInv, StorageInv, FilesInv, WorkerStep, UNCHANGED reqs
  PROVE  FilesInv'
  <1>1. PICK w \in Workers : Run(w) \/ WorkerCrash(w)
    BY DEF WorkerStep
  <1>2. WorkerRows
    BY WorkerRowsStep
  <1>3. workers[w].pc # "idle" => Task(w) \in JobIds
    BY DEF TypeInv, WorkerFields, Task
  <1>4. \A r \in Reqs : ChecksObject(r)
    BY DEF ChecksObject, FilesInv, Active
  <1>5. \A j \in JobIds : jobs[j].status = "pending" => jobs'[j].status # "uploaded"
    <2> USE DEF RowMoves, TypeInv
    <2>1. ASSUME NEW i \in JobIds, MarkRunning(i)
          PROVE  \A j \in JobIds : jobs[j].status = "pending" => jobs'[j].status # "uploaded"
      BY <2>1, MarkRunningEffect
    <2>2. ASSUME NEW i \in JobIds, MarkFailed(i)
          PROVE  \A j \in JobIds : jobs[j].status = "pending" => jobs'[j].status # "uploaded"
      BY <2>2, MarkFailedEffect
    <2>3. ASSUME NEW i \in JobIds, NEW c \in Contents, MarkCompleted(i, c)
          PROVE  \A j \in JobIds : jobs[j].status = "pending" => jobs'[j].status # "uploaded"
      BY <2>3, MarkCompletedEffect
    <2> QED
      BY <1>2, <2>1, <2>2, <2>3 DEF WorkerRows
  <1> DEFINE OthersStay == \A v \in Workers : v # w => workers'[v] = workers[v]
             Results == \A j \in JobIds : jobs'[j].status = "completed"
                => jobs[j].status = "completed" \/ jobs'[j].output = jobs[j].input
             Moves == \A j \in JobIds : ObjectMoves(j)
  <1>6. OthersStay /\ CopiesObject(w) /\ Results /\ Moves => FilesInv'
    BY <1>2, <1>4, <1>5, FilesFrame DEF CopiesObject
  <1>7. UNCHANGED objects => Moves
    BY DEF ObjectMoves
  <1>8. (~\E i \in JobIds, c \in Contents : MarkCompleted(i, c)) => Results
    BY <1>2, CompletedByWorker
  <1>9. CASE Release(w) /\ Results /\ Moves
    BY <1>6, <1>9, ReleaseEffect DEF TypeInv, CopiesObject
  <1>10. CASE \E m \in queue : Receive(w, m)
    <2>1. PICK m \in queue : Receive(w, m)
      BY <1>10
    <2>2. m \in Message
      BY DEF TypeInv, ResourcesType
    <2> QED
      BY <1>6, <1>7, <2>1, <2>2, ReceiveEffect DEF Receive, TypeInv, CopiesObject
  <1>11. CASE Load(w)
    <2>1. Results /\ Moves
      BY <1>7, <1>11 DEF Load, resourceVars
    <2>2. CASE WorkerGoto(w, "claim")
      BY <1>6, <2>1, <2>2, WorkerGotoEffect DEF TypeInv, WorkerPcs, CopiesObject
    <2> QED
      BY <1>9, <1>11, <2>1, <2>2 DEF Load
  <1>12. CASE Claim(w)
    <2>1. Task(w) \in JobIds
      BY <1>3, <1>12 DEF Claim, WorkerAt
    <2>2. /\ MarkRunning(Task(w)) => Results
          /\ UNCHANGED jobs => Results
      BY <2>1, MarkRunningEffect DEF TypeInv, RowMoves
    <2>3. Results /\ Moves
      BY <1>7, <1>12, <2>2 DEF Claim, Rejects, resourceVars
    <2>4. CASE MarkRunning(Task(w)) /\ WorkerGoto(w, "resolve")
      <3>1. jobs[Task(w)].status = "uploaded"
        BY <2>1, <2>4, MarkRunningEffect DEF TypeInv
      <3>2. OthersStay /\ workers'[w].pc = "resolve" /\ Task(w)' = Task(w)
        BY <2>4, WorkerGotoEffect DEF TypeInv, WorkerPcs, Task
      <3> QED
        BY <1>6, <1>12, <2>3, <3>1, <3>2 DEF Claim, CopiesObject
    <2> QED
      BY <1>9, <1>12, <2>3, <2>4 DEF Claim
  <1>13. CASE Resolve(w)
    <2>1. Task(w) \in JobIds /\ Results /\ Moves /\ UNCHANGED <<jobs, objects>>
      BY <1>3, <1>7, <1>13 DEF Resolve, WorkerAt, resourceVars
    <2>2. CASE WorkerGoto(w, "fail")
      BY <1>6, <2>1, <2>2, WorkerGotoEffect DEF TypeInv, WorkerPcs, CopiesObject
    <2>3. CASE /\ objects[Task(w)] # None
               /\ workers' = [workers EXCEPT ![w].pc = "execute",
                                             ![w].copy = objects[Task(w)]]
      <3>1. objects[Task(w)] \in Contents
        BY <2>1, <2>3 DEF TypeInv, ResourcesType
      <3>2. /\ OthersStay /\ workers'[w].pc = "execute" /\ Task(w)' = Task(w)
            /\ workers'[w].copy = objects[Task(w)]
        BY <2>3, <3>1, ResolveEffect DEF TypeInv, Task
      <3> QED
        BY <1>6, <1>13, <2>1, <2>3, <3>2 DEF Resolve, CopiesObject
    <2> QED
      BY <1>13, <2>2, <2>3 DEF Resolve
  <1>14. CASE Execute(w)
    <2>1. Results /\ Moves
      BY <1>7, <1>14 DEF Execute, resourceVars
    <2>2. PICK pc \in {"complete", "fail"} : WorkerGoto(w, pc)
      BY <1>14 DEF Execute
    <2>3. /\ OthersStay /\ workers'[w].pc = pc /\ Task(w)' = Task(w)
          /\ workers'[w].copy = workers[w].copy
      BY <2>2, WorkerGotoEffect DEF TypeInv, WorkerPcs, Task
    <2> QED
      BY <1>6, <1>14, <2>1, <2>3 DEF Execute, CopiesObject
  <1>15. CASE Complete(w)
    <2>1. /\ Task(w) \in JobIds /\ workers[w].copy \in Contents
          /\ workers[w].copy = jobs[Task(w)].input
      BY <1>3, <1>15 DEF Complete, WorkerAt, TypeInv, WorkerFields, FilesInv, CopyInv
    <2>2. MarkCompleted(Task(w), workers[w].copy) => Results
      BY <2>1, MarkCompletedEffect DEF TypeInv, RowMoves
    <2>3. Results /\ Moves
      BY <1>7, <1>15, <2>2 DEF Complete, Rejects, resourceVars
    <2>4. OthersStay /\ workers'[w].pc \in {"finish", "fail"}
      BY <1>15, PersistedEffect, WorkerGotoEffect DEF Complete, TypeInv, WorkerPcs
    <2> QED
      BY <1>6, <2>3, <2>4 DEF CopiesObject
  <1>16. CASE Fail(w)
    <2>1. Task(w) \in JobIds
      BY <1>3, <1>16 DEF Fail, WorkerAt
    <2>2. MarkFailed(Task(w)) => Results
      BY <2>1, MarkFailedEffect DEF TypeInv, RowMoves
    <2>3. Results /\ Moves
      BY <1>7, <1>16, <2>2 DEF Fail, Rejects, resourceVars
    <2>4. OthersStay /\ workers'[w].pc = "finish"
      BY <1>16, PersistedEffect DEF Fail, TypeInv
    <2> QED
      BY <1>6, <2>3, <2>4 DEF CopiesObject
  <1>17. CASE FinishRun(w)
    <2>1. Task(w) \in JobIds /\ (workers[w].persisted => jobs[Task(w)].status \in Terminal)
      BY <1>3, <1>17 DEF FinishRun, WorkerAt, ExecInv, ClaimInv
    <2>2. Results /\ Moves
      BY <1>7, <1>17, <2>1
      DEF FinishRun, DeletePrefix, ObjectMoves, TypeInv, ResourcesType
    <2> QED
      BY <1>9, <1>17, <2>2 DEF FinishRun
  <1>18. CASE WorkerCrash(w)
    BY <1>7, <1>9, <1>18 DEF WorkerCrash, resourceVars
  <1> QED
    BY <1>1, <1>10, <1>11, <1>12, <1>13, <1>14, <1>15, <1>16, <1>17, <1>18 DEF Run

\* Where every upload is direct and a browser uses its URL once, the result of
\* a job was computed from the input its request declared: what the worker
\* copied is what confirm_presigned_upload had compared with the declaration.
THEOREM ResultIsOfDeclaredFile ==
    "late_put" \notin Faults /\ "submit" \notin Ops => (Spec => []OutputMatchesInput)
  <1> SUFFICES ASSUME "late_put" \notin Faults, "submit" \notin Ops
               PROVE  Spec => []OutputMatchesInput
    OBVIOUS
  <1>1. Spec => [](TypeInv /\ ExecInv)
    BY TypeInvInit, TypeInvStep, ExecInvInit, ExecInvStep, PTL DEF Spec
  <1>2. Spec => []StorageInv
    BY <1>1, StorageInvInit, StorageInvAlways, PTL DEF Spec
  <1>3. Init => FilesInv
    BY DEF Init, JobStoreInit, NoRow, ServiceInit, NoRequest, WorkerInit, IdleWorker,
           FilesInv, CopyInv, WorkerAt, Active, OutputMatchesInput
  <1>4. TypeInv /\ ExecInv /\ StorageInv /\ FilesInv /\ [Next]_vars => FilesInv'
    <2>1. ASSUME FilesInv, UNCHANGED vars PROVE FilesInv'
      BY <2>1
      DEF vars, resourceVars, workerVars, FilesInv, CopyInv, WorkerAt, Active, Job, Task,
          OutputMatchesInput
    <2> QED
      BY <2>1, FilesService, FilesWorker DEF Next
  <1>5. FilesInv => OutputMatchesInput
    BY DEF FilesInv
  <1> QED
    BY <1>1, <1>2, <1>3, <1>4, <1>5, PTL DEF Spec
=============================================================================
