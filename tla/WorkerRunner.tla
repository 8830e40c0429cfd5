----------------------------- MODULE WorkerRunner -----------------------------
(***************************************************************************)
(* src/app/worker/runner.py: WorkerRunner.run for one delivered task, one  *)
(* action per call to the job store, the materializer or the workflows.    *)
(***************************************************************************)
EXTENDS JobResources, Naturals

VARIABLES
    workers,
    executions  \* history: how often the workflows were started per job

workerVars == <<workers, executions>>

WorkerPcs == {"idle", "load", "claim", "resolve", "execute", "complete",
              "fail", "finish"}

\* "copy" is the materialized input, "persisted" is terminal_state_persisted.
Worker == [pc        : WorkerPcs,
           job       : JobIds \cup {None},
           copy      : Contents \cup {None},
           persisted : BOOLEAN]

IdleWorker == [pc |-> "idle", job |-> None, copy |-> None, persisted |-> FALSE]

WorkerInit ==
    /\ workers = [w \in Workers |-> IdleWorker]
    /\ executions = [j \in JobIds |-> 0]

Task(w) == workers[w].job
WorkerAt(w, pc) == workers[w].pc = pc
WorkerGoto(w, pc) == workers' = [workers EXCEPT ![w].pc = pc]
Release(w) == workers' = [workers EXCEPT ![w] = IdleWorker]

\* Celery acknowledges before it runs the task; when the acknowledgement is
\* lost the broker keeps the message and delivers it again.
Receive(w, m) ==
    /\ m \in queue
    /\ WorkerAt(w, "idle")
    /\ workers' = [workers EXCEPT ![w] = [IdleWorker EXCEPT !.pc = "load",
                                                            !.job = m.job]]
    /\ \/ queue' = queue \ {m}
       \/ Fault("redeliver") /\ UNCHANGED queue
    /\ UNCHANGED <<jobs, objects, urls, published, executions>>

\* get_job and _ensure_job_is_uploaded: any other status raises.
Load(w) ==
    /\ WorkerAt(w, "load")
    /\ \/ jobs[Task(w)].status = "uploaded" /\ WorkerGoto(w, "claim")
       \/ jobs[Task(w)].status # "uploaded" /\ Release(w)
       \/ Fault("db") /\ Release(w)
    /\ UNCHANGED <<jobs, resourceVars, executions>>

\* mark_running is outside the try: its error leaves the job as it is.
Claim(w) ==
    /\ WorkerAt(w, "claim")
    /\ \/ MarkRunning(Task(w)) /\ WorkerGoto(w, "resolve")
       \/ Rejects(Task(w), RunnableFrom) /\ Release(w)
       \/ Fault("db") /\ UNCHANGED jobs /\ Release(w)
       \/ Fault("commit") /\ MarkRunning(Task(w)) /\ Release(w)
    /\ UNCHANGED <<resourceVars, executions>>

\* file_resolver.resolve, and the call that starts the workflows on the copy.
Resolve(w) ==
    /\ WorkerAt(w, "resolve")
    /\ \/ /\ objects[Task(w)] # None
          /\ workers' = [workers EXCEPT ![w].pc = "execute",
                                        ![w].copy = objects[Task(w)]]
          /\ executions' = [executions EXCEPT ![Task(w)] = @ + 1]
       \/ /\ objects[Task(w)] = None \/ Fault("storage")
          /\ WorkerGoto(w, "fail")
          /\ UNCHANGED executions
    /\ UNCHANGED <<jobs, resourceVars>>

Execute(w) ==
    /\ WorkerAt(w, "execute")
    /\ \/ WorkerGoto(w, "complete")
       \/ Fault("workflow") /\ WorkerGoto(w, "fail")
    /\ UNCHANGED <<jobs, resourceVars, executions>>

Persisted(w, yes) ==
    workers' = [workers EXCEPT ![w].pc = "finish", ![w].persisted = yes]

Complete(w) ==
    /\ WorkerAt(w, "complete")
    /\ \/ MarkCompleted(Task(w), workers[w].copy) /\ Persisted(w, TRUE)
       \/ Rejects(Task(w), CompletableFrom) /\ WorkerGoto(w, "fail")
       \/ Fault("db") /\ UNCHANGED jobs /\ WorkerGoto(w, "fail")
       \/ /\ Fault("commit")
          /\ MarkCompleted(Task(w), workers[w].copy)
          /\ WorkerGoto(w, "fail")
    /\ UNCHANGED <<resourceVars, executions>>

\* Mutant: the files are deleted even when no terminal state was persisted.
FailAlwaysPersisted(w) ==
    /\ WorkerAt(w, "fail")
    /\ \/ MarkFailed(Task(w)) /\ Persisted(w, TRUE)
       \/ Rejects(Task(w), FailableFrom) /\ Persisted(w, TRUE)
       \/ Fault("db") /\ UNCHANGED jobs /\ Persisted(w, TRUE)
    /\ UNCHANGED <<resourceVars, executions>>
\* Mutant: the failure is persisted but reported as not persisted.
FailNeverPersisted(w) ==
    /\ WorkerAt(w, "fail")
    /\ \/ MarkFailed(Task(w)) \/ Rejects(Task(w), FailableFrom)
    /\ Persisted(w, FALSE)
    /\ UNCHANGED <<resourceVars, executions>>

\* The except branch: _mark_failed_safely says whether it persisted.
Fail(w) ==
    /\ WorkerAt(w, "fail")
    /\ \/ MarkFailed(Task(w)) /\ Persisted(w, TRUE)
       \/ Rejects(Task(w), FailableFrom) /\ Persisted(w, FALSE)
       \/ Fault("db") /\ UNCHANGED jobs /\ Persisted(w, FALSE)
       \/ Fault("commit") /\ MarkFailed(Task(w)) /\ Persisted(w, FALSE)
    /\ UNCHANGED <<resourceVars, executions>>

\* The finally branch: drop the copy, and the stored files of a job whose
\* terminal state this run persisted; an error of delete_prefix is swallowed.
FinishRun(w) ==
    /\ WorkerAt(w, "finish")
    /\ Release(w)
    /\ \/ workers[w].persisted /\ DeletePrefix(Task(w))
       \/ ~workers[w].persisted /\ UNCHANGED objects
       \/ Fault("delete") /\ UNCHANGED objects
    /\ UNCHANGED <<jobs, urls, queue, published, executions>>

\* The worker process dies, e.g. at the hard time limit.
WorkerCrash(w) ==
    /\ Fault("worker")
    /\ ~WorkerAt(w, "idle")
    /\ Release(w)
    /\ UNCHANGED <<jobs, resourceVars, executions>>

Run(w) ==
    \/ \E m \in queue : Receive(w, m)
    \/ Load(w) \/ Claim(w) \/ Resolve(w) \/ Execute(w) \/ Complete(w)
    \/ Fail(w) \/ FinishRun(w)

WorkerStep == \E w \in Workers : Run(w) \/ WorkerCrash(w)
=============================================================================
