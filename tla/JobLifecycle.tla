----------------------------- MODULE JobLifecycle -----------------------------
(***************************************************************************)
(* What the pipeline promises about one job, whoever acts on it: a job     *)
(* moves pending -> uploaded -> running -> completed or fails on the way,  *)
(* its workflows start at most once and only after it was claimed, a       *)
(* result exists only for a job whose workflows started, and nothing       *)
(* changes a finished job.  Requests, workers, the queue and the storage   *)
(* do not appear.                                                          *)
(***************************************************************************)
EXTENDS Naturals

CONSTANTS Ids, Results, Nothing

VARIABLES state, starts, outcome

vars == <<state, starts, outcome>>

Init ==
    /\ state = [j \in Ids |-> "absent"]
    /\ starts = [j \in Ids |-> 0]
    /\ outcome = [j \in Ids |-> Nothing]

Step(j, from, to) ==
    /\ state[j] = from
    /\ state' = [state EXCEPT ![j] = to]

Submit(j) == Step(j, "absent", "pending") /\ UNCHANGED <<starts, outcome>>

Upload(j) == Step(j, "pending", "uploaded") /\ UNCHANGED <<starts, outcome>>

Claim(j) == Step(j, "uploaded", "running") /\ UNCHANGED <<starts, outcome>>

\* The claimed job may already have been failed by the API when it starts.
Start(j) ==
    /\ state[j] \in {"running", "failed"}
    /\ starts[j] = 0
    /\ starts' = [starts EXCEPT ![j] = 1]
    /\ UNCHANGED <<state, outcome>>

Complete(j, result) ==
    /\ Step(j, "running", "completed")
    /\ starts[j] = 1
    /\ outcome' = [outcome EXCEPT ![j] = result]
    /\ UNCHANGED starts

Fail(j) ==
    /\ state[j] \in {"pending", "uploaded", "running"}
    /\ state' = [state EXCEPT ![j] = "failed"]
    /\ UNCHANGED <<starts, outcome>>

Next ==
    \E j \in Ids :
        \/ Submit(j) \/ Upload(j) \/ Claim(j) \/ Start(j) \/ Fail(j)
        \/ \E result \in Results : Complete(j, result)

Spec == Init /\ [][Next]_vars
=============================================================================
