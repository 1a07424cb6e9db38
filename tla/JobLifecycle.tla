---------------------------- MODULE JobLifecycle ----------------------------
(***************************************************************************)
(* What the job queue promises to whoever submits, runs, cancels or        *)
(* deletes jobs: the life of a job as one status, changed by steps that    *)
(* are atomic.  Nothing here knows about worker processes, SELECTs that    *)
(* precede UPDATEs, or containers.  JobQueue implements it.                *)
(***************************************************************************)
EXTENDS Naturals

CONSTANTS
    Jobs,     \* job rows that may ever be inserted
    Clients   \* cancel requests; each one is answered at most once

VARIABLES
    status,   \* status[j]: JobStatus of the row, or "none" / "gone"
    reply     \* reply[c]: what the cancel request c was answered

vars == <<status, reply>>

\* JobStatus.is_terminal and its complement.
Settled == {"succeeded", "failed", "timed_out", "cancelled"}
Live    == {"queued", "running"}
\* What a worker may write: CANCELLED is the user's word, never the worker's.
Verdicts == Settled \ {"cancelled"}

Init ==
    /\ status = [j \in Jobs |-> "none"]
    /\ reply = [c \in Clients |-> "none"]

Submit(j) ==
    /\ status[j] = "none"
    /\ status' = [status EXCEPT ![j] = "queued"]
    /\ UNCHANGED reply

Start(j) ==
    /\ status[j] = "queued"
    /\ status' = [status EXCEPT ![j] = "running"]
    /\ UNCHANGED reply

\* Only a running job can be given a verdict.
Settle(j) ==
    /\ status[j] = "running"
    /\ \E v \in Verdicts : status' = [status EXCEPT ![j] = v]
    /\ UNCHANGED reply

\* The jobs of a dead worker go back to the queue together.
Requeue(S) ==
    /\ S # {}
    /\ \A j \in S : status[j] = "running"
    /\ status' = [j \in Jobs |-> IF j \in S THEN "queued" ELSE status[j]]
    /\ UNCHANGED reply

\* Answered "ok" exactly when this request is the one that ended the job.
Cancel(c, j) ==
    /\ reply[c] = "none"
    /\ \/ /\ status[j] \in Live
          /\ status' = [status EXCEPT ![j] = "cancelled"]
          /\ reply' = [reply EXCEPT ![c] = "ok"]
       \/ /\ status[j] \in Settled \cup {"gone"}
          /\ reply' = [reply EXCEPT ![c] = "conflict"]
          /\ UNCHANGED status

\* Deleting a project takes its jobs along, whatever has become of them since
\* somebody looked.
Delete(S) ==
    /\ S # {}
    /\ \A j \in S : status[j] \in Live \cup Settled
    /\ status' = [j \in Jobs |-> IF j \in S THEN "gone" ELSE status[j]]
    /\ UNCHANGED reply

Next ==
    \/ \E j \in Jobs : Submit(j) \/ Start(j) \/ Settle(j)
    \/ \E c \in Clients, j \in Jobs : Cancel(c, j)
    \/ \E S \in SUBSET Jobs : Requeue(S) \/ Delete(S)

Spec == Init /\ [][Next]_vars
=============================================================================
