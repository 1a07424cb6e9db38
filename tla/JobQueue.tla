------------------------------ MODULE JobQueue ------------------------------
(***************************************************************************)
(* The job queue and everybody who writes to its table                     *)
(* (backend/app/jobs/queue.py, worker.py, main.py; the cancel route of     *)
(* api/routes_jobs.py; delete_project of projects/service.py).             *)
(*                                                                         *)
(* The table lives in PostgreSQL at READ COMMITTED, so every SELECT and    *)
(* every UPDATE is one atomic step and anything may happen between two of  *)
(* them: claim_next is three steps (count, pick, conditional UPDATE) and   *)
(* cancel is two, then `podman kill`.  A worker process runs several loops *)
(* over the same table; several processes may run; a process may be told   *)
(* to stop (the loops finish what they hold), be killed, or die of an      *)
(* exception of one of its loops, and then it leaves its rows RUNNING and  *)
(* perhaps its containers too.                                             *)
(*                                                                         *)
(* Bounds: Jobs and Clients are finite (a client sends one cancel          *)
(* request), processes die at most MaxDeaths times and are told to stop    *)
(* at most MaxStops times in a behaviour, the project is deleted once.     *)
(***************************************************************************)
EXTENDS Integers, FiniteSets

CONSTANTS
    Jobs,           \* job ids; created_at order is id order
    Owned,          \* the jobs submitted from the one project that may be deleted
    Slow,           \* DEVSIM jobs: 6000 s limit, while the stale cutoff is 1800 s
    Workers,        \* worker processes
    Loops,          \* run_forever loops
    Home,           \* Home[l]: the process that runs loop l
    Clients,        \* cancel requests
    MaxConcurrent,  \* settings.max_concurrent_jobs
    MaxDeaths,      \* bound on the ends of a process that are no Leave
    MaxStops        \* bound on SIGTERMs

NoJob == 0

ASSUME QueueAssumption ==
    /\ IsFiniteSet(Jobs) /\ Jobs \subseteq Nat \ {NoJob}
    /\ Owned \subseteq Jobs /\ Slow \subseteq Jobs
    /\ IsFiniteSet(Loops) /\ Home \in [Loops -> Workers]
    /\ MaxConcurrent \in Nat \ {0}
    /\ MaxDeaths \in Nat /\ MaxStops \in Nat
    \* run_loops is given max_concurrent_jobs.
    /\ \A w \in Workers : Cardinality({l \in Loops : Home[l] = w}) <= MaxConcurrent

VARIABLES
    status,    \* status[j]: Job.status, "none" before the INSERT, "gone" after the DELETE
    stale,     \* stale[j]: started_at is older than the requeue_stale cutoff
    box,       \* box[j]: the container named after j's workdir: "none", "attached" to a loop, or "orphan"
    proc,      \* proc[w]: "down", "up", "stopping" (stop event set), or "dying"
               \* (an exception has ended its loops; it waits for its threads)
    pc,        \* pc[l]: where loop l is
    held,      \* held[l]: the job id loop l picked
    verdict,   \* verdict[l]: the status loop l is about to record
    call,      \* call[c]: where cancel request c is
    target,    \* target[c]: the job it names
    before,    \* before[c]: the status it read first
    reply,     \* reply[c]: "ok" (200) or "conflict" (409)
    project,   \* the project of Owned: "there", "checked" (ProjectBusy passed), "deleted"
    deaths, stops

jobVars    == <<status, stale, box>>
loopVars   == <<proc, pc, held, verdict>>
clientVars == <<call, target, before, reply>>
otherVars  == <<project, deaths, stops>>
vars       == <<jobVars, loopVars, clientVars, otherVars>>

Settled   == {"succeeded", "failed", "timed_out", "cancelled"}
Live      == {"queued", "running"}
Verdicts  == Settled \ {"cancelled"}
Racing    == {"gated", "chosen"}                        \* past the count, not yet claimed
Executing == {"claimed", "loaded", "running", "ran"}    \* the claim is committed

Running == {j \in Jobs : status[j] = "running"}
Queued  == {j \in Jobs : status[j] = "queued"}
Racers  == {l \in Loops : pc[l] \in Racing}
Holds(l, j) == pc[l] \in Executing /\ held[l] = j
LoopsOf(w)  == {l \in Loops : Home[l] = w}

\* RUNNING rows that nobody will bring to an end: no loop holds them, or one
\* that has been cancelled and whose thread is only waited for.
Stranded ==
    {j \in Running : \A l \in Loops : Holds(l, j) => proc[Home[l]] = "dying"}

TypeOK ==
    /\ status \in [Jobs -> Live \cup Settled \cup {"none", "gone"}]
    /\ stale \in [Jobs -> BOOLEAN]
    /\ box \in [Jobs -> {"none", "attached", "orphan"}]
    /\ proc \in [Workers -> {"down", "up", "stopping", "dying"}]
    /\ pc \in [Loops -> {"down", "idle"} \cup Racing \cup Executing]
    /\ held \in [Loops -> Jobs \cup {NoJob}]
    /\ verdict \in [Loops -> Verdicts \cup {"none"}]
    /\ call \in [Clients -> {"none", "read", "kill", "done"}]
    /\ target \in [Clients -> Jobs \cup {NoJob}]
    /\ before \in [Clients -> Live \cup {"none"}]
    /\ reply \in [Clients -> {"none", "ok", "conflict"}]
    /\ project \in {"there", "checked", "deleted"}
    /\ deaths \in 0..MaxDeaths /\ stops \in 0..MaxStops
    /\ \A l \in Loops :
          pc[l] \in {"chosen"} \cup Executing => held[l] # NoJob
    /\ \A l \in Loops :
          pc[l] \in {"down", "idle", "gated"} => held[l] = NoJob /\ verdict[l] = "none"
    /\ \A l \in Loops : pc[l] = "ran" <=> verdict[l] # "none"
    /\ \A c \in Clients : call[c] # "none" => target[c] # NoJob

Init ==
    /\ status = [j \in Jobs |-> "none"]
    /\ stale = [j \in Jobs |-> FALSE]
    /\ box = [j \in Jobs |-> "none"]
    /\ proc = [w \in Workers |-> "down"]
    /\ pc = [l \in Loops |-> "down"]
    /\ held = [l \in Loops |-> NoJob]
    /\ verdict = [l \in Loops |-> "none"]
    /\ call = [c \in Clients |-> "none"]
    /\ target = [c \in Clients |-> NoJob]
    /\ before = [c \in Clients |-> "none"]
    /\ reply = [c \in Clients |-> "none"]
    /\ project = "there" /\ deaths = 0 /\ stops = 0

-----------------------------------------------------------------------------
(* Submission: enqueue is a single INSERT of a QUEUED row.  A job of the   *)
(* project refers to one of its revisions, so it needs the project.        *)

Submit(j) ==
    /\ status[j] = "none"
    /\ j \in Owned => project # "deleted"
    /\ status' = [status EXCEPT ![j] = "queued"]
    /\ UNCHANGED <<stale, box, loopVars, clientVars, otherVars>>

-----------------------------------------------------------------------------
(* A worker loop: claim_next, _execute, mark_finished.  The conditions on  *)
(* the row are operators of their own; beside each stands the slip that    *)
(* the properties below are meant to notice.                               *)

\* claim_next starts a job only while fewer than max_concurrent run.
HasRoomTooLax   == Cardinality(Running) <= MaxConcurrent
HasRoom         == Cardinality(Running) < MaxConcurrent

\* WHERE id = candidate AND status = QUEUED.
Claimable(j) == status[j] = "queued"

\* mark_finished: WHERE id = job AND status = RUNNING.
MarkableUnguarded(j) == status[j] # "gone"
Markable(j)          == status[j] = "running"

\* The loop condition and the first SELECT of claim_next.  A full queue makes
\* run_once return False and the loop poll again: no state changes.
Gate(l) ==
    /\ pc[l] = "idle" /\ proc[Home[l]] = "up"
    /\ HasRoom
    /\ pc' = [pc EXCEPT ![l] = "gated"]
    /\ UNCHANGED <<jobVars, proc, held, verdict, clientVars, otherVars>>

\* The second SELECT: the oldest queued job, if any.
Select(l) ==
    /\ pc[l] = "gated"
    /\ \/ /\ Queued = {}
          /\ pc' = [pc EXCEPT ![l] = "idle"]
          /\ UNCHANGED held
       \/ \E j \in Queued :
          /\ \A k \in Queued : j <= k
          /\ pc' = [pc EXCEPT ![l] = "chosen"]
          /\ held' = [held EXCEPT ![l] = j]
    /\ UNCHANGED <<jobVars, proc, verdict, clientVars, otherVars>>

\* Back to the top of run_forever with nothing held.
Release(l) ==
    /\ pc' = [pc EXCEPT ![l] = "idle"]
    /\ held' = [held EXCEPT ![l] = NoJob]
    /\ verdict' = [verdict EXCEPT ![l] = "none"]

\* The conditional UPDATE: rowcount 0 means another loop was first.
Claim(l) ==
    /\ pc[l] = "chosen"
    /\ \/ /\ Claimable(held[l])
          /\ status' = [status EXCEPT ![held[l]] = "running"]
          /\ stale' = [stale EXCEPT ![held[l]] = FALSE]
          /\ pc' = [pc EXCEPT ![l] = "claimed"]
          /\ UNCHANGED <<held, verdict>>
       \/ /\ ~Claimable(held[l])
          /\ Release(l)
          /\ UNCHANGED <<status, stale>>
    /\ UNCHANGED <<box, proc, clientVars, otherVars>>

\* session.get after the commit: a row deleted meanwhile reads as None, and
\* run_once takes that for an empty queue.
Fetch(l) ==
    /\ pc[l] = "claimed"
    /\ \/ /\ status[held[l]] = "gone"
          /\ Release(l)
       \/ /\ status[held[l]] # "gone"
          /\ pc' = [pc EXCEPT ![l] = "loaded"]
          /\ UNCHANGED <<held, verdict>>
    /\ UNCHANGED <<jobVars, proc, clientVars, otherVars>>

\* _load_source and the `podman run --name`.  A missing row raises, and the
\* mark_finished of the exception path finds no row either; a name that is still
\* taken makes podman refuse, and the job is a failed one.
Launch(l) ==
    LET j == held[l] IN
    /\ pc[l] = "loaded"
    /\ \/ /\ status[j] = "gone"
          /\ Release(l)
          /\ UNCHANGED box
       \/ /\ status[j] # "gone" /\ box[j] = "none"
          /\ box' = [box EXCEPT ![j] = "attached"]
          /\ pc' = [pc EXCEPT ![l] = "running"]
          /\ UNCHANGED <<held, verdict>>
       \/ /\ status[j] # "gone" /\ box[j] # "none"
          /\ pc' = [pc EXCEPT ![l] = "ran"]
          /\ verdict' = [verdict EXCEPT ![l] = "failed"]
          /\ UNCHANGED <<box, held>>
    /\ UNCHANGED <<status, stale, proc, clientVars, otherVars>>

\* The container ends: it finished, crashed, was killed by the output watchdog
\* or by conmon's --timeout.
BoxEnds(j) ==
    /\ box[j] # "none"
    /\ box' = [box EXCEPT ![j] = "none"]
    /\ UNCHANGED <<status, stale, loopVars, clientVars, otherVars>>

\* The thread returns a result, or raises (recorded as FAILED).  A client that
\* timed out first leaves the container behind.
Collect(l) ==
    LET j == held[l] IN
    /\ pc[l] = "running" /\ proc[Home[l]] # "dying"
    /\ \/ /\ box[j] # "attached"
          /\ \E v \in Verdicts : verdict' = [verdict EXCEPT ![l] = v]
          /\ UNCHANGED box
       \/ /\ box[j] = "attached"
          /\ box' = [box EXCEPT ![j] = "orphan"]
          /\ verdict' = [verdict EXCEPT ![l] = "timed_out"]
    /\ pc' = [pc EXCEPT ![l] = "ran"]
    /\ UNCHANGED <<status, stale, proc, held, clientVars, otherVars>>

\* _status_for turns the result into the status to record.
OutcomeWithoutTimeout(l) == IF verdict[l] = "timed_out" THEN "running" ELSE verdict[l]
Outcome(l)               == verdict[l]

\* _record that succeeds, or the exception path of run_once.  Both end in
\* mark_finished, whose UPDATE moves a RUNNING row and no other.
Mark(l) ==
    LET j == held[l] IN
    /\ pc[l] = "ran"
    /\ status' = IF Markable(j)
                 THEN [status EXCEPT ![j] = Outcome(l)] ELSE status
    /\ Release(l)
    /\ UNCHANGED <<stale, box, proc, clientVars, otherVars>>

\* The loops of L are over.
Drop(L) ==
    /\ pc' = [l \in Loops |-> IF l \in L THEN "down" ELSE pc[l]]
    /\ held' = [l \in Loops |-> IF l \in L THEN NoJob ELSE held[l]]
    /\ verdict' = [l \in Loops |-> IF l \in L THEN "none" ELSE verdict[l]]

\* _record raises before it comes to mark_finished: rows of a job that is gone,
\* artifacts the job has already, a recording of the same source that overlaps,
\* a file that has gone (ArtifactStore and SavedStructures say when).  Nothing
\* catches it.  gather passes it on, asyncio.run cancels the other loops
\* wherever they are, and the process waits for its threads.  No row changes.
RecordFails(l) ==
    LET w == Home[l]
        waiting == {m \in LoopsOf(w) : pc[m] = "running"} IN
    /\ pc[l] = "ran" /\ deaths < MaxDeaths
    /\ deaths' = deaths + 1
    /\ Drop(LoopsOf(w) \ waiting)
    /\ proc' = [proc EXCEPT ![w] = IF waiting = {} THEN "down" ELSE "dying"]
    /\ UNCHANGED <<jobVars, clientVars, project, stops>>

-----------------------------------------------------------------------------
(* Worker processes.                                                       *)

\* requeue_stale: WHERE status = RUNNING AND started_at < cutoff.
RecoverableAtOnce(j) == status[j] = "running"
Recoverable(j)       == status[j] = "running" /\ stale[j]

\* run_worker: requeue_stale once, then the loops.
Boot(w) ==
    LET back == {j \in Jobs : Recoverable(j)} IN
    /\ proc[w] = "down"
    /\ proc' = [proc EXCEPT ![w] = "up"]
    /\ status' = [j \in Jobs |-> IF j \in back THEN "queued" ELSE status[j]]
    /\ stale' = [j \in Jobs |-> j \notin back /\ stale[j]]
    /\ pc' = [l \in Loops |-> IF Home[l] = w THEN "idle" ELSE pc[l]]
    /\ UNCHANGED <<box, held, verdict, clientVars, otherVars>>

\* SIGTERM or SIGINT sets the stop event.
Stop(w) ==
    /\ proc[w] = "up" /\ stops < MaxStops
    /\ proc' = [proc EXCEPT ![w] = "stopping"]
    /\ stops' = stops + 1
    /\ UNCHANGED <<jobVars, pc, held, verdict, clientVars, project, deaths>>

\* The process ends with the last of its loops.
LastOut(l) ==
    proc' = IF \A m \in LoopsOf(Home[l]) \ {l} : pc[m] = "down"
            THEN [proc EXCEPT ![Home[l]] = "down"] ELSE proc

\* An idle loop sees the event and returns.
Leave(l) ==
    /\ pc[l] = "idle" /\ proc[Home[l]] = "stopping"
    /\ Drop({l}) /\ LastOut(l)
    /\ UNCHANGED <<jobVars, clientVars, otherVars>>

\* A thread of a dying process ends as it does in Collect; nobody takes its
\* result.
ThreadEnds(l) ==
    /\ pc[l] = "running" /\ proc[Home[l]] = "dying"
    /\ box' = [box EXCEPT ![held[l]] = IF @ = "attached" THEN "orphan" ELSE @]
    /\ Drop({l}) /\ LastOut(l)
    /\ UNCHANGED <<status, stale, clientVars, otherVars>>

\* SIGKILL, a crash, a power cut, or the end of TimeoutStopSec: 650 s after the
\* SIGTERM, which a Slow run and one of several attempts outlast.  Each container
\* the process was attached to dies with it or stays behind under conmon.
Kill(w) ==
    LET Attached(j) == \E l \in LoopsOf(w) : pc[l] = "running" /\ held[l] = j IN
    /\ proc[w] # "down" /\ deaths < MaxDeaths
    /\ deaths' = deaths + 1
    /\ proc' = [proc EXCEPT ![w] = "down"]
    /\ Drop(LoopsOf(w))
    /\ \E left \in {"none", "orphan"} :
          box' = [j \in Jobs |-> IF box[j] = "attached" /\ Attached(j)
                                 THEN left ELSE box[j]]
    /\ UNCHANGED <<status, stale, clientVars, project, stops>>

\* Time passes until started_at < now - 3 * job_timeout_seconds.  The run of a
\* SUPREM job is over long before that; the run of a DEVSIM job need not be.
CutoffPasses(j) ==
    /\ status[j] = "running" /\ ~stale[j]
    /\ j \notin Slow => box[j] = "none" /\ \A l \in Loops : ~Holds(l, j)
    /\ stale' = [stale EXCEPT ![j] = TRUE]
    /\ UNCHANGED <<status, box, loopVars, clientVars, otherVars>>

-----------------------------------------------------------------------------
(* POST /jobs/{id}/cancel.                                                 *)

Answer(c, word) ==
    /\ call' = [call EXCEPT ![c] = "done"]
    /\ reply' = [reply EXCEPT ![c] = word]

\* JobQueue.cancel reads the row and remembers its status.
CancelRead(c, j) ==
    /\ call[c] = "none" /\ status[j] \notin {"none", "gone"}
    /\ target' = [target EXCEPT ![c] = j]
    /\ \/ /\ status[j] \in Settled
          /\ Answer(c, "conflict")
          /\ UNCHANGED before
       \/ /\ status[j] \in Live
          /\ call' = [call EXCEPT ![c] = "read"]
          /\ before' = [before EXCEPT ![c] = status[j]]
          /\ UNCHANGED reply
    /\ UNCHANGED <<jobVars, loopVars, otherVars>>

\* cancel: WHERE id = job AND status IN (QUEUED, RUNNING).
CancellableUnguarded(j) == status[j] # "gone"
Cancellable(j)          == status[j] \in Live

\* The conditional UPDATE; whether to kill is decided by what was read before.
CancelUpdate(c) ==
    LET j == target[c] IN
    /\ call[c] = "read"
    /\ \/ /\ Cancellable(j)
          /\ status' = [status EXCEPT ![j] = "cancelled"]
          /\ reply' = [reply EXCEPT ![c] = "ok"]
          /\ call' = [call EXCEPT
                        ![c] = IF before[c] = "running" THEN "kill" ELSE "done"]
       \/ /\ ~Cancellable(j)
          /\ Answer(c, "conflict")
          /\ UNCHANGED status
    /\ UNCHANGED <<stale, box, loopVars, target, before, otherVars>>

\* kill_container: it may fail, and the cancellation stands all the same.
CancelKill(c) ==
    /\ call[c] = "kill"
    /\ \E left \in {"none", box[target[c]]} :
          box' = [box EXCEPT ![target[c]] = left]
    /\ call' = [call EXCEPT ![c] = "done"]
    /\ UNCHANGED <<status, stale, loopVars, target, before, reply, otherVars>>

-----------------------------------------------------------------------------
(* DELETE /projects/{id}: the jobs are read, then the rows are deleted.    *)

DeleteCheck ==
    /\ project = "there" /\ Owned # {}
    /\ \A j \in Owned : status[j] \notin Live
    /\ project' = "checked"
    /\ UNCHANGED <<jobVars, loopVars, clientVars, deaths, stops>>

\* ON DELETE CASCADE takes every job of the project, whatever it is by now.
DeleteCommit ==
    /\ project = "checked"
    /\ project' = "deleted"
    /\ status' = [j \in Jobs |-> IF j \in Owned /\ status[j] # "none"
                                 THEN "gone" ELSE status[j]]
    /\ UNCHANGED <<stale, box, loopVars, clientVars, deaths, stops>>

-----------------------------------------------------------------------------
LoopStep(l) == Gate(l) \/ Select(l) \/ Claim(l) \/ Fetch(l) \/ Launch(l)
               \/ Collect(l) \/ Mark(l) \/ Leave(l) \/ ThreadEnds(l)

Next ==
    \/ \E j \in Jobs : Submit(j) \/ BoxEnds(j) \/ CutoffPasses(j)
    \/ \E l \in Loops : LoopStep(l) \/ RecordFails(l)
    \/ \E w \in Workers : Boot(w) \/ Stop(w) \/ Kill(w)
    \/ \E c \in Clients, j \in Jobs : CancelRead(c, j)
    \/ \E c \in Clients : CancelUpdate(c) \/ CancelKill(c)
    \/ DeleteCheck \/ DeleteCommit

Spec == Init /\ [][Next]_vars

(* Fairness.  Each loop is an asyncio task the event loop keeps scheduling; *)
(* a thread ends because its container is bounded by conmon's --timeout;   *)
(* time passes; systemd starts a worker that is down.  Submitting,         *)
(* cancelling, deleting, stopping and dying are never owed.                *)
Fairness ==
    /\ \A l \in Loops : WF_vars(LoopStep(l))
    /\ \A j \in Jobs : WF_vars(BoxEnds(j)) /\ WF_vars(CutoffPasses(j))
    /\ \A w \in Workers : WF_vars(Boot(w))

FairSpec == Spec /\ Fairness

-----------------------------------------------------------------------------
(* Safety.                                                                 *)

\* How far the concurrency cap can be exceeded.  claim_next counts the running
\* jobs and updates in separate statements, so every loop that passed the count
\* may still claim: RUNNING rows and such loops together stay within
\* max_concurrent - 1 plus the number of loops.
OvershootBound ==
    Cardinality(Running) + Cardinality(Racers)
        <= MaxConcurrent - 1 + Cardinality(Loops)

\* The slots lost for want of anybody who ends their jobs.  Only the death of a
\* process leaves a row RUNNING that no loop will mark, and no death leaves more
\* than the process had loops.  Claims that race, requests that cancel, projects
\* that are deleted, late results and orderly stops strand none.
LossPerDeath == Cardinality(Stranded) <= deaths * MaxConcurrent

\* jobs/main.py: however many loops and processes run, the number of running
\* jobs never exceeds the setting.  So it is with one process of at most that
\* many loops, the deployed unit (OneUnitKeepsTheCap), until it dies for the
\* first time: the rows it has left are counted by a loop that asks, and then
\* loops that asked together claim beside them.
CapHolds == deaths = 0 => Cardinality(Running) <= MaxConcurrent

\* The conditional UPDATE of claim_next and the cutoff of requeue_stale together
\* keep a job whose limit is below the cutoff from being run by two loops.
NoDuplicateRun ==
    \A j \in Jobs \ Slow, l, m \in Loops : Holds(l, j) /\ Holds(m, j) => l = m

\* The answer to a cancel request is the truth for good: a job reported as
\* stopped never shows another outcome (the worker that still holds it loses
\* its mark_finished), at most one request stopped it, and a 409 is only given
\* for a job that is over.
CancelAnswer ==
    /\ \A c \in Clients :
          /\ reply[c] = "ok" => status[target[c]] \in {"cancelled", "gone"}
          /\ reply[c] = "conflict" => status[target[c]] \in Settled \cup {"gone"}
    /\ \A c, d \in Clients :
          reply[c] = "ok" /\ reply[d] = "ok" /\ target[c] = target[d] => c = d

\* No writer changes the outcome of a finished job: not a late worker, not a
\* second cancel, not the recovery at boot.  It can only be deleted.
OutcomeIsFinal ==
    [][\A j \in Jobs : status[j] \in Settled => status'[j] \in {status[j], "gone"}]_vars

-----------------------------------------------------------------------------
(* What the proofs add to make the invariants above inductive.             *)

\* A process that is down runs no loop, and of one that is dying only those are
\* left whose thread has not ended.
DownTogether ==
    \A l \in Loops :
       /\ proc[Home[l]] = "down" => pc[l] = "down"
       /\ proc[Home[l]] = "dying" => pc[l] \in {"down", "running"}

\* A job some loop holds is not waiting in the queue, and the stale cutoff has
\* not passed for it.
HeldIsTaken ==
    \A j \in Jobs \ Slow, l \in Loops : Holds(l, j) =>
        /\ status[j] \notin {"none", "queued"}
        /\ ~(status[j] = "running" /\ stale[j])

\* A request is answered in the step that decides it, about a row that exists.
AnswerOnce ==
    \A c \in Clients :
        /\ reply[c] = "none" <=> call[c] \in {"none", "read"}
        /\ call[c] # "none" => status[target[c]] # "none"

IInv ==
    /\ TypeOK /\ DownTogether /\ HeldIsTaken /\ AnswerOnce
    /\ NoDuplicateRun /\ LossPerDeath /\ CancelAnswer

-----------------------------------------------------------------------------
(* Liveness and refinement.                                                *)

\* Every submitted job is brought to an end (or deleted), whichever loops stop
\* and restart.  When a process has died there are two exceptions: the row that
\* was left RUNNING and too young to be recovered at the restart, and any other
\* job while such rows take up the whole cap.
EveryJobSettles ==
    \A j \in Jobs : <>[](status[j] \in Live =>
        /\ deaths > 0
        /\ j \in Stranded \/ Cardinality(Stranded) >= MaxConcurrent)

\* The queue implements the atomic life of a job.
Lifecycle == INSTANCE JobLifecycle
    WITH Jobs <- Jobs, Clients <- Clients, status <- status, reply <- reply
RefinesLifecycle == Lifecycle!Spec
=============================================================================
