---------------------------- MODULE ArtifactStore ----------------------------
(***************************************************************************)
(* The working directories of the jobs, the artifact rows that point into  *)
(* them, and everybody who deletes either: the worker while it runs a job  *)
(* (backend/app/jobs/worker.py over runner/ and devsim/service.py), logout *)
(* and the sweeper (jobs/cache.py, jobs/sweeper.py), and the deletion of a *)
(* project (projects/service.py, api/routes_projects.py).                  *)
(*                                                                         *)
(* A directory and its rows live in two stores with no transaction over    *)
(* both, so each writer touches them in a sequence of steps and the order  *)
(* of those steps is all that protects one from another.  The queue is     *)
(* reduced here to what matters for the files (JobQueue has its own races: *)
(* two loops never hold the same job in this module, and there is one      *)
(* worker process, which runs as many jobs at once as there are).  All     *)
(* jobs belong to one user.                                                *)
(*                                                                         *)
(* Bounds: Jobs is finite; the worker and the API are killed at most       *)
(* MaxKills times together; an hour (_ORPHAN_GRACE) is longer than a       *)
(* request that places a structure and than one pass of the sweeper.       *)
(***************************************************************************)
EXTENDS Integers, FiniteSets

CONSTANTS
    Jobs,      \* job ids, the newest has the greatest
    May,       \* May[j]: which of the Kinds j may be submitted as
    RootResolved,   \* settings.jobs_root is written as resolve() writes it; so it
                    \* is in the deployed environment, not in the default "var/jobs"
    MaxKills

\* A device simulation finds its input in its directory, where the request has
\* placed it; a process job writes its own; a project job is a process job that
\* was submitted from the one project that may be deleted.
Kinds == {"devsim", "process", "project"}

ASSUME StoreAssumption ==
    /\ IsFiniteSet(Jobs) /\ Jobs \subseteq Nat
    /\ May \in [Jobs -> SUBSET Kinds]
    /\ RootResolved \in BOOLEAN
    /\ MaxKills \in Nat

VARIABLES
    row,     \* row[j]: the row of jobs; "placing" and "lost" say that there is none
             \* yet, and that the request died before there was one
    kind,    \* kind[j]: what j was submitted as, "none" before
    tried,   \* tried[j]: a worker has claimed j before
    arts,    \* arts[j]: committed rows of artifacts point into j's directory
    exists,  \* exists[j]: the working directory is on disk
    files,   \* files[j]: what is in it: "input" (structure.str of a device
             \* simulation), "result" (what the screen can open)
    old,     \* old[j]: its mtime is more than an hour ago
    up,      \* the worker process runs
    stage,   \* stage[j]: where the worker is with j
    found,   \* found[j]: the run returned a non-empty list of artifacts
    clean,   \* clean[c]: where the deleter c is
    doomed,  \* doomed[c]: the jobs it has decided to empty
    turn,    \* what the sweeper does next in its cycle
    known,   \* the workdirs its orphan pass has read from the table, as strings
    mistaken,   \* jobs whose directory an orphan pass removed although it had
                \* read their row (history)
    kills

workVars  == <<up, stage, found>>
cleanVars == <<clean, doomed, turn, known, mistaken>>
diskVars  == <<exists, files, old>>
rowVars   == <<row, kind, tried, arts>>
vars      == <<rowVars, diskVars, workVars, cleanVars, kills>>

\* Logout and the deletion of a project run in the API, the sweeper in the worker.
Deleters == {"api", "sweep"}
Settled  == {"finished", "cancelled"}
Recorded == Settled \cup {"queued", "running"}      \* there is a row
Handled(j) == stage[j] # "idle"
Devsim     == {j \in Jobs : kind[j] = "devsim"}
Owned      == {j \in Jobs : kind[j] = "project"}

\* The path of j's directory as the routes write it into the row,
\* settings.jobs_root.resolve() / name, and as the sweeper meets it, an entry of
\* settings.jobs_root.iterdir().  The two are compared as strings.
InRow(j)  == <<"resolved", j>>
OnDisk(j) == <<IF RootResolved THEN "resolved" ELSE "as configured", j>>

TypeOK ==
    /\ row \in [Jobs -> Recorded \cup {"none", "placing", "lost", "gone"}]
    /\ kind \in [Jobs -> Kinds \cup {"none"}]
    /\ tried \in [Jobs -> BOOLEAN] /\ arts \in [Jobs -> BOOLEAN]
    /\ exists \in [Jobs -> BOOLEAN] /\ old \in [Jobs -> BOOLEAN]
    /\ files \in [Jobs -> SUBSET {"input", "result"}]
    /\ up \in BOOLEAN /\ found \in [Jobs -> BOOLEAN]
    /\ stage \in [Jobs -> {"idle", "claimed", "running", "recording", "inserting",
                           "marking"}]
    /\ clean \in [Deleters -> {"free", "rows", "dirs", "orphans"}]
    /\ doomed \in [Deleters -> SUBSET Jobs]
    /\ turn \in {"idle", "quota", "orphans"}
    /\ known \in SUBSET {InRow(j) : j \in Jobs} /\ mistaken \in SUBSET Jobs
    /\ kills \in 0..MaxKills
    /\ \A j \in Jobs : row[j] = "none" <=> kind[j] = "none"
    /\ \A j \in Jobs : ~exists[j] => files[j] = {} /\ ~old[j]
    /\ \A j \in Jobs : arts[j] => row[j] \in Recorded /\ tried[j]
    /\ \A j \in Jobs : Handled(j) => up /\ tried[j]
    /\ ~up => clean["sweep"] = "free" /\ turn = "idle"

Init ==
    /\ row = [j \in Jobs |-> "none"] /\ kind = [j \in Jobs |-> "none"]
    /\ tried = [j \in Jobs |-> FALSE] /\ arts = [j \in Jobs |-> FALSE]
    /\ exists = [j \in Jobs |-> FALSE] /\ files = [j \in Jobs |-> {}]
    /\ old = [j \in Jobs |-> FALSE]
    /\ up = FALSE
    /\ stage = [j \in Jobs |-> "idle"] /\ found = [j \in Jobs |-> FALSE]
    /\ clean = [c \in Deleters |-> "free"] /\ doomed = [c \in Deleters |-> {}]
    /\ turn = "idle" /\ known = {} /\ mistaken = {}
    /\ kills = 0

-----------------------------------------------------------------------------
(* The disk.  Creating or deleting a file renews the mtime of a directory.  *)

Write(j, content) ==
    /\ exists' = [exists EXCEPT ![j] = TRUE]
    /\ files' = [files EXCEPT ![j] = content]
    /\ old' = [old EXCEPT ![j] = FALSE]

\* shutil.rmtree(workdir, ignore_errors=True).
Remove(j) ==
    /\ exists' = [exists EXCEPT ![j] = FALSE]
    /\ files' = [files EXCEPT ![j] = {}]
    /\ old' = [old EXCEPT ![j] = FALSE]

\* More than _ORPHAN_GRACE has passed since the last write.  Appending to a file
\* does not renew the mtime of its directory, so a long run ages as well.
Ages(j) ==
    /\ exists[j] /\ ~old[j]
    /\ row[j] # "placing" /\ clean["sweep"] # "orphans"
    /\ old' = [old EXCEPT ![j] = TRUE]
    /\ UNCHANGED <<rowVars, exists, files, workVars, cleanVars, kills>>

-----------------------------------------------------------------------------
(* Submission and cancellation.                                            *)

\* POST /devsim/jobs copies the structure into the new directory first, ...
Place(j) ==
    /\ row[j] = "none" /\ "devsim" \in May[j]
    /\ row' = [row EXCEPT ![j] = "placing"]
    /\ kind' = [kind EXCEPT ![j] = "devsim"]
    /\ Write(j, {"input"})
    /\ UNCHANGED <<tried, arts, workVars, cleanVars, kills>>

\* ... and enqueues the job then.  A process job has no directory yet, and one
\* of a project needs the project.
Submit(j) ==
    /\ \/ row[j] = "placing" /\ UNCHANGED kind
       \/ /\ row[j] = "none"
          /\ \E k \in May[j] \ {"devsim"} :
                /\ k = "project" => \A i \in Owned : row[i] # "gone"
                /\ kind' = [kind EXCEPT ![j] = k]
    /\ row' = [row EXCEPT ![j] = "queued"]
    /\ UNCHANGED <<tried, arts, diskVars, workVars, cleanVars, kills>>

\* POST /jobs/{id}/cancel: the row at once, the worker when the container ends.
Cancel(j) ==
    /\ row[j] \in {"queued", "running"}
    /\ row' = [row EXCEPT ![j] = "cancelled"]
    /\ UNCHANGED <<kind, tried, arts, diskVars, workVars, cleanVars, kills>>

-----------------------------------------------------------------------------
(* The worker: run_once.                                                   *)

Goto(j, where) == stage' = [stage EXCEPT ![j] = where]

Claim(j) ==
    /\ up /\ row[j] = "queued" /\ stage[j] = "idle"
    /\ row' = [row EXCEPT ![j] = "running"]
    /\ tried' = [tried EXCEPT ![j] = TRUE]
    /\ found' = [found EXCEPT ![j] = FALSE]
    /\ Goto(j, "claimed")
    /\ UNCHANGED <<kind, arts, diskVars, up, cleanVars, kills>>

\* _load_source, mkdir(exist_ok), and the container.  A deleted row raises (the
\* job is marked as failed); a device simulation without its structure.str is a
\* failed result with no artifacts, and nothing is written.
Begin(j) ==
    LET empty == j \in Devsim /\ "input" \notin files[j] IN
    /\ stage[j] = "claimed"
    /\ \/ /\ row[j] = "gone"
          /\ Goto(j, "marking")
          /\ UNCHANGED diskVars
       \/ /\ row[j] # "gone" /\ empty
          /\ exists' = [exists EXCEPT ![j] = TRUE]
          /\ Goto(j, "marking")
          /\ UNCHANGED <<files, old>>
       \/ /\ row[j] # "gone" /\ ~empty
          /\ Write(j, files[j])
          /\ Goto(j, "running")
    /\ UNCHANGED <<rowVars, up, found, cleanVars, kills>>

\* The run is over.  It may raise, as prune_workdir does when the directory is
\* gone; a device that could not be prepared has no artifacts and leaves its
\* input; otherwise the results are collected and everything else is pruned.
Finish(j) ==
    /\ stage[j] = "running"
    /\ \/ /\ Goto(j, "marking")
          /\ UNCHANGED <<diskVars, found>>
       \/ /\ j \in Devsim
          /\ Goto(j, "recording")
          /\ UNCHANGED <<diskVars, found>>
       \/ /\ exists[j]
          /\ \E made \in {{}, {"result"}} :
                LET left == (files[j] \ {"input"}) \cup made IN
                /\ Write(j, left)
                /\ found' = [found EXCEPT ![j] = "result" \in left]
          /\ Goto(j, "recording")
    /\ UNCHANGED <<rowVars, up, cleanVars, kills>>

\* What dies with the worker process: its loops and its sweeper.
WorkerDown ==
    /\ up' = FALSE
    /\ stage' = [j \in Jobs |-> "idle"]
    /\ found' = [j \in Jobs |-> FALSE]
    /\ clean' = [clean EXCEPT !["sweep"] = "free"]
    /\ doomed' = [doomed EXCEPT !["sweep"] = {}]
    /\ turn' = "idle" /\ known' = {} /\ UNCHANGED mistaken

\* An exception in _record reaches run_forever, and gather ends the process.
Dies == WorkerDown /\ UNCHANGED <<rowVars, diskVars, kills>>

\* _save_artifacts: stat of every file ...
Stat(j) ==
    /\ stage[j] = "recording"
    /\ \/ /\ ~found[j] \/ exists[j]
          /\ Goto(j, IF found[j] THEN "inserting" ELSE "marking")
          /\ UNCHANGED <<rowVars, diskVars, up, found, cleanVars, kills>>
       \/ found[j] /\ ~exists[j] /\ Dies

\* ... and the INSERT, which a deleted job (foreign key) and rows of an earlier
\* attempt (uq_artifacts_job_sequence) refuse.
Insert(j) ==
    LET refused == row[j] = "gone" \/ arts[j] IN
    /\ stage[j] = "inserting"
    /\ \/ /\ ~refused
          /\ arts' = [arts EXCEPT ![j] = TRUE]
          /\ Goto(j, "marking")
          /\ UNCHANGED <<row, kind, tried, diskVars, up, found, cleanVars, kills>>
       \/ refused /\ Dies

\* mark_finished, on the normal and on the exception path.
Mark(j) ==
    /\ stage[j] = "marking"
    /\ row' = IF row[j] = "running" THEN [row EXCEPT ![j] = "finished"] ELSE row
    /\ found' = [found EXCEPT ![j] = FALSE]
    /\ Goto(j, "idle")
    /\ UNCHANGED <<kind, tried, arts, diskVars, up, cleanVars, kills>>

\* systemd starts the worker again; requeue_stale takes back the rows that have
\* been running for too long.
Boot ==
    /\ ~up
    /\ up' = TRUE
    /\ \E stale \in SUBSET {j \in Jobs : row[j] = "running"} :
          row' = [j \in Jobs |-> IF j \in stale THEN "queued" ELSE row[j]]
    /\ UNCHANGED <<kind, tried, arts, diskVars, stage, found, cleanVars, kills>>

-----------------------------------------------------------------------------
(* Deleters.  All of them change the table first and the disk afterwards.  *)

\* Which jobs may be emptied: those whose status is_terminal.
EmptyableOnceStarted(j) == row[j] \in Settled \cup {"running"}
Emptyable(j)            == row[j] \in Settled

Doom(c, S, where) ==
    /\ clean[c] = "free"
    /\ clean' = [clean EXCEPT ![c] = where]
    /\ doomed' = [doomed EXCEPT ![c] = S]

\* POST /auth/logout: discard_artifacts reads the jobs of the user.
Logout ==
    LET S == {j \in Jobs : Emptyable(j)} IN
    /\ S # {} /\ Doom("api", S, "rows")
    /\ UNCHANGED <<rowVars, diskVars, workVars, turn, known, mistaken, kills>>

\* sweep_idle_artifacts does the same for a user who is away and has artifacts.
SweepIdle ==
    LET S == {j \in Jobs : Emptyable(j)} IN
    /\ up /\ clean["sweep"] = "free" /\ turn = "idle"
    /\ turn' = "quota"
    /\ \/ UNCHANGED <<clean, doomed>>
       \/ (\E j \in Jobs : arts[j]) /\ S # {} /\ Doom("sweep", S, "rows")
    /\ UNCHANGED <<rowVars, diskVars, workVars, known, mistaken, kills>>

\* sweep_over_quota: some of the settled jobs with artifacts, never the newest.
SweepQuota ==
    LET stored == {j \in Jobs : arts[j]}
        older  == {j \in stored : \E k \in stored : j < k} IN
    /\ up /\ clean["sweep"] = "free" /\ turn = "quota"
    /\ turn' = "orphans"
    /\ \E S \in SUBSET {j \in older : Emptyable(j)} :
          IF S = {} THEN UNCHANGED <<clean, doomed>> ELSE Doom("sweep", S, "rows")
    /\ UNCHANGED <<rowVars, diskVars, workVars, known, mistaken, kills>>

\* The artifact rows go first, in one transaction ...
DropRowsNever(c) == arts
DropRows(c)      == [j \in Jobs |-> arts[j] /\ j \notin doomed[c]]

Unlist(c) ==
    /\ clean[c] = "rows"
    /\ arts' = DropRows(c)
    /\ clean' = [clean EXCEPT ![c] = "dirs"]
    /\ UNCHANGED <<row, kind, tried, diskVars, workVars, doomed, turn, known, mistaken, kills>>

\* ... and then the directories, one by one.
Empty(c) ==
    /\ clean[c] = "dirs"
    /\ \/ \E j \in doomed[c] :
             /\ Remove(j)
             /\ doomed' = [doomed EXCEPT ![c] = @ \ {j}]
             /\ UNCHANGED clean
       \/ /\ doomed[c] = {}
          /\ clean' = [clean EXCEPT ![c] = "free"]
          /\ UNCHANGED <<doomed, diskVars>>
    /\ UNCHANGED <<rowVars, workVars, turn, known, mistaken, kills>>

\* ON DELETE CASCADE takes the artifact rows of a deleted job along.
Cascade == [j \in Jobs |-> arts[j] /\ j \notin Owned]

\* DELETE /projects/{id}: the rows of its jobs, then their directories.  (JobQueue
\* has the gap between the look at the jobs and the DELETE.)
Delete ==
    /\ Owned # {} /\ \A j \in Owned : row[j] \in Settled
    /\ Doom("api", Owned, "dirs")
    /\ row' = [j \in Jobs |-> IF j \in Owned THEN "gone" ELSE row[j]]
    /\ arts' = Cascade
    /\ UNCHANGED <<kind, tried, diskVars, workVars, turn, known, mistaken, kills>>

\* sweep_orphan_workdirs reads the workdirs the table knows ...
SweepOrphans ==
    /\ up /\ clean["sweep"] = "free" /\ turn = "orphans"
    /\ clean' = [clean EXCEPT !["sweep"] = "orphans"]
    /\ known' = {InRow(j) : j \in {i \in Jobs : row[i] \in Recorded}}
    /\ UNCHANGED <<rowVars, diskVars, workVars, doomed, turn, mistaken, kills>>

\* ... and removes every entry whose path is none of them, unless it is young.
OrphanOfAnyAge(j) == exists[j] /\ OnDisk(j) \notin known
OrphanIfYoung(j)  == exists[j] /\ OnDisk(j) \notin known /\ ~old[j]
Orphan(j)         == exists[j] /\ OnDisk(j) \notin known /\ old[j]

RemoveOrphan(j) ==
    /\ clean["sweep"] = "orphans" /\ Orphan(j)
    /\ Remove(j)
    /\ mistaken' = IF InRow(j) \in known THEN mistaken \cup {j} ELSE mistaken
    /\ UNCHANGED <<rowVars, workVars, clean, doomed, turn, known, kills>>

EndCycle ==
    /\ clean["sweep"] = "orphans" /\ \A j \in Jobs : ~Orphan(j)
    /\ clean' = [clean EXCEPT !["sweep"] = "free"]
    /\ turn' = "idle" /\ known' = {} /\ UNCHANGED mistaken
    /\ UNCHANGED <<rowVars, diskVars, workVars, doomed, kills>>

-----------------------------------------------------------------------------
(* Crashes.                                                                *)

\* A container the worker leaves behind may still write its result.
KillWorker ==
    /\ up /\ kills < MaxKills /\ kills' = kills + 1
    /\ WorkerDown
    /\ \E wrote \in SUBSET {j \in Jobs : stage[j] = "running" /\ exists[j]} :
          files' = [j \in Jobs |-> IF j \in wrote THEN files[j] \cup {"result"}
                                   ELSE files[j]]
    /\ UNCHANGED <<rowVars, exists, old>>

\* Its requests are lost between two of their steps.
KillApi ==
    /\ kills < MaxKills /\ kills' = kills + 1
    /\ clean' = [clean EXCEPT !["api"] = "free"]
    /\ doomed' = [doomed EXCEPT !["api"] = {}]
    /\ row' = [j \in Jobs |-> IF row[j] = "placing" THEN "lost" ELSE row[j]]
    /\ UNCHANGED <<kind, tried, arts, diskVars, workVars, turn, known, mistaken>>

LoopStep(j) == Claim(j) \/ Begin(j) \/ Finish(j) \/ Stat(j) \/ Insert(j) \/ Mark(j)

Next ==
    \/ \E j \in Jobs : \/ Place(j) \/ Submit(j) \/ Cancel(j) \/ Ages(j)
                       \/ LoopStep(j) \/ RemoveOrphan(j)
    \/ \E c \in Deleters : Unlist(c) \/ Empty(c)
    \/ Logout \/ Delete \/ SweepIdle \/ SweepQuota \/ SweepOrphans \/ EndCycle
    \/ Boot \/ KillWorker \/ KillApi

Spec == Init /\ [][Next]_vars

(* Fairness.  The worker's loops and its sweeper are tasks of one event    *)
(* loop, systemd restarts the process, time passes.  The steps of a sweep  *)
(* are strongly fair: a crash of the worker starts the cycle anew, and a   *)
(* job that may crash it again waits for the stale cutoff (30 minutes)     *)
(* while the first cycle begins at boot.  Ages is strongly fair because    *)
(* the model stops the clock during a pass of the sweeper.                 *)
Fairness ==
    /\ WF_vars(Boot)
    /\ \A j \in Jobs : SF_vars(Ages(j)) /\ WF_vars(LoopStep(j))
    /\ SF_vars(SweepIdle) /\ SF_vars(SweepQuota) /\ SF_vars(SweepOrphans)
    /\ SF_vars(EndCycle) /\ SF_vars(Unlist("sweep")) /\ SF_vars(Empty("sweep"))
    /\ \A j \in Jobs : SF_vars(RemoveOrphan(j))

FairSpec == Spec /\ Fairness

-----------------------------------------------------------------------------
(* Properties.                                                             *)

\* The doc string of sweep_orphan_workdirs: it removes the work directories no
\* job points to.
OnlyOrphansGo == mistaken = {}

\* What the screen lists can be opened.  The rows of artifacts of a job that was
\* not cancelled always have their files: deleters take the rows away before
\* the directory, whatever crashes in between, and a second attempt keeps what
\* the first has recorded.  (A cancelled job counts as finished while its run
\* goes on, so it may be emptied in the middle and recorded afterwards.)
ArtifactsAreThere ==
    \A j \in Jobs \ mistaken :
        arts[j] /\ row[j] # "cancelled" => "result" \in files[j]

\* A device simulation that waits for its first attempt has its input, though it
\* lay on disk before any row knew of it and may wait for longer than the grace
\* of the orphan sweep.
FirstRunHasInput ==
    \A j \in Devsim \ mistaken :
        row[j] = "queued" /\ ~tried[j] => "input" \in files[j]

\* Nobody takes the directory away from under a job that runs.  Its row may be
\* younger than the table the orphan sweep has read.
RunKeepsDirectory ==
    \A j \in Jobs \ mistaken :
        row[j] = "running" /\ stage[j] \in {"running", "recording", "inserting"}
            => exists[j]

\* A directory that no row refers to any more (its project is gone, or the
\* request that made it died) does not stay on disk.
OrphansGo ==
    \A j \in Jobs : exists[j] /\ row[j] \in {"lost", "gone"} ~> ~exists[j]
=============================================================================
