# TLA+ specifications of the TCAD web application

This directory models the concurrent core of the application: the job queue and
its workers, one simulation from source to result, the sessions, the accounts
and their throttle, the files of the jobs with everybody who deletes them, the
structures kept for device simulation, the bias sweep, and the two parts of the
browser client that talk to the server while the user goes on working. TLC
checks the models on small instances; TLAPS proves the theorems of the
`*Proofs` modules for every value of the constants.

```
tlc -workers 2 -config JobQueueSafety.cfg MCJobQueue.tla    # a run
tlapm JobQueueProofs.tla                                    # the proofs
```

Paths below are relative to the repository; `app/` is `backend/app/` and `fe/`
is `frontend/src/`.

## 1. The system

Two Python processes share a PostgreSQL database (READ COMMITTED), a Redis and a
file system. The **API** (FastAPI, one asyncio event loop) answers the browser.
The **worker** (`app/jobs/main.py`, another event loop) runs
`max_concurrent_jobs` loops and a sweeper. A loop hands each simulation to a
thread, which runs a container with `podman run` and waits for it. There is no
message broker: the `jobs` table is the queue, polled by the loops; the browser
polls the API. So the components interact through rows, keys, files and
container names, and nearly everything hard is a read and a write with an
`await` in between.

| Component | State | Operations | Hard behaviour | What makes it correct |
|---|---|---|---|---|
| Job queue (`app/jobs/queue.py`) | `jobs` rows: status, started_at | enqueue, claim_next, mark_finished, cancel, requeue_stale | each operation is several statements; loops and processes interleave | one run per job, final outcomes, truthful cancels, bounded concurrency, every job ends |
| Worker (`app/jobs/worker.py`, `main.py`) | loops, the job each holds, threads | run_once, recover_stale, boot, stop | killed at any moment, dead of an exception while it records, restarted after 5 s, stopped while a run goes on | only a death leaves a claimed job without anybody who ends it |
| Cancel (`app/api/routes_jobs.py`, `app/runner/control.py`) | none | row first, then `podman kill` by name | decides by a status read before the UPDATE; the kill may fail or come too early | a job reported as stopped stays stopped |
| Runner (`app/runner/`) | working directory, container, log | run, retry once, resume once, watchdog, collect | time-outs of client and container race; an attempt meets files, log and watchdog of the one before | a success holds every step once (for names used once) and no error; a kill is explained; the run ends |
| Artifact cache (`app/jobs/cache.py`, `sweeper.py`), projects | `artifacts` rows, directories, mtimes | discard on logout, idle sweep, quota sweep, orphan sweep, deletion | two stores, no common transaction; crash in between; directories older than their row; one path in two spellings | what is listed exists; nobody takes a directory away from a running or waiting job; garbage goes |
| Saved structures (`app/jobs/worker.py:194`, `app/devsim/catalog.py`) | folder and rows per source file | replace, use | two runs of one source file; a reader in between | rows and files belong to one run |
| Bias sweep (`docker/devsim/run.py`) | voltages, node values, stream of rows | ramp, bisect, record, fall back | any solve may fail and leave rubbish behind | a row is the solution of its point, each point once, the sweep ends |
| Sessions (`app/auth/policy.py`, `redis_store.py`, `app/api/deps.py`) | Redis keys with a TTL | open, touch, close, count | SCAN and GET are not one snapshot; a session is read, judged and written back | a login leaves nobody too many and no second session, but for those written behind its back; dead sessions stay dead, silence frees the seat |
| Invitations, accounts (`app/auth/invites.py`, `service.py`) | invite rows, users | issue, redeem, revoke, register | redeem commits before the user exists; a refusal is explained by a second read | uses are accounted for, answers are true |
| Rate limits (`app/api/rate_limit.py`, `throttle.py`) | a deque of times per key | allow, record, prune, collect | window edges; asked before and told after an await | bounded guesses, an exact Retry-After |
| Editor (`fe/features/workspace/`, `fe/features/files/FileBrowser.tsx`) | tabs and buffers; the session stored on the server | load, edit, save, run, create, rename, delete, persist | every request may be late, lost or out of order while the user types | no text is lost, no tab looks saved that is not, no stale run |
| Job panel (`fe/features/jobs/`) | job, status, console | poll, retry, stop, switch | answers of an earlier effect; a cancel answer that belongs to none | the screen converges to the server |
| Meshes, plots, manual, catalogue, quota by size, paths | none | pure functions | numerical | out of scope |
| SUPREM-IV (`SUPREM4GS/`) | none | vendored C | none | a container that ends |

`PROJECT.json` lists the same components with their files and, under `hazards`,
the places where something can go wrong that a test would hardly reach.

## 2. Modules

| Module | Contents | Proofs |
|---|---|---|
| `JobLifecycle` | abstract: the life of a job as one status and atomic steps | |
| `JobQueue` | queue, loops, processes and their deaths, containers, cancel, project deletion; implements `JobLifecycle` | `JobQueueProofs` |
| `Runner` | `run_simulation`: thread, container, conmon, watchdogs, cancel | `ContainerProofs` |
| `ArtifactStore` | directories and artifact rows, and all who write or delete them | `ArtifactStoreProofs` |
| `SavedStructures` | folder and rows of one source file, recordings, readers | `SavedStructuresProofs` |
| `BiasSweep` | `class Solver` and `run()` of the device simulation | `ContainerProofs` |
| `Sessions` | sessions over Redis commands, with time | `SessionsProofs` |
| `RateLimiter` | the sliding window, as operators on the dictionary it keeps | |
| `Accounts` | invitations, registration and its throttle; composes `RateLimiter` | `AccountsProofs` |
| `EditorSession` | the tabs of the browser and the files and session on the server | `EditorSessionProofs` |
| `UseJob` | a page that follows a job | `UseJobProofs` |
| `MC...` | the instances for TLC | |

How they fit together: `JobQueue` treats what happens between the start and the
end of a container as one step; `Runner` is that step. `ArtifactStore` keeps of
the queue only what decides about files, and leaves out the races `JobQueue`
has. `SavedStructures` is what a worker does after the runs of one source, and
`BiasSweep` what happens inside the container of a device simulation. The
server of `UseJob` is the atomic life of `JobLifecycle`: it may rely on
`EveryJobSettles`. `EditorSession` ends where a run is handed to the server.

Beside a definition there may be a second one with a longer name
(`HasRoomTooLax` beside `HasRoom`). It is a plausible slip in that piece of
code; substituting it must make a property of the module fail, which shows that
the property depends on the code it is about. `PROJECT.json` lists the pairs
under `mutants`. `Spec` never uses them.

### JobQueue

*State.* `status` is `Job.status` ("none" before the INSERT, "gone" after the
DELETE). `stale` says that `started_at` is older than the cutoff of
`requeue_stale`. `box` is the container named after the job's directory:
attached to a `podman run` client, or an orphan under conmon. `proc`, `pc`,
`held`, `verdict` are the worker processes and their loops; a process is "dying"
while it waits for the threads of loops that an exception has ended. `call`,
`target`, `before`, `reply` are the cancel requests, `project` a project
deletion. `deaths` counts the ends of a process that are no `Leave`.

*Actions.* Each SELECT and each UPDATE is atomic at READ COMMITTED, so each is a
step. `claim_next` is `Gate` (the count), `Select` (the candidate), `Claim` (the
conditional UPDATE) and `Fetch` (`session.get`, which returns None for a deleted
row). `_execute` is `Launch` and `Collect`, with `BoxEnds` for a container that
ends for any reason; a row that is gone by `Launch` raises, is caught, and the
loop goes on. `Mark` is a `_record` that succeeds, or the exception path of
`run_once`; both end in `mark_finished`. `RecordFails` is a `_record` that
raises: it stands outside the `try` (`worker.py:104`), so the exception leaves
`gather`, the other loops of the process are cancelled wherever they are, and
the process ends when the threads they waited for have ended (`ThreadEnds`); no
row changes. Whether `_record` raises is left open here: `Dies` of
`ArtifactStore` and `Refused` of `SavedStructures` say when it does. `Boot` is
`requeue_stale` and the start of the loops; `Stop` and `Leave` a SIGTERM; `Kill`
anything sudden, after which containers may live on, the end of
`TimeoutStopSec=650` (`deploy/systemd/tcad-worker.service:31`) among it.
`CancelRead`, `CancelUpdate` and `CancelKill` are the cancel route.
`DeleteCheck` and `DeleteCommit` are the two statements of `delete_project`.

*Abstractions.* The verdict is any of the three a worker records. Time is the
single event "the cutoff has passed" (`CutoffPasses`), which the model forbids
while a SUPREM job is held (600 s limit against 1800 s) and allows for a `Slow`
one, a device simulation (6000 s).

*Abstract specification.* `JobLifecycle` has no workers, statements or
containers: a job is submitted, started, settled, requeued, cancelled or
deleted, each in one step, and a cancel is answered "ok" exactly by the step
that ended the job. The refinement mapping is the identity on `status` and
`reply`. It holds with crashes, with a slow job that is recovered while it runs,
and with a submission that slips between the two statements of a project
deletion (which `JobLifecycle!Delete` therefore takes along).

### Runner

*State.* Where `run_simulation` is and which of the three attempts it makes; the
container of that name, how the last attempt ended, the step its simulator is
at; the files, the script in `job.in`, the joined log, the watchdog thread of
each attempt, whether the job was cancelled, how often it was taken back from a
dead worker. A source is N steps, each ending in a `structure out=`; a structure
is the set of steps that made it, so that a skipped step shows. A name may be
used by several saves, and by the dump. `strayed` remembers that an attempt was
resumed behind a save that had not written the file it resumed from.

*Actions.* The thread: `Launch`, `Return`, `Leave` (the watchdog's `__exit__`),
`Judge`, `Repair` (podman_health), `Triage` (resume or finish), `Finish`
(truncation, extraction of errors, verdict). The container: `SimStep`,
`SimPrints`, `SimExits`, `SimPanics`, `SimCrashes`, `BoxExpires`. Outside:
`CancelKill`, and `DogLooks`, `DogCounts`, `DogKills` of each watchdog; and
`Requeue`, the death of the worker with the next life of the job, which starts
from the top among the files of the lives before.

*Abstractions.* A file is written whole. `Requeue` waits for what the dead worker
has left running (a second life beside a live container is `JobQueue`'s).
Remeshing on resume may make the directory smaller and otherwise stands for the
same steps.

### ArtifactStore

*State.* Per job the row, what it was submitted as (a device simulation, a
process job, a process job of the project), whether it was ever claimed, whether
artifact rows exist, the directory, what is in it and whether its mtime is past
the grace of the orphan sweep. The worker's position with each job; the two
deleters (a request of the API, the sweeper of the worker) with the jobs they
have decided to empty; what the sweeper does next and which directories it has
read from the table. A path has two spellings: `InRow` is `Job.workdir`, which
the routes resolve before they store it; `OnDisk` is what `iterdir` of
`jobs_root` yields, which begins as `jobs_root` is written. They are equal when
`jobs_root` is written as `resolve()` writes it (`RootResolved`). `mistaken`
remembers the jobs whose directory an orphan pass removed although it had read
their row.

*Actions.* `Place` and `Submit` are the two halves of `POST /devsim/jobs`.
`Claim`, `Begin`, `Finish`, `Stat`, `Insert`, `Mark` are `run_once`; `Dies` is
the exception that leaves `_record` and ends the process. `Logout`, `SweepIdle`,
`SweepQuota`, `SweepOrphans` and `Delete` choose; `Unlist`, `Empty` and
`RemoveOrphan` carry out, one transaction or one `rmtree` at a time.
`KillWorker` and `KillApi` cut in anywhere.

*Abstractions.* One worker process, and no two loops with one job: those races
are `JobQueue`'s. All jobs belong to one user. The quota sweep may choose any
settled jobs but the newest. `Boot` may requeue any subset of the RUNNING rows,
since time is not modelled. The idle sweep may come at any time.

### SavedStructures

*State.* For the jobs that are runs of one source file: where each loop is with
its recording, the folder with its files (each the structure of one run), what a
thread has still to unlink or copy, the rows, what a transaction's DELETE has
seen. Readers with the row they want and the file they got. The observers
`alone`, `calm`, `torn`, `overlap` remember whether recordings met.

*Actions.* `Clear`, `Unlink`, `Rmdir` are `rmtree`; `Screen`, `Copy`, `Measure`,
`Return` the rest of `place_files`; `Delete`, `Commit` the transaction, in which
the second of two inserting the same name is refused (`Refused`) and takes the
process down, cutting off the others (`CutOff`). `Check` and `Place` are the two
reads of `submit`. `KillWorker`, `Boot`, `Cancel`, `Cleaned` are the environment.

*Abstractions.* A recording that was cut short does not happen again: the job is
requeued with its rows of `artifacts`, and its second attempt runs into them
before it comes this far (`Unfinished`; the death that follows is a
`KillWorker` here and `Dies` in `ArtifactStore`).

### BiasSweep

*State.* The voltages as the bookkeeping, the device and the solutions have
them: `applied`, `device`, `nodes`, `circuit`. What a solution is, is the bias
point it was solved at, or `Garbage`. `moves`, `step`, `shrinks` of the ramp,
`baseline` and `curve_start` that later curves start from, the stream.

*Actions.* `StepHolds`, `StepFails` and `LastStepFails` are `_try` and `reached`;
`Begin`, `NextMove`, `FirstCurve`, `CurveFails`, `FallBack`, `GiveUpCurve`,
`CurveStarts`, `Aim`, `Record`, `Stuck`, `NextCurve` are `run()`; `Kill` ends
it anywhere, and no ramp goes on after that (`Ramps`). Any solve may fail, and
may lose the node values when it does. `Outwards` is what `sorted` makes of the
values on one side of the middle: `Rank` numbers them by their distance.
Currents, Newton counts and the building of the equations are left out.

### Sessions

*State.* Per session `owner`, `kept` (the key exists), `age` (of
`last_seen_at`), `left` (of the TTL). Per request where it is, who sent it, the
cookie, the age of the `now` it took, and the result of its SCAN so far. `quiet`
observes users: ticks since the last authenticated request. The page's own poll
of `/auth/occupancy` is such a request too, so an open page keeps its user in.
`counted` and `behind` observe logins: the people one counted when it was let
in, and the sessions that other requests have written since it looked (a login
looks when its count begins, and for the sessions of its own user again when it
revokes them). No guard reads the three.

*Actions.* `Login`, `Scan`, `Read`, `Admit`, `Revoke`, `Open` are
`open_session`: the two calls of `active_sessions` are a SCAN and one GET per
key. `Request`, `Get`, `Expire`, `Refresh` are `current_session` with `touch`;
`Close` is the end of a logout. `Tick` lets time pass and Redis drop keys.

*Abstractions.* The password check and its throttle come before and may refuse;
nothing here depends on them. Ids are never reused. An administrator's
`last_seen_at` is not tracked, because no decision of this component looks at
it. SCAN returns the keys of one moment.

### RateLimiter and Accounts

`RateLimiter` is the whole class as operators on the dictionary it keeps, with
the pruning reader that leaves an empty deque behind and the garbage collection
on every record. `Accounts` composes two of them (`_register_flood`,
`_register_failures`) with the route: `Arrive` (throttle), `Redeem` (the
conditional UPDATE with its commit), `Explain` (the second SELECT and the record
of the failure), `Lookup` and `Insert` (`register_user`), `Seed` (the example
structure). `Issue` and `Revoke` are the administrator's, `RunTool` is
`create_user.py`, a process of its own. `CrashApi` cuts every request off and
empties the limiters. The moment `now` of the UPDATE is any moment since the
request arrived. Passwords are left out, and so is the wording of a refusal, in
which the seconds of `retry_after` are made a whole number and one more.

### EditorSession

*State.* On the server the files and the row of `editor_states`. On the page the
session of tabs (`order`, `active`, `buffers` with text and saved text), the
read it waits for, the debounce timer. On the wires saves, runs, PUTs of the
session and one rename or deletion. A text is the number of the keystroke that
made it. `work`, `muddled`, `lossy` observe what the user typed, which paths he
touched without waiting for an answer, and whether the last change may not have
reached the server.

*Actions.* The pure functions of `editorSession.ts` and
`editorSession.persist.ts` are operators of the same names. `Load`, `Restored`,
`RestoreFailed`, `ReadAnswered`, `ReadArrives`, `Fire`, `Put`, `PutLost`,
`Leave` are `useEditorSession.ts` and its routes; `Edit`, `OpenFile`,
`SwitchTo`, `Close`, `ClickSave`, `ClickRun` the page; `ClickCreate`,
`ClickMove` the file browser; `Write`, `SaveAnswered`, `Run`, `Move`,
`MoveAnswered` the requests.

*Abstractions.* Cursors are left out, and which job the panel shows is
`UseJob`'s. A PUT of an unchanged session is left out. A PUT refused for more
than 20 tabs is a lost PUT. Renaming or deleting a folder (which leaves the tabs
of the files inside under their old paths) is not modelled.

### UseJob

*State.* The status of each job on the server; on the page `jobId`, the number
of the current run of the effect, the timer, the detail shown, the console; on
the wires polls, console requests and cancels. `astray` remembers that the
answer of a cancel met another job, `dumb` that the console of the current job
could not be read.

*Actions.* `Select`, `Blank`, `GetRead`, `GetArrives`, `GetFails`, `Tick`,
`ConsoleArrives`, `ConsoleFails` are the effect of `useJob.ts`; `Stop` and
`CancelArrives` the stop button with `applyStatus`; `Submit`, `Start`, `End`,
`Requeue`, `Cancel` the server. Succeeded, failed and timed out are one status.

*Abstractions.* `Select` is the render with the new `jobId` and the effect that
clears the console (`setConsole(null)`). Between the two React may paint one
frame with the old console under the new job; that frame is not modelled.

## 3. Runs

Every run but `store_default_root` passes with `tlc -workers 2` in under five
minutes. `store_default_root` ends with a counterexample of nine states: the code
does not do what its doc string says (see below).

| Run | Instance | Distinct states | Shows |
|---|---|---|---|
| `queue_safety` | two processes with one loop each, cap 1, two jobs (job 1 slow, job 2 of a project), two cancels, one death | 3.5 M | `OvershootBound`, `LossPerDeath`, `NoDuplicateRun`, `CancelAnswer`, `RefinesLifecycle` |
| `queue_one_process` | the unit as deployed: one process, two loops, cap 2, three jobs (one slow, one of a project), one stop, two deaths, restarts | 1.2 M | `CapHolds`, `EveryJobSettles` |
| `runner` | five saves under the names `a`, `panicStr`, `b`, `a`, `c`: one name twice, one that of the dump; one death of the worker | 2.8 M | `NothingSkipped`, `NoStepRepeated`, `SuccessIsClean`, `KillIsExplained`, `RunEnds` |
| `store_safety` | a device simulation and a process job of a project, `jobs_root` absolute, two kills of worker or API | 1.4 M | `ArtifactsAreThere`, `FirstRunHasInput`, `RunKeepsDirectory` |
| `store_orphans` | one job of either kind, two kills | 9 k | `OrphansGo` |
| `store_default_root` | the two jobs of `store_safety`, `jobs_root` relative as by default, no kills | (violated) | not `OnlyOrphansGo` |
| `saved` | three runs of one source (two structures, one, none), the second may be cancelled, two deaths of the worker, one reader | 354 k | `DeathNeedsOverlap`, `RowsMatchFiles`, `ReaderIsServed`, `RecordingsEnd` |
| `bias_sweep` | five plans, steps of 8 units halved at most three times | 145 k | `SweepTypes`, `RowsAreSolved`, `EveryPointOnce`, `SweepEnds` |
| `sessions_overlap` | two users, one administrator, two requests at a time, three ids, one seat | 382 k | `SeatIsFreed`, `DeadStaysDead`, `NobodyTooMany`, `SoleAfterLogin` |
| `accounts` | two requests and the tool, two addresses, one invitation with two uses, one crash of the API | 1.9 M | `UsesAddUp`, `ReasonIsTrue`, `AnswersMatchAccounts`, `GuessesAreBounded`, `WaitIsExact` |
| `editor` | two paths, three acts (at most two edits; saves, runs, creations, renames, deletions), one visit of the page, one PUT on the wire | 2.0 M | `TypeOK`, `WorkIsKept`, `CleanMeansSaved`, `RunIsNotStale` |
| `usejob` | two jobs, two stops, two failed polls, one closed panel | 691 k | `ConsoleIsOfTheJob`, `OnePollAtATime`, `ScreenConverges` |

### What the properties say

- *Queue.* `CapHolds`: never more RUNNING rows than the cap, in one unit until it
  dies for the first time. `OvershootBound`: always, at most one more per racing
  loop. `NoDuplicateRun`: no job below the cutoff is in two hands.
  `LossPerDeath`: only the death of a process, by a signal or by an exception in
  `_record`, leaves rows RUNNING that nobody will end, and at most one per loop;
  races, cancels, deletions and orderly stops leave none. `CancelAnswer`:
  "stopped" is said of jobs that stay stopped, once each, "conflict" of jobs that
  had ended. `RefinesLifecycle`: all of it looks like atomic steps from outside.
  `EveryJobSettles`: every submitted job ends or is deleted, but for rows that a
  death has left and no restart has recovered, and for the jobs that wait while
  such rows take up the whole cap.
- *Runner.* A success holds each file as one of the saves of its name writes it,
  with every step before that save in it, unless an attempt was resumed behind a
  save that had not happened, which takes a name that is used twice
  (`NothingSkipped`). It holds no error line but in what was cut out of a long
  log (`SuccessIsClean`). No attempt repeats a step already saved
  (`NoStepRepeated`); whenever a watchdog shot the container, the reader is told
  that the output was over its limit, but for one case, a resumed container shot
  by the watchdog of the first attempt (`KillIsExplained`); the run ends and its
  container is gone (`RunEnds`).
- *Files.* What is listed is there (`ArtifactsAreThere`), what a first run needs
  is there (`FirstRunHasInput`), a running job keeps its directory
  (`RunKeepsDirectory`), and a directory without a row goes (`OrphansGo`); that
  only such a directory goes, `OnlyOrphansGo`, depends on how `jobs_root` is
  written. The first three leave out a directory that an orphan pass has taken
  for one without a row although it had read the row (`mistaken`), which an
  absolute `jobs_root` rules out. `ArtifactsAreThere` leaves out cancelled jobs
  too: one counts as finished while its run goes on, so a logout may empty it in
  the middle, and the run then records files that have gone.
- *Saved structures.* Rows and files are of one run after an undisturbed
  recording (`RowsMatchFiles`); a reader that met none gets what its row names
  (`ReaderIsServed`); only an overlap makes the unique constraint end the process
  (`DeathNeedsOverlap`); every recording ends (`RecordingsEnd`).
- *Sweep.* A row of the stream is the solution of its bias point
  (`RowsAreSolved`), each point is reported once, in its curve
  (`EveryPointOnce`), and the sweep ends whatever fails (`SweepEnds`).
- *Sessions.* The seat of a silent user is free after the timeout
  (`SeatIsFreed`); what is gone comes back only through a request that had read
  it (`DeadStaysDead`). When a login is answered, every other session of its user
  was written by another request since the login looked (`SoleAfterLogin`), and
  the people who are in, but for those with such a session, are no more than the
  limit, or than the login had counted if its user was already in
  (`NobodyTooMany`). Where requests do not overlap nothing is
  written behind a login's back, and the two limits are kept.
- *Accounts.* `UsesAddUp` balances each invitation; `ReasonIsTrue` and
  `AnswersMatchAccounts` are about what the client is told; `GuessesAreBounded`
  and `WaitIsExact` about the throttle under overlapping requests.
- *Editor.* `WorkIsKept`, `CleanMeansSaved`, `RunIsNotStale`: typed text is on
  the screen, in the file or among the drafts; a tab without a mark is what the
  file holds; no run asked for on the open page gets an older text than the
  screen showed. Of a run still on its way after a reload that is not so: an
  older draft, restored because a later PUT was lost, may be saved over the text
  before the server reads the file. `TypeOK` contains the invariant of the tabs
  (order, buffers and active tab agree).
- *Panel.* `ConsoleIsOfTheJob`: no output under another job's name.
  `OnePollAtATime`: effects leave no second chain of polls. `ScreenConverges`:
  the real end of the job is shown at last.

### Bounds, and why they are enough

- *Queue.* Two loops in two processes are the smallest system in which claims
  race and in which one process recovers what another still runs. Two jobs and a
  cap of 1 make the cap bite; two cancels race for one job. A third job is in
  `queue_one_process`, where the cap is 2: two deaths may take both slots, and
  one job waits. One death leaves a stale row and an orphan container; a second
  adds another of the same. The theorems are for all numbers.
- *Runner.* Five saves leave room for a resume after the first, in the middle
  and before the last, with one under the name of the dump, and with two saves of
  one name that have another between them. One requeue puts files of an earlier
  life, a dump among them, under a run. The three attempts are the code's own
  bound.
- *Store.* Two jobs let the quota sweep keep the newest and take the other. Two
  kills hit both processes or one twice.
- *Saved structures.* With three runs, the third meets what two that overlapped
  have left. The three yields add, drop and empty the names of the folder.
- *Sweep.* The plans are a straight and a mixed walk, two and three curves,
  a floating node, a target that is no multiple of the step. `MAX_BISECTIONS` is
  the code's.
- *Sessions.* `IdleTimeout` 1 is one tick; `MaxLag` 1 lets a request judge with
  a `now` as old as the timeout. Two requests are a reader and a writer of
  one session, or two logins; for one seat, two users are one too many, and three
  ids let one user hold two sessions beside another's. More logins at a time are
  for the theorems, which hold of any number of requests.
- *Accounts.* Two requests race for the last use, for one address and for the
  flood limit of 2. The invitation expires at 1 and time runs to 2, so that
  every window closes once.
- *Editor.* Two edits put one behind a save that is on its way; three acts are
  edit, run and edit, or edit, save and rename. Opening, switching and closing
  tabs is unbounded. With one PUT on the wire two PUTs cannot
  pass each other; the race of PUTs of the session is left out. The CONSTRAINT
  `Waits` stops following a behaviour in two places. One is where the user first
  acts on a path while a request about it is under way, or takes a name for new
  that is not (`muddled`): nothing is claimed of that path from then on. The other is
  where a PUT of the session was lost and the page goes on: in the one visit no
  step depends on what the server has stored, so the same steps are followed
  where the PUT arrived. The session that the one visit restores is any that an
  earlier one may have left.
- *UseJob.* Two jobs are what a late answer of the first can be put under.

### Where a system may stop

`CHECK_DEADLOCK FALSE` stands where work is finite: the recordings, runs, sweeps
and registrations end, the user of the editor and of the panel has no more
clicks. It stands at the queue because a loop that finds the cap taken only
polls, which is no step, and rows that deaths have left RUNNING may take the
whole cap for as long as nobody restarts the process. The sessions and the store
are checked for deadlock.

### Fairness

- `JobQueue`: weak fairness of each loop's next step (`run_forever` polls and
  has no other wait; the thread of a loop that has ended ends too), of the end of
  a container (every run has a time limit), of the passing of the cutoff and of
  `Boot` (`Restart=on-failure`). None of a death (`Kill`, `RecordFails`), a stop, a
  cancel or a submission: what `RecordFails` takes away from a loop's progress
  is bounded by `MaxDeaths`.
- `ArtifactStore`: weak fairness of a loop's steps and `Boot`. Strong fairness
  of the sweeper's steps and of the ageing of a directory: the sweeper is a loop
  of its own that comes back every interval, and a kill, of which there are
  finitely many, or a write may disable a step in between.
- `Runner`: weak fairness of the thread, and of `BoxExpires`, because podman
  limits each container (`--timeout`). None of the simulator, which may hang, nor
  of the watchdogs.
- `SavedStructures`: each recording goes on; the worker is restarted.
- `UseJob`: the server starts and ends jobs (by `EveryJobSettles`), requests are
  answered or fail, timers fire. `Select`, `Stop`, `Blank` are the user's.
- `BiasSweep`: each solve holds or fails (its Newton count is bounded).

### What the code says and does not do

The properties are stated so that they hold of the code. Where a comment or
a doc string promises more, the model contains the behaviour that breaks the
promise, and the property says under which condition it is kept.

- `app/jobs/queue.py:149`: `cancel` returns the job as it read it before the
  UPDATE. A job claimed in between is cancelled as QUEUED, and nothing kills its
  container, which runs on to its end (doc string at `:140`).
- `app/jobs/main.py:9` says that however many loops and worker processes run, the
  number of running jobs never exceeds the setting. `claim_next` counts and
  claims in separate statements, so loops that have counted together claim
  together: with two processes the cap is exceeded. `OvershootBound` gives what
  holds always, `CapHolds` what holds of the deployed unit until its first death.
- `app/jobs/main.py:91` says that rows left RUNNING are cleared at start so that
  no slot is lost. `requeue_stale` takes rows older than the cutoff only, once
  per boot; after a restart within the cutoff the slot stays lost until the
  next boot. `LossPerDeath` bounds how many slots that takes, and
  `EveryJobSettles` excepts the jobs it strands.
- `app/jobs/sweeper.py:132` says that directories no job points to are removed.
  The sweeper compares the names `jobs_root.iterdir()` yields (`:149`) with
  `Job.workdir`. The rows hold the resolved path (`app/api/routes_files.py:244`,
  `routes_jobs.py:184`, `routes_devsim.py:336`); the sweeper is given
  `settings.jobs_root` as it is (`app/jobs/main.py:118`), by default the relative
  `var/jobs` (`app/core/config.py:30`), which `README.md:80` of the repository
  lists among the settings that need not be touched. With it no directory is
  known, and each that is older than an hour goes, with the structure of a waiting
  device simulation, the results of a listed job or the files of a running one.
  `store_default_root` shows it; `deploy/bootstrap.sh:104` writes an absolute
  path, with which `SweepKnowsItsOwn` and `NothingIsLost` exclude it.
- `app/runner/recover.py:44` says that a resume starts after the last successful
  save. `find_checkpoint` (`:48-54`) looks for the file, not for the save: where a
  source saves `a`, `b`, `a` and dies before the second save, the file of the
  first counts as the last one's, the run goes on behind steps that were never
  made, and may succeed. `NothingSkipped` excepts a run that was resumed so
  (`strayed`), and `OnlySharedNamesStray` says that it takes such a name.
- `app/auth/policy.py:4` limits the concurrent logins. The count and the insert
  are separate commands: two logins that overlap take the same last seat, or
  leave one user two sessions. Overlaps add up (to three sessions of one person
  with two requests at a time), and a session that a stalled `touch` revives takes
  a seat beside those counted. `NobodyTooMany` and `SoleAfterLogin` say who is extra:
  only those with a session another request wrote behind the login's back.
- `app/auth/policy.py:137`: `touch` writes back the session it has read; a
  logout in between (`routes_auth.py:202`) is undone, and the session lives
  until it is silent for the timeout. `DeadStaysDead` names the pending reader
  as the only way.
- `app/jobs/worker.py:4` says that a failing job does not stop the loop.
  `_record` is outside the `try` (`:104`): an exception in it ends the process
  (`RecordFails` in `JobQueue`, `Dies` in `ArtifactStore`, `Refused` in
  `SavedStructures`), and the jobs of its loops stay RUNNING. The second attempt
  of a requeued job meets its own artifact rows there.
- `fe/features/jobs/useJob.ts:73`: the answer of a cancel is applied to whatever
  job is shown when it arrives; when that job's polling has already ended, no
  poll corrects it. `ScreenConverges` excludes behaviours in which that happened
  (`astray`).
- `fe/features/workspace/useEditorSession.ts:39`: nothing is sent before the
  session is restored. When the restoring fails the empty session counts as
  restored and is sent.
- `fe/features/workspace/WorkspacePage.tsx:131` saves before it runs, so that no
  older text is run. `save` reports a failure itself and returns normally, so a
  failed save is followed by a run of the older text.
- `editorSession.ts:132` (`markSaved`) puts the text that was sent into the
  buffer when the answer of a save comes; what was typed in between is gone.
  Creating a file under the path of an existing one empties that. `WorkIsKept`
  leaves such a path out (`muddled`).
- `docker/devsim/run.py:643` says that `reached` stands at a solution. In two
  cases it stands where nothing was solved, and a failed solve is recorded as a
  row. One is a floating node after a curve that was given up. The other needs no
  floating node: a list of voltages that turns back, such as 0, 1, 2, 1, 0, which
  `app/devsim/spec.py:165` accepts. Stuck at 1 on the way to 2, the solver
  already has the voltage of the next point and takes it for reached.
  `RowsAreSolved` spells both exceptions out (`GivenUp`, `Straight`).
- `app/jobs/cache.py:93` drops from the point where the limit is exceeded, newest
  first; the loop keeps a small older job after it has dropped a large newer one.
- `app/api/rate_limit.py:69`: `retry_after` looks at the oldest record. When
  failures that overlapped have left more records than the limit, that time is
  too short: `WaitIsExact` is claimed of a deque of at most `limit` entries.
- `/auth/occupancy`, polled by an open page, counts as activity: an open page is
  never logged out.
- `app/jobs/sweeper.py:53` visits only owners with artifact rows: the directory
  of a failed job that left none stays as long as its job row.

## 4. Proofs

Eight modules hold theorems, each about the `Spec` of its component
(`ContainerProofs` about two, `Spec` of `Runner` and `SweepSpec` of `BiasSweep`)
and for every value of the constants that satisfies the component's one
`ASSUME`. The type invariant of each is proved. An `ASSUME` says no more than
that sets are finite or disjoint, that a dummy is not a member, and that limits
are positive (those of `Accounts` are constants in `app/api/throttle.py`); that
of `BiasSweep` describes a plan: a sweep with at least one value, at least one
combination of step voltages, all of them for the same distinct names, and units
in which three bisections and the middle of a floating sweep are whole numbers.
`PROJECT.json` lists the theorems; the argument of each module is this.

**`JobQueueProofs`.** `IInv` adds to the types that a process and its loops are
down together, and that a dying one has only loops that wait for their threads
(`DownTogether`), that a job a loop holds is not waiting in the
queue and not past the cutoff, if its limit lies below the cutoff
(`HeldIsTaken`), and that a request is answered in the step that decides it
(`AnswerOnce`). `NoDuplicateRun` alone is not inductive: the conditional UPDATE
of `Claim` meets a QUEUED row, and only `HeldIsTaken` says that no other loop
still holds that job. `OvershootBound` counts: a step that adds a RUNNING row
takes a loop out of `Racers`, and a loop enters `Racers` only when the count was
below the cap. `LossPerDeath` counts `Stranded`: a step that is no death adds
nothing to it (`NoneStranded`), because a loop lets go of a job only when its row
is not RUNNING or is settled in that step; a death adds at most the loops of its
process (`DeathStrands`). `OneUnitKeepsTheCap` puts it beside the count: until a
death nothing is stranded, so there are no more RUNNING rows than loops to hold
them. `QueueImplementsLifecycle` maps every
step to one of `JobLifecycle` or a stutter.

**`ContainerProofs`, the runner.** Nothing is assumed of the names: saves may
share one with each other and with the dump. Nothing is claimed of the file of
the dump, and everything of the others (`Kept`). The invariant says that such a
file is a whole prefix of the source that ends at a save of its name, and that
none is without the files saved before it (`DiskRight`); that an attempt continues
such a prefix (`StartRight`); that the simulator's memory holds every step up to
where it is (`BoxRight`); that an attempt in which podman failed has run nothing
(`NothingRan`); and that a zero exit code comes after the last step (`ZeroIsAll`).
What a file contains is claimed until an attempt strays; that the steps this run
has saved lie before the one the simulator is at is claimed always, since
`find_checkpoint` errs only forwards: hence `RunRepeatsNothing` without an
exception. `OnlySharedNamesStray` is `StrayedByName`: where no two saves share a
name, a file that is there was written by its save. For `SuccessIsClean` and
`KillIsExplained`, `Blame` follows the error lines into the joined log, and every
watchdog to the output that set it off.

**`ContainerProofs`, the bias sweep.** A row says nothing of the solve behind it,
and a target the solver already stands on is reached without one; so the
question is whether the sweep can arrive at a point it has not solved for.
`SweepInv` answers it in three parts. The device holds the voltages that were
applied, and node values that are put back were saved with theirs (`Typed`).
While a ramp is on its way, either the solver is at a solution or some bias is
still to be moved, which takes a solve (`Solved \/ Pending` in `Ramping`). That a
new target leaves something to be moved, or a solution to stand on, comes from
the walk: it never stands on or beyond a value of its leg that is still to come
(`Behind`), and it starts a curve from the voltages of another one, whose step
voltages differ (`AtStart`, `OnRoute`). A point that is given up half-way is
what makes both necessary, and a sweep whose values turn back or repeat is where
they fail (`Straight`). `CountInv` counts the lines of the stream: those of the curves
before, and of this one those the walk has passed. The lemmas in front say that
ordering a set of positions by a number and then by place numbers them without
a gap (`Sorting`), and so that the walk of a floating sweep is a permutation of
its values in two legs that lead away from the middle (`WalkVisits`). They need
no induction: the rank of a position is the size of the set of those not after
it. The proof found that a first form of the model let a ramp go on after the
run had been killed or had failed; `Ramps` has excluded it since.

**`ArtifactStoreProofs`.** `StoreInv` is a conjunction over single jobs, so that
an action on one job is one case: what deleters have doomed is settled for good
(`DoomIsFinal`); a directory with a row that the orphan sweep has not read is
too young for it (`StrangersAreYoung`); a job is handled under the row it was
claimed with (`HandledRow`); input waits for its first run (`InputWaits`), what
a run has found is there (`FoundIsThere`), a directory stays while its job runs
(`DirectoryStays`), artifacts stay with their rows (`ArtifactsStay`). They except
the jobs in `mistaken`, and hold for either spelling of `jobs_root`. From
`RootResolved` it follows that the sweep's comparison is one of jobs, so that
`mistaken` stays empty (`SweepKnowsItsOwn`) and the three properties hold without
that exception (`NothingIsLost`).

**`SavedStructuresProofs`.** `Safe`: a recording that has been alone is the only
one, and how far it has come says what folder and rows hold (`Progress`); one
that has not leaves the catalogue torn (`LoneOrTorn`). Without an overlap the
DELETE of a transaction has seen every row there is at its INSERT (`NoOverlap`).
A calm reader has met no recording (`CalmReader`).

**`SessionsProofs`.** `Trail`: no session of a user is younger than his silence,
and no request under way started after his last activity. This gives
`SeatIsFreed`. The theorems about logins hold for any number of requests at a
time. `LoginInv` says that every session a login would take for active, with the
`now` it has taken, is still to be read by it, has been read, or was written
behind its back (`Found`); that the same is true of its user's sessions once it
revokes them (`FoundOwn`); and that whoever sits, once a login is let in, was
counted, is its user, or was missed (`Placed`). A step of another request either
writes a session, and puts it behind the login's back, or makes no session live
longer (`OthersStep`); time only makes the login's judgement stricter
(`TickIsStrict`). When the login is answered, what is active was active in its
own eyes (`OldWereValid`), and the two properties follow.

**`AccountsProofs`.** `ReasonInv` carries from `Redeem` to `Explain` that the
four reasons, once true, stay true. `AnswerInv` ties each answer to the account
it is about. `UseInv` counts, for each invitation, the accounts made, the uses
burnt and the requests between `Redeem` and `Insert`.
The limiters are about the contents of a deque that grows with time. `LimiterInv`
says of each that its times are in order and none is in the future, and of the
flood limiter that it holds no more than `FloodLimit`, because it is asked and
told in one step; `WaitsAreExact` follows, since dropping the first entry of an
ordered deque is the first moment the count falls. `GuessesAreBounded` alone is
not inductive: the failure limiter is asked on arrival and told at the end.
`FewPending` counts the records that are left together with the requests that
have been let in and may still fail; `FewForgotten` compares, for every later
moment, the failures an observer has seen with what the deque still remembers,
where a crash forgets at most one full count.

**`UseJobProofs`.** `PageInv`: an answer on the wire carries the number of the
effect that asked (`WiresAreOwn`), and a poll of the current effect on the wire
excludes its timer (`TimerIsAlone`, `OnePoll`).

**`EditorSessionProofs`.** None of the properties is inductive: that a tab
without a mark shows its file says nothing while a save, a read or a rename is on
its way, and each of them may change tab and file later. `SessionInv` is a type
invariant (`Types`), a statement about each path that is not muddled (`Good`) and
one about the page (`Page`). `Good(p)`: a save of `p` is the only request about
`p`, and its tab still shows the text that was sent (`SaveWaits`); so is a rename
or a deletion, after which the old path has no file and the new one no tab
(`EndWaits`); tab, saved text, file and typed work agree, where the file of a
path whose rename has not been answered is looked up under the new name
(`Content`, `Faithful`); a read that comes late is either what the file holds or
will not be shown; nothing on its way is older than what a run was asked for
(`RunFresh`); and a page that was left has put the work among the drafts or in
the file with no draft to hide it (`Left`). `Sent` links `Left` to the page: when
the timer is off, what is stored or sent last is what the screen shows. Every
step is about one path, or about the two of a rename, and the lemmas `GoodStays`
and `GoodStaysOff` carry all the others. The tabs are a sequence that is
filtered, so `FilterKeeps` proves once which elements a filtered sequence has.
The run has one page load and one PUT on the wire; the theorems hold for any
number of both, so also where PUTs pass each other.

Only model-checked are the liveness properties `EveryJobSettles`, `OrphansGo`,
`RunEnds`, `RecordingsEnd`, `ScreenConverges` and `SweepEnds`: liveness under
fairness is outside what the prover supports. Every safety property that a
passing run checks is proved.

## 5. Not modelled

- *The rest of the HTTP routes* (reading, listing, plotting, the manual, the
  command catalogue): they change no state.
- *Passwords and tokens*: verifying one is a function of its input.
- *The choice of the storage quota*, the path rules and the quota of the
  workspace: pure functions of one caller on strings and sizes.
  `ArtifactStore` lets the sweep choose any settled jobs but the newest.
- *Folders of the workspace and uploads*, and the throttles of login and of
  submitting a job: the classes they use are modelled, their composition is not.
- *Meshes, parser, doping, payload, device equations, plotting*: numerical code
  without interleaving, on floating-point numbers.
- *Drawing, forms and the login page of the client*: no shared state.
- *SUPREM-IV* (`SUPREM4GS/`, by far the largest part of the lines): vendored C, a
  sequential program. `Runner` contains what the application sees of it.
- *Time in the queue* is the passing of the cutoff. How long a lost slot stays
  lost after a quick restart (`app/jobs/main.py:93`) is therefore not the subject
  of a property: `LossPerDeath` and `EveryJobSettles` say how many are lost, and
  the code has no bound for how long.

## 6. What could follow

In this order: the login throttle in front of `Sessions!Login`, as `Accounts` has
it for the registration; renaming a folder under open tabs; the quota's choice by
size against a reference definition; `SavedStructures` and `ArtifactStore`
composed over the rows of `artifacts`, in place of `Unfinished`.
