------------------------------- MODULE Runner -------------------------------
(***************************************************************************)
(* One simulation from source to result (backend/app/runner/runner.py,     *)
(* recover.py, results.py, podman_health.py, watchdog.py, control.py).     *)
(*                                                                         *)
(* Five parties act on one working directory and one container name: the   *)
(* thread in run_simulation, the container, conmon (which ends it at       *)
(* --timeout), the output watchdog of each attempt, and whoever cancels    *)
(* the job.  The thread makes at most three attempts: the first one, one   *)
(* retry after podman itself failed to start, and one that resumes a       *)
(* panicked simulation from its last saved structure.                      *)
(*                                                                         *)
(* A source is N process steps, each ending in a `structure out=` command; *)
(* step 0 is what precedes them.  A structure is abstracted to the set of  *)
(* steps that made it, so that a skipped step shows.  A saved file is      *)
(* written whole.  Bounds: N steps, one cancellation, MaxRequeues further  *)
(* lives of the job after a death of its worker.                           *)
(***************************************************************************)
EXTENDS Integers

CONSTANTS
    N,        \* number of `structure out=` commands in the source
    Names,    \* file names
    Out,      \* Out[p]: the name the p-th of them saves to
    Dump,     \* panic.str, which a dying simulator writes
    MaxRequeues

ASSUME RunnerAssumption ==
    /\ N \in Nat \ {0}
    /\ Out \in [1..N -> Names] /\ Dump \in Names
    /\ MaxRequeues \in Nat

VARIABLES
    phase,      \* where run_simulation is
    kind,       \* which attempt it is in: "first", "retry" or "resume"
    timedOut,   \* the podman client gave up waiting
    tripped,    \* what the attempt's watchdog said when the thread asked it
    errors,     \* what the result reports: kinds of error
    box,        \* the container of that name: "none", "up"
    code,       \* how the last attempt ended
    todo,       \* the step the simulator is at
    made,       \* the steps in the simulator's structure
    start,      \* job.in: the first step it contains, and the structure it loads
    disk,       \* disk[n]: the steps in the structure file n; {} when there is none
    fresh,      \* the steps whose structure this run has saved
    big,        \* the directory is over max_output_mb
    printed,    \* error lines in the joined log: "head" (first 700,000 characters), "later"
    panicked,   \* the joined log contains "suprem4 panic:"
    marked,     \* the joined log contains a message of podman's user namespace
    long,       \* the joined log is over its limit and will be cut in the middle
    dog,        \* dog[k]: the watchdog thread of attempt k
    cancelled,  \* the cancel route has called kill_container
    requeued,   \* how often the job was taken back from a worker that died
    strayed     \* an attempt has resumed behind a save that had not written the
                \* file it was resumed from (history)

threadVars == <<phase, kind, timedOut, tripped, errors>>
boxVars    == <<box, code, todo, made>>
diskVars   == <<start, disk, fresh, big>>
logVars    == <<printed, panicked, marked, long>>
lifeVars   == <<cancelled, requeued, strayed>>
vars       == <<threadVars, boxVars, diskVars, logVars, dog, lifeVars>>

Kinds  == {"first", "retry", "resume"}
Broken == N + 1                            \* stands in a dump for the failed step
Contents == SUBSET (0..Broken)
Through(p) == 0..p                         \* everything up to the p-th save

\* Exit codes: 0; podman's own 125; 134 (abort); 139; SIGKILL from conmon, the
\* watchdog or a cancellation; any other; -1 for a client that timed out.
Codes   == {"zero", "podman", "panic", "crash", "expired", "shot", "stopped", "other", "late"}
Signals == {"panic", "crash", "expired", "shot", "stopped"}

TypeOK ==
    /\ phase \in {"launch", "wait", "leave", "judge", "repair", "triage", "finish", "over"}
    /\ kind \in Kinds
    /\ timedOut \in BOOLEAN /\ tripped \in BOOLEAN
    /\ errors \subseteq {"log", "overflow", "abnormal", "advice"}
    /\ box \in {"none", "up"}
    /\ code \in Codes
    /\ todo \in 1..(N + 1)
    /\ made \in Contents
    /\ start \in [first : 1..N, load : Contents]
    /\ disk \in [Names -> Contents]
    /\ fresh \subseteq 1..N
    /\ big \in BOOLEAN /\ panicked \in BOOLEAN /\ marked \in BOOLEAN /\ long \in BOOLEAN
    /\ printed \subseteq {"head", "later"}
    /\ dog \in [Kinds -> {"off", "watching", "measuring", "killing"}]
    /\ cancelled \in BOOLEAN /\ strayed \in BOOLEAN
    /\ requeued \in 0..MaxRequeues

Init ==
    /\ phase = "launch" /\ kind = "first"
    /\ timedOut = FALSE /\ tripped = FALSE /\ errors = {}
    /\ box = "none" /\ code = "zero" /\ todo = 1 /\ made = {}
    /\ start = [first |-> 1, load |-> {0}]
    /\ disk = [n \in Names |-> {}]
    /\ fresh = {} /\ big = FALSE
    /\ printed = {} /\ panicked = FALSE /\ marked = FALSE /\ long = FALSE
    /\ dog = [k \in Kinds |-> "off"]
    /\ cancelled = FALSE /\ requeued = 0 /\ strayed = FALSE

\* The worker dies; the job is taken back when every container it may have left
\* behind is over, and finds what its earlier lives have saved.
Requeue ==
    /\ ~cancelled /\ requeued < MaxRequeues
    /\ requeued' = requeued + 1
    /\ phase' = "launch" /\ kind' = "first"
    /\ timedOut' = FALSE /\ tripped' = FALSE /\ errors' = {}
    /\ box' = "none" /\ code' = "zero" /\ todo' = 1 /\ made' = {}
    /\ start' = [first |-> 1, load |-> {0}]
    /\ fresh' = {}
    /\ printed' = {} /\ panicked' = FALSE /\ marked' = FALSE /\ long' = FALSE
    /\ dog' = [k \in Kinds |-> "off"]
    /\ UNCHANGED <<disk, big, cancelled, strayed>>

-----------------------------------------------------------------------------
(* The thread: _execute.                                                   *)

\* Enter the watchdog's context and `podman run`: the container starts with the
\* script in job.in, or podman exits 125, because its user namespace is broken
\* (the log says so) or for another reason.
Launch ==
    /\ phase = "launch"
    /\ phase' = "wait"
    /\ dog' = [dog EXCEPT ![kind] = "watching"]
    /\ todo' = start.first /\ made' = start.load
    /\ \/ box' = "up" /\ UNCHANGED <<code, marked>>
       \/ code' = "podman" /\ marked' \in {marked, TRUE} /\ UNCHANGED box
    /\ UNCHANGED <<kind, timedOut, tripped, errors, diskVars, printed, panicked, long, lifeVars>>

\* subprocess.run returns with the container's exit code, or its own time limit
\* (30 s later than the container's) passes while the container lives on.
Return ==
    /\ phase = "wait"
    /\ phase' = "leave"
    /\ \/ box = "none" /\ UNCHANGED <<timedOut, code>>
       \/ box = "up" /\ timedOut' = TRUE /\ code' = "late"
    /\ UNCHANGED <<kind, tripped, errors, box, todo, made, diskVars, logVars, dog, lifeVars>>

\* __exit__ sets the stop event and joins for two seconds: a watchdog that is in
\* the middle of measuring or killing is left running.  Then its flag is read.
TripFlag      == dog[kind] \in {"killing", "off"}
Leave ==
    /\ phase = "leave"
    /\ phase' = "judge"
    /\ tripped' = TripFlag
    /\ dog' = [dog EXCEPT ![kind] = IF @ = "watching" THEN "off" ELSE @]
    /\ UNCHANGED <<kind, timedOut, errors, boxVars, diskVars, logVars, lifeVars>>

-----------------------------------------------------------------------------
(* The thread: run_simulation's decisions.                                 *)

\* looks_like_infra_failure, asked once.
InfraFailure    == code = "podman" /\ marked
RetriedWhenever == InfraFailure
WorthRetrying   == InfraFailure /\ kind = "first"

Judge ==
    /\ phase = "judge"
    /\ phase' = IF WorthRetrying THEN "repair" ELSE "triage"
    /\ UNCHANGED <<kind, timedOut, tripped, errors, boxVars, diskVars, logVars, dog, lifeVars>>

\* repair and ensure_pause_process: something was done, or nothing could be.
Repair ==
    /\ phase = "repair"
    /\ \/ phase' = "launch" /\ kind' = "retry"
       \/ phase' = "triage" /\ UNCHANGED kind
    /\ UNCHANGED <<timedOut, tripped, errors, boxVars, diskVars, logVars, dog, lifeVars>>

\* _worth_resuming.
WorthResuming == ~timedOut /\ ~tripped /\ code # "zero" /\ panicked

\* find_checkpoint: the `structure out=` commands whose file exists.
Resumable(p)     == Out[p] # Dump /\ disk[Out[p]] # {}

\* ... the last of them.
CheckpointFirst(p) == Resumable(p) /\ \A q \in 1..N : Resumable(q) => p <= q
Checkpoint(p)      == Resumable(p) /\ \A q \in 1..N : Resumable(q) => q <= p

\* The script after the line that saved p.
AfterSkipping(p) == [first |-> p + 2, load |-> disk[Out[p]]]
After(p)         == [first |-> p + 1, load |-> disk[Out[p]]]

\* There is one, something is left to do after it, and this is the first resume.
ResumesAt(p) == WorthResuming /\ kind # "resume" /\ Checkpoint(p) /\ p < N

\* _resume or _finish.  The remeshed file may be smaller than the old one.
Triage ==
    /\ phase = "triage"
    /\ \/ \E p \in 1..N :
             /\ ResumesAt(p)
             /\ phase' = "launch" /\ kind' = "resume"
             /\ start' = After(p)
             /\ strayed' = (strayed \/ disk[Out[p]] # Through(p))
             /\ big' \in {big, FALSE}
       \/ /\ ~\E p \in 1..N : ResumesAt(p)
          /\ phase' = "finish"
          /\ UNCHANGED <<kind, start, big, strayed>>
    /\ UNCHANGED <<timedOut, tripped, errors, boxVars, disk, fresh, logVars, dog, cancelled,
                   requeued>>

\* _truncate_log and extract_errors: an error line outside the head survives the
\* cut only if it stands in the tail.
ShownFromLast == {IF kind = "resume" THEN {} ELSE printed}
Shown         == IF long THEN {printed, printed \cap {"head"}} ELSE {printed}

\* final_size, measured once more after the run.
OverflowUnmeasured == tripped
Overflow           == tripped \/ big

\* _finish.  prune_workdir keeps the structures; run.log comes after it.
Finish ==
    /\ phase = "finish"
    /\ phase' = "over"
    /\ \E shown \in Shown :
          errors' = (IF shown # {} THEN {"log"} ELSE {})
                \cup (IF Overflow THEN {"overflow"} ELSE {})
                \cup (IF code \in Signals THEN {"abnormal"} ELSE {})
                \cup (IF InfraFailure THEN {"advice"} ELSE {})
    /\ UNCHANGED <<kind, timedOut, tripped, boxVars, diskVars, logVars, dog, lifeVars>>

-----------------------------------------------------------------------------
(* The container.  The simulator prints, saves, exits, panics or crashes;  *)
(* it goes on after a command error and exits 0 all the same.              *)

SimStep ==
    /\ box = "up" /\ todo <= N
    /\ made' = made \cup {todo}
    /\ disk' = [disk EXCEPT ![Out[todo]] = made']
    /\ fresh' = fresh \cup {todo}
    /\ todo' = todo + 1
    /\ UNCHANGED <<threadVars, box, code, start, big, logVars, dog, lifeVars>>

\* Output is collected while the client waits for it.
SimPrints ==
    /\ box = "up"
    /\ \/ /\ phase = "wait"
          /\ \E place \in {"head", "later"} : printed' = printed \cup {place}
          /\ UNCHANGED <<long, big>>
       \/ phase = "wait" /\ long' = TRUE /\ UNCHANGED <<printed, big>>
       \/ big' = TRUE /\ UNCHANGED <<printed, long>>
    /\ UNCHANGED <<threadVars, boxVars, start, disk, fresh, panicked, marked, dog, lifeVars>>

\* The container is gone (--rm); the client, if it still waits, learns how.
Ends(how) ==
    /\ box = "up"
    /\ box' = "none"
    /\ code' = IF phase = "wait" THEN how ELSE code

SimExits ==
    /\ todo = N + 1
    /\ Ends("zero")
    /\ UNCHANGED <<threadVars, todo, made, diskVars, logVars, dog, lifeVars>>

\* panic prints its line, dumps the broken structure and aborts.
SimPanics ==
    /\ todo <= N
    /\ Ends("panic")
    /\ panicked' = (panicked \/ phase = "wait")
    /\ disk' = [disk EXCEPT ![Dump] = made \cup {Broken}]
    /\ UNCHANGED <<threadVars, todo, made, start, fresh, big, printed, marked, long, dog, lifeVars>>

SimCrashes ==
    /\ Ends("crash") \/ Ends("other")
    /\ UNCHANGED <<threadVars, todo, made, diskVars, logVars, dog, lifeVars>>

\* conmon at --timeout.
BoxExpires ==
    /\ Ends("expired")
    /\ UNCHANGED <<threadVars, todo, made, diskVars, logVars, dog, lifeVars>>

\* The cancel route: `podman kill` of whatever has the name at that moment, if
\* anything has it and podman manages to.
CancelKill ==
    /\ ~cancelled
    /\ cancelled' = TRUE
    /\ Ends("stopped") \/ UNCHANGED <<box, code>>
    /\ UNCHANGED <<threadVars, todo, made, diskVars, logVars, dog, requeued, strayed>>

-----------------------------------------------------------------------------
(* The watchdog thread of attempt k.                                       *)

\* Awake after a second in which nobody stopped it: it starts to measure.
DogLooks(k) ==
    /\ dog[k] = "watching"
    /\ dog' = [dog EXCEPT ![k] = "measuring"]
    /\ UNCHANGED <<threadVars, boxVars, diskVars, logVars, lifeVars>>

\* Within the limit it waits on, or returns if it was stopped meanwhile.
DogCounts(k) ==
    /\ dog[k] = "measuring"
    /\ dog' = [dog EXCEPT ![k] =
                  IF big THEN "killing"
                  ELSE IF k = kind /\ phase \in {"wait", "leave"}
                       THEN "watching" ELSE "off"]
    /\ UNCHANGED <<threadVars, boxVars, diskVars, logVars, lifeVars>>

\* The kill goes to the name, which may be the next attempt's by now, and fails
\* if there is no such container.
DogKills(k) ==
    /\ dog[k] = "killing"
    /\ dog' = [dog EXCEPT ![k] = "off"]
    /\ Ends("shot") \/ UNCHANGED <<box, code>>
    /\ UNCHANGED <<threadVars, todo, made, diskVars, logVars, lifeVars>>

-----------------------------------------------------------------------------
Thread == Launch \/ Return \/ Leave \/ Judge \/ Repair \/ Triage \/ Finish

Next ==
    \/ Thread
    \/ SimStep \/ SimPrints \/ SimExits \/ SimPanics \/ SimCrashes
    \/ BoxExpires \/ CancelKill \/ Requeue
    \/ \E k \in Kinds : DogLooks(k) \/ DogCounts(k) \/ DogKills(k)

Spec == Init /\ [][Next]_vars

(* Fairness.  The thread keeps running: every wait it enters has a limit    *)
(* (the client's, the join's, systemctl's).  conmon ends every container.   *)
FairSpec == Spec /\ WF_vars(Thread) /\ WF_vars(BoxExpires)

-----------------------------------------------------------------------------
Succeeded == phase = "over" /\ code = "zero" /\ ~timedOut /\ errors = {}

\* recover.py: a resumed run starts after the last *successful* save.  So a result
\* that counts as a success holds every file the source saves, as one of the saves
\* of that name writes it after all the steps before it, however the run was
\* pieced together from two attempts and the files of earlier lives; unless it was
\* resumed behind a save that had not happened (find_checkpoint looks for the file
\* and not for the save, and a source may save to one name twice).
NothingSkipped ==
    Succeeded /\ ~strayed => \A p \in 1..N :
        Out[p] # Dump => \E q \in 1..N : Out[q] = Out[p] /\ disk[Out[p]] = Through(q)

\* podman_health.py: a retry never runs user code twice; and a resumed attempt
\* never repeats a step whose structure this run has already saved (unless it
\* was saved under the name of the dump, from which nothing resumes).
NoStepRepeated ==
    box = "up" /\ todo \in fresh => Out[todo] = Dump

\* results.py: the exit code tells nothing, the lines of the log decide.  A run
\* of several attempts is no success if any of them printed an error line,
\* except where the log was cut, which the reader is told.
SuccessIsClean ==
    Succeeded => printed = {} \/ (long /\ "head" \notin printed)

\* watchdog.py: the watchdog may miss the limit, may outlive its attempt and
\* may hit the next one; whatever it shoots, the reader is told that the output
\* was over its limit.  The one exception is a resumed container shot by the
\* first attempt's watchdog after remeshing made the directory small again: the
\* reader is told of a signal.
KillIsExplained ==
    phase = "over" /\ code = "shot" =>
        \/ "overflow" \in errors
        \/ kind = "resume" /\ ~big /\ "abnormal" \in errors

\* What makes these two inductive.  Until an attempt strays, the files are whole
\* prefixes of the source, without gaps, the script in job.in continues one of
\* them, and a simulator at step `todo` has made all before it.
Kept     == {p \in 1..N : Out[p] # Dump}
There(p) == disk[Out[p]] # {}
Distinct == \A p, q \in Kept : Out[p] = Out[q] => p = q

DiskRight ==
    /\ \A p \in fresh \cap Kept : There(p)
    /\ ~strayed =>
          /\ \A p \in Kept : There(p) =>
                \E q \in 1..N : Out[q] = Out[p] /\ disk[Out[p]] = Through(q)
          /\ \A p, q \in Kept : p < q /\ disk[Out[q]] = Through(q) => There(p)

StartRight ==
    /\ phase = "launch" => \A p \in fresh \cap Kept : p < start.first
    /\ ~strayed =>
          /\ start.load = Through(start.first - 1)
          /\ \A p \in Kept : p < start.first => There(p)

BoxRight ==
    /\ box = "up" => \A p \in fresh \cap Kept : p < todo
    /\ box = "up" /\ ~strayed =>
          /\ made = Through(todo - 1)
          /\ \A p \in Kept : p < todo => There(p)
    /\ phase # "wait" /\ box = "up" => timedOut
    /\ timedOut => code = "late" /\ phase \notin {"launch", "wait", "repair"}

\* Only a name that is used twice leads astray.
StrayedByName == strayed => ~Distinct

\* An attempt in which podman failed has run nothing.
NothingRan ==
    /\ phase = "repair" => kind = "first"
    /\ phase \in {"launch", "repair"} /\ kind = "first" => fresh = {}
    /\ phase = "launch" /\ kind = "first" => code # "podman"
    /\ phase # "launch" /\ kind = "first" /\ code = "podman" => fresh = {} /\ box = "none"
    /\ phase = "launch" /\ kind = "retry" => fresh = {}

\* Exit code 0 comes after the last step.
ZeroIsAll ==
    code = "zero" /\ phase # "launch" /\ (phase = "wait" => box = "none") /\ ~strayed
        => \A p \in Kept : There(p)

IInv == TypeOK /\ DiskRight /\ StartRight /\ BoxRight /\ StrayedByName /\ NothingRan /\ ZeroIsAll

\* The run comes to its end, and the container name is free for good.
RunEnds == <>[](phase = "over" /\ box = "none")
=============================================================================
