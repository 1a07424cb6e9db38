-------------------------- MODULE SavedStructures --------------------------
(***************************************************************************)
(* The structures kept for device simulation                               *)
(* (backend/app/jobs/worker.py _save_structures, devsim/catalog.py,        *)
(* devsim/screening.py), and the request that uses one                     *)
(* (api/routes_devsim.py submit).                                          *)
(*                                                                         *)
(* All jobs here are runs of one source file of one user, so they share    *)
(* one folder.  The loops of the worker record their results at the same   *)
(* time: the file work is done in threads, the rows are replaced in a      *)
(* transaction of each loop's own.  rmtree goes file by file; a copy is    *)
(* one step, and so are the screening of a run's files and the mkdir.      *)
(* Bounds: MaxDeaths, Unwanted.  A definition with a longer name before    *)
(* another (RmdirInsisting, Rmdir) is a slip a change could make.          *)
(***************************************************************************)
EXTENDS Integers, FiniteSets

CONSTANTS
    Jobs, NoJob,
    Names,      \* file names
    Yields,     \* Yields[j]: the structures of run j that have electrodes
    Readers,    \* requests to simulate a device
    Unwanted,   \* the jobs their user may cancel
    MaxDeaths   \* of the worker process

ASSUME SavedAssumption ==
    /\ NoJob \notin Jobs
    /\ Yields \in [Jobs -> SUBSET Names]

VARIABLES
    pc,         \* where the loop is with job j
    workdir,    \* workdir[j]: what is left of Yields[j] in the job's directory
    cancelled,  \* the job was cancelled while its run went on
    folder,     \* the folder of the source exists
    disk,       \* disk[n]: the run whose structure the file n holds
    todo,       \* names a thread has still to unlink or to copy
    copied,     \* the name it has copied last and not yet measured; {} if none
    placed,     \* what place_files will return
    rows,       \* saved_structures: [name, job]
    seen,       \* the rows a transaction's DELETE has found
    dying,      \* "no", or why the process goes down
    deaths,
    reader,     \* reader[r]: "idle", "checked", "placed", "gone"
    wants, got, \* the row a request is about; the run whose file it copied
    alone, calm, torn, overlap  \* observers, see below

threadVars == <<folder, disk, todo, copied, placed>>
tableVars  == <<rows, seen>>
readerVars == <<reader, wants, got>>
vars == <<pc, workdir, cancelled, threadVars, tableVars, dying, deaths,
          readerVars, alone, calm, torn, overlap>>

Row == [name : Names, job : Jobs]
InFiles  == {"clear", "screen", "copy"}
Recording == InFiles \cup {"delete", "commit"}
Active == {j \in Jobs : pc[j] \in Recording}
Files  == {n \in Names : disk[n] # NoJob}

TypeOK ==
    /\ pc \in [Jobs -> {"run", "done", "lost", "barred"} \cup Recording]
    /\ workdir \in [Jobs -> SUBSET Names] /\ cancelled \in [Jobs -> BOOLEAN]
    /\ folder \in BOOLEAN /\ disk \in [Names -> Jobs \cup {NoJob}]
    /\ Files # {} => folder
    /\ todo \in [Jobs -> SUBSET Names] /\ placed \in [Jobs -> SUBSET Names]
    /\ copied \in [Jobs -> SUBSET Names]
    /\ rows \subseteq Row /\ \A x, y \in rows : x.name = y.name => x = y
    /\ seen \in [Jobs -> SUBSET Row]
    /\ dying \in {"no", "conflict", "killed"} /\ deaths \in Nat
    /\ reader \in [Readers -> {"idle", "checked", "placed", "gone"}]
    /\ wants \in [Readers -> SUBSET Row] /\ got \in [Readers -> Jobs \cup {NoJob}]
    /\ alone \in [Jobs -> BOOLEAN]
    /\ calm \in [Readers -> BOOLEAN] /\ torn \in BOOLEAN /\ overlap \in BOOLEAN

Init ==
    /\ pc = [j \in Jobs |-> "run"]
    /\ workdir = Yields /\ cancelled = [j \in Jobs |-> FALSE]
    /\ folder = FALSE /\ disk = [n \in Names |-> NoJob]
    /\ todo = [j \in Jobs |-> {}] /\ copied = [j \in Jobs |-> {}]
    /\ placed = [j \in Jobs |-> {}]
    /\ rows = {} /\ seen = [j \in Jobs |-> {}]
    /\ dying = "no" /\ deaths = 0
    /\ reader = [r \in Readers |-> "idle"] /\ wants = [r \in Readers |-> {}]
    /\ got = [r \in Readers |-> NoJob]
    /\ alone = [j \in Jobs |-> FALSE]
    /\ calm = [r \in Readers |-> FALSE] /\ torn = FALSE /\ overlap = FALSE

Goto(j, place) == pc' = [pc EXCEPT ![j] = place]

(* A recording that is cut short leaves the job RUNNING with its rows of   *)
(* artifacts.  They bar a second attempt from coming this far again:       *)
(* _save_artifacts would insert them anew, and end the process             *)
(* (KillWorker; Dies of ArtifactStore).  A run without a structure has     *)
(* none of them.                                                           *)
Unfinished(j) == IF Yields[j] = {} THEN "lost" ELSE "barred"

(* alone[j]: no other recording was under way since j began its own.  torn:*)
(* recordings met, or one was cut short, and none has been alone from its  *)
(* first step to its last since.  overlap: recordings met since the process*)
(* started.  calm[r]: no recording was under way, nor had left the         *)
(* catalogue torn, since request r read its row.                           *)
Start(j) ==
    /\ alone' = [i \in Jobs |-> i = j /\ Active = {}]
    /\ torn' = (torn \/ Active # {})
    /\ overlap' = (overlap \/ Active # {})
    /\ calm' = [r \in Readers |-> FALSE]

(* ------------------------------------------------------------ a run --- *)
(* A run that failed, or whose job is gone, records no structures.         *)
Skip(j) ==
    /\ pc[j] = "run"
    /\ Goto(j, IF dying = "no" THEN "done" ELSE "lost")
    /\ UNCHANGED <<workdir, cancelled, threadVars, tableVars, dying, deaths,
                   readerVars, alone, calm, torn, overlap>>

(* The first step of rmtree lists the folder.                              *)
Listed == IF folder THEN Files ELSE {}

Clear(j) ==
    /\ pc[j] = "run" /\ dying = "no"
    /\ Goto(j, "clear")
    /\ todo' = [todo EXCEPT ![j] = Listed]
    /\ placed' = [placed EXCEPT ![j] = {}]
    /\ copied' = [copied EXCEPT ![j] = {}]
    /\ Start(j)
    /\ UNCHANGED <<workdir, cancelled, folder, disk, tableVars, dying, deaths, readerVars>>

Unlink(j) ==
    /\ pc[j] = "clear"
    /\ \E n \in todo[j] :
          /\ disk' = [disk EXCEPT ![n] = NoJob]
          /\ todo' = [todo EXCEPT ![j] = @ \ {n}]
    /\ UNCHANGED <<pc, workdir, cancelled, folder, copied, placed, tableVars, dying,
                   deaths, readerVars, alone, calm, torn, overlap>>

(* rmdir fails, and is ignored, when somebody has put a file there.        *)
RmdirInsisting(j) ==
    /\ pc[j] = "clear" /\ todo[j] = {} /\ Files = {}
    /\ folder' = FALSE
    /\ Goto(j, "screen")
    /\ UNCHANGED <<workdir, cancelled, disk, todo, copied, placed, tableVars, dying,
                   deaths, readerVars, alone, calm, torn, overlap>>
Rmdir(j) ==
    /\ pc[j] = "clear" /\ todo[j] = {}
    /\ folder' = (folder /\ Files # {})
    /\ Goto(j, "screen")
    /\ UNCHANGED <<workdir, cancelled, disk, todo, copied, placed, tableVars, dying,
                   deaths, readerVars, alone, calm, torn, overlap>>

Screen(j) ==
    /\ pc[j] = "screen"
    /\ todo' = [todo EXCEPT ![j] = workdir[j]]
    /\ \/ workdir[j] = {} /\ Goto(j, "delete") /\ UNCHANGED folder
       \/ workdir[j] # {} /\ Goto(j, "copy") /\ folder' = TRUE
    /\ UNCHANGED <<workdir, cancelled, disk, copied, placed, tableVars, dying, deaths,
                   readerVars, alone, calm, torn, overlap>>

(* copyfile fails when the source was cleaned away or the folder is gone;  *)
(* that name is skipped.                                                   *)
Copy(j) ==
    /\ pc[j] = "copy" /\ copied[j] = {}
    /\ \E n \in todo[j] :
          /\ todo' = [todo EXCEPT ![j] = @ \ {n}]
          /\ \/ /\ folder /\ n \in workdir[j]
                /\ disk' = [disk EXCEPT ![n] = j]
                /\ copied' = [copied EXCEPT ![j] = {n}]
             \/ /\ ~(folder /\ n \in workdir[j])
                /\ UNCHANGED <<disk, copied>>
    /\ UNCHANGED <<pc, workdir, cancelled, folder, placed, tableVars, dying, deaths,
                   readerVars, alone, calm, torn, overlap>>

(* The size is read outside the try of the copy.  A file that is gone by   *)
(* then is an OSError of place_files: the rows stay as they are.           *)
Measure(j) ==
    /\ pc[j] = "copy" /\ copied[j] # {}
    /\ copied' = [copied EXCEPT ![j] = {}]
    /\ \/ /\ copied[j] \subseteq Files
          /\ placed' = [placed EXCEPT ![j] = @ \cup copied[j]]
          /\ UNCHANGED <<pc, torn>>
       \/ /\ ~(copied[j] \subseteq Files)
          /\ Goto(j, IF dying = "no" THEN "done" ELSE Unfinished(j))
          /\ torn' = TRUE
          /\ UNCHANGED placed
    /\ UNCHANGED <<workdir, cancelled, folder, disk, todo, tableVars, dying, deaths,
                   readerVars, alone, calm, overlap>>

Return(j) ==
    /\ pc[j] = "copy" /\ copied[j] = {} /\ todo[j] = {}
    /\ Goto(j, "delete")
    /\ UNCHANGED <<workdir, cancelled, threadVars, tableVars, dying, deaths,
                   readerVars, alone, calm, torn, overlap>>

(* The DELETE finds what is committed when it starts, and the INSERTs      *)
(* collide on (owner, source, filename) with what was committed since.     *)
RowsOfThisJob(j) == {x \in rows : x.job = j}
RowsOfSource(j)  == rows

Delete(j) ==
    /\ pc[j] = "delete" /\ dying = "no"
    /\ seen' = [seen EXCEPT ![j] = RowsOfSource(j)]
    /\ Goto(j, "commit")
    /\ UNCHANGED <<workdir, cancelled, threadVars, rows, dying, deaths,
                   readerVars, alone, calm, torn, overlap>>

Conflict(j) == \E x \in rows \ seen[j] : x.name \in placed[j]

Commit(j) ==
    /\ pc[j] = "commit" /\ dying = "no" /\ ~Conflict(j)
    /\ rows' = (rows \ seen[j]) \cup {[name |-> n, job |-> j] : n \in placed[j]}
    /\ seen' = [seen EXCEPT ![j] = {}]
    /\ Goto(j, "done")
    /\ torn' = (torn /\ ~alone[j])
    /\ UNCHANGED <<workdir, cancelled, threadVars, dying, deaths, readerVars, alone, calm, overlap>>

(* The IntegrityError passes _record, run_once, run_forever and gather.    *)
(* asyncio.run then cancels the other coroutines and waits for the threads.*)
Refused(j) ==
    /\ pc[j] = "commit" /\ dying = "no" /\ Conflict(j)
    /\ dying' = "conflict" /\ deaths' = deaths + 1
    /\ seen' = [seen EXCEPT ![j] = {}]
    /\ Goto(j, Unfinished(j))
    /\ torn' = TRUE
    /\ UNCHANGED <<workdir, cancelled, threadVars, rows, readerVars, alone, calm, overlap>>

CutOff(j) ==
    /\ dying # "no" /\ pc[j] \in {"delete", "commit"}
    /\ seen' = [seen EXCEPT ![j] = {}]
    /\ Goto(j, Unfinished(j))
    /\ torn' = TRUE
    /\ UNCHANGED <<workdir, cancelled, threadVars, rows, dying, deaths, readerVars,
                   alone, calm, overlap>>

Step(j) ==
    \/ Clear(j) \/ Unlink(j) \/ Rmdir(j) \/ Screen(j) \/ Copy(j) \/ Measure(j)
    \/ Return(j) \/ Delete(j) \/ Commit(j) \/ Refused(j) \/ CutOff(j)

(* ------------------------------------------------------ environment --- *)
KillWorker ==
    /\ dying = "no" /\ deaths < MaxDeaths
    /\ dying' = "killed" /\ deaths' = deaths + 1
    /\ pc' = [j \in Jobs |-> IF j \in Active THEN Unfinished(j)
                             ELSE IF pc[j] = "run" THEN "lost" ELSE pc[j]]
    /\ seen' = [j \in Jobs |-> {}]
    /\ torn' = (torn \/ Active # {})
    /\ UNCHANGED <<workdir, cancelled, threadVars, rows, readerVars, alone, calm, overlap>>

(* The next process requeues what was RUNNING, and it runs again.  (Unless *)
(* it was cancelled, or has all it needs to fail: then it is over here.)   *)
Boot ==
    /\ dying # "no" /\ deaths <= MaxDeaths
    /\ \A j \in Jobs : pc[j] \in {"done", "lost", "barred"}
    /\ dying' = "no" /\ overlap' = FALSE
    /\ pc' = [j \in Jobs |-> IF pc[j] = "lost" /\ ~cancelled[j] THEN "run" ELSE "done"]
    /\ workdir' = [j \in Jobs |->
                      IF pc[j] = "lost" /\ ~cancelled[j] THEN Yields[j] ELSE workdir[j]]
    /\ UNCHANGED <<cancelled, threadVars, tableVars, deaths, readerVars,
                   alone, calm, torn>>

(* A job that is cancelled at the end of its run records it all the same;  *)
(* its directory belongs to the cleaners from then on.                     *)
Cancel(j) ==
    /\ j \in Unwanted /\ pc[j] # "done" /\ ~cancelled[j]
    /\ cancelled' = [cancelled EXCEPT ![j] = TRUE]
    /\ UNCHANGED <<pc, workdir, threadVars, tableVars, dying, deaths, readerVars,
                   alone, calm, torn, overlap>>

Cleaned(j) ==
    /\ cancelled[j] /\ workdir[j] # {}
    /\ workdir' = [workdir EXCEPT ![j] = {}]
    /\ UNCHANGED <<pc, cancelled, threadVars, tableVars, dying, deaths, readerVars,
                   alone, calm, torn, overlap>>

(* ----------------------------------------------------------- reader --- *)
(* submit reads the row, checks the electrodes in the file, and then reads *)
(* the file again to copy it.                                              *)
Check(r) ==
    /\ reader[r] = "idle"
    /\ \E x \in rows :
          /\ wants' = [wants EXCEPT ![r] = {x}]
          /\ reader' = [reader EXCEPT ![r] = IF x.name \in Files THEN "checked" ELSE "gone"]
    /\ calm' = [calm EXCEPT ![r] = ~torn /\ Active = {}]
    /\ UNCHANGED <<pc, workdir, cancelled, threadVars, tableVars, dying, deaths, got,
                   alone, torn, overlap>>

Place(r) ==
    /\ reader[r] = "checked"
    /\ \E x \in wants[r] :
          /\ got' = [got EXCEPT ![r] = disk[x.name]]
          /\ reader' = [reader EXCEPT ![r] = IF x.name \in Files THEN "placed" ELSE "gone"]
    /\ UNCHANGED <<pc, workdir, cancelled, threadVars, tableVars, dying, deaths, wants,
                   alone, calm, torn, overlap>>

Next ==
    \/ \E j \in Jobs : Step(j) \/ Skip(j) \/ Cancel(j) \/ Cleaned(j)
    \/ KillWorker \/ Boot
    \/ \E r \in Readers : Check(r) \/ Place(r)

Fairness ==
    /\ \A j \in Jobs : WF_vars(Step(j))
    /\ WF_vars(Boot)

Spec == Init /\ [][Next]_vars
FairSpec == Spec /\ Fairness

(* -------------------------------------------------------- properties --- *)
(* Outside a recording the table lists what the folder holds, file by file *)
(* and run by run, and all of it from one run, unless the last recording   *)
(* met another one or was cut short (place_files empties the folder before *)
(* it screens, _save_structures replaces all rows of the source).  One     *)
(* recording that is alone puts right whatever was left before.            *)
RowsMatchFiles ==
    (Active = {} /\ ~torn)
    => /\ rows = {[name |-> n, job |-> disk[n]] : n \in Files}
       /\ \A x, y \in rows : x.job = y.job

(* Only recordings that overlapped can make the INSERT of one of them fail *)
(* and take the worker process down.                                       *)
DeathNeedsOverlap == dying = "conflict" => overlap

(* A request that no recording interfered with finds its file and hands    *)
(* the simulation the very structure its row names, although it reads the  *)
(* file twice.                                                             *)
ReaderIsServed ==
    \A r \in Readers :
       calm[r] => /\ reader[r] # "gone"
                  /\ reader[r] = "placed" => \E x \in wants[r] : got[r] = x.job

(* Every recording ends: what two threads and two transactions do to one   *)
(* another never leaves one of them behind.                                *)
RecordingsEnd == \A j \in Jobs : (pc[j] \in Recording) ~> (pc[j] \notin Recording)
============================================================================
