----------------------- MODULE SavedStructuresProofs -----------------------
(***************************************************************************)
(* The folder of kept structures and its rows, for any number of runs, of  *)
(* requests and of deaths of the worker.                                   *)
(***************************************************************************)
EXTENDS SavedStructures, TLAPS

(* How far a recording has come that meets no other.                       *)
Progress(j) ==
    /\ pc[j] = "clear" => Files \subseteq todo[j]
    /\ pc[j] = "screen" => Files = {}
    /\ pc[j] \in {"clear", "screen"} => placed[j] = {} /\ copied[j] = {}
    /\ pc[j] = "copy" => Files = placed[j] \cup copied[j]
    /\ pc[j] \in {"delete", "commit"} => Files = placed[j]
    /\ pc[j] \in {"copy", "delete", "commit"} => \A n \in Files : disk[n] = j
    /\ pc[j] = "commit" => seen[j] = rows

(* A recording is the only one from its first step on, or the catalogue is *)
(* torn.                                                                   *)
LoneOrTorn(j) ==
    j \in Active =>
        /\ alone[j] => Active = {j} /\ Progress(j)
        /\ ~alone[j] => torn

(* Without an overlap there is one recording, and its DELETE has seen all  *)
(* rows there are when it inserts its own.                                 *)
NoOverlap ==
    ~overlap =>
        /\ dying # "conflict"
        /\ \A i, j \in Active : i = j
        /\ \A j \in Jobs : pc[j] = "commit" => seen[j] = rows

(* A reader nobody interferes with sees rows that stay.                    *)
CalmReader(r) ==
    calm[r] =>
        /\ ~torn /\ Active = {}
        /\ reader[r] \in {"checked", "placed"}
        /\ wants[r] \subseteq rows
        /\ reader[r] = "placed" => \E x \in wants[r] : got[r] = x.job

Safe ==
    /\ RowsMatchFiles /\ NoOverlap
    /\ \A j \in Jobs : LoneOrTorn(j)
    /\ \A r \in Readers : CalmReader(r)

-----------------------------------------------------------------------------
LEMMA TypeInit == Init => TypeOK
<1> SUFFICES ASSUME Init PROVE TypeOK
  OBVIOUS
<1>1. Files = {}
  BY SavedAssumption DEF Init, Files
<1>2. /\ workdir \in [Jobs -> SUBSET Names] /\ seen \in [Jobs -> SUBSET Row]
      /\ wants \in [Readers -> SUBSET Row]
  BY SavedAssumption DEF Init
<1>3. /\ todo \in [Jobs -> SUBSET Names] /\ placed \in [Jobs -> SUBSET Names]
      /\ copied \in [Jobs -> SUBSET Names]
  BY DEF Init
<1> QED
  BY <1>1, <1>2, <1>3 DEF Init, TypeOK, Recording, InFiles

LEMMA TypeStep == TypeOK /\ [Next]_vars => TypeOK'
<1> SUFFICES ASSUME TypeOK, [Next]_vars PROVE TypeOK'
  OBVIOUS
<1> USE SavedAssumption
    DEF TypeOK, Files, Row, Recording, InFiles, threadVars, tableVars, readerVars, Goto
<1>1. ASSUME NEW j \in Jobs, Skip(j) PROVE TypeOK'
  BY <1>1 DEF Skip
<1>2. ASSUME NEW j \in Jobs, Clear(j) PROVE TypeOK'
  BY <1>2 DEF Clear, Listed, Start
<1>3. ASSUME NEW j \in Jobs, Unlink(j) PROVE TypeOK'
  BY <1>3 DEF Unlink
<1>4. ASSUME NEW j \in Jobs, Rmdir(j) PROVE TypeOK'
  BY <1>4 DEF Rmdir
<1>5. ASSUME NEW j \in Jobs, Screen(j) PROVE TypeOK'
  BY <1>5 DEF Screen
<1>6. ASSUME NEW j \in Jobs, Copy(j) PROVE TypeOK'
  BY <1>6 DEF Copy
<1>7. ASSUME NEW j \in Jobs, Measure(j) PROVE TypeOK'
  <2>1. /\ pc' \in [Jobs -> {"run", "done", "lost", "barred"} \cup Recording]
        /\ copied' \in [Jobs -> SUBSET Names]
    BY <1>7 DEF Measure, Unfinished
  <2>2. placed' = placed \/ placed' = [placed EXCEPT ![j] = @ \cup copied[j]]
    BY <1>7 DEF Measure
  <2>3. placed' \in [Jobs -> SUBSET Names]
    BY <2>2
  <2>4. torn' \in BOOLEAN
    <3>1. (torn' = torn) \/ (torn' = TRUE)
      BY <1>7 DEF Measure
    <3> QED
      BY <3>1
  <2>5. UNCHANGED <<workdir, cancelled, folder, disk, todo, rows, seen, dying, deaths, reader,
                    wants, got, alone, calm, overlap>>
    BY <1>7 DEF Measure
  <2> QED
    BY <2>1, <2>3, <2>4, <2>5
<1>8. ASSUME NEW j \in Jobs, Return(j) PROVE TypeOK'
  BY <1>8 DEF Return
<1>9. ASSUME NEW j \in Jobs, Delete(j) PROVE TypeOK'
  BY <1>9 DEF Delete, RowsOfSource
<1>10. ASSUME NEW j \in Jobs, Commit(j) PROVE TypeOK'
  <2>1. rows' = (rows \ seen[j]) \cup {[name |-> n, job |-> j] : n \in placed[j]}
    BY <1>10 DEF Commit
  <2>2. \A n \in placed[j] : n \in Names /\ \A x \in rows \ seen[j] : x.name # n
    BY <1>10 DEF Commit, Conflict
  <2>3. rows' \subseteq Row
    BY <2>1, <2>2 DEF Row
  <2>4. \A x, y \in rows' : x.name = y.name => x = y
    BY <2>1, <2>2
  <2>5. /\ pc' \in [Jobs -> {"run", "done", "lost", "barred"} \cup Recording]
        /\ seen' \in [Jobs -> SUBSET Row] /\ torn' \in BOOLEAN
    BY <1>10 DEF Commit
  <2>6. UNCHANGED <<workdir, cancelled, folder, disk, todo, copied, placed, dying, deaths,
                    reader, wants, got, alone, calm, overlap>>
    BY <1>10 DEF Commit
  <2> QED
    BY <2>3, <2>4, <2>5, <2>6
<1>11. ASSUME NEW j \in Jobs, Refused(j) PROVE TypeOK'
  BY <1>11 DEF Refused, Conflict, Unfinished
<1>12. ASSUME NEW j \in Jobs, CutOff(j) PROVE TypeOK'
  BY <1>12 DEF CutOff, Unfinished
<1>13. ASSUME NEW j \in Jobs, Cancel(j) PROVE TypeOK'
  BY <1>13 DEF Cancel
<1>14. ASSUME NEW j \in Jobs, Cleaned(j) PROVE TypeOK'
  BY <1>14 DEF Cleaned
<1>15. CASE KillWorker
  BY <1>15 DEF KillWorker, Active, Unfinished
<1>16. CASE Boot
  <2>1. pc' \in [Jobs -> {"run", "done"}] /\ dying' = "no" /\ overlap' = FALSE
    BY <1>16 DEF Boot
  <2>2. workdir' \in [Jobs -> SUBSET Names]
    BY <1>16 DEF Boot
  <2>3. UNCHANGED <<cancelled, folder, disk, todo, copied, placed, rows, seen, deaths, reader,
                    wants, got, alone, calm, torn>>
    BY <1>16 DEF Boot
  <2>4. pc' \in [Jobs -> {"run", "done", "lost", "barred"} \cup Recording]
    BY <2>1
  <2>5. dying' \in {"no", "conflict", "killed"} /\ overlap' \in BOOLEAN
    BY <2>1
  <2> QED
    BY <2>2, <2>3, <2>4, <2>5
<1>17. ASSUME NEW r \in Readers, Check(r) PROVE TypeOK'
  BY <1>17 DEF Check
<1>18. ASSUME NEW r \in Readers, Place(r) PROVE TypeOK'
  BY <1>18 DEF Place
<1>19. CASE UNCHANGED vars
  BY <1>19 DEF vars
<1> QED
  BY <1>1, <1>2, <1>3, <1>4, <1>5, <1>6, <1>7, <1>8, <1>9, <1>10, <1>11, <1>12, <1>13, <1>14, <1>15, <1>16, <1>17, <1>18, <1>19 DEF Next, Step

-----------------------------------------------------------------------------
\* A step inside a recording, which touches the rows of nobody.
LEMMA InsideStep ==
    ASSUME TypeOK, Safe, NEW j \in Jobs, pc[j] \in Recording,
           NEW q \in Recording, pc' = [pc EXCEPT ![j] = q],
           UNCHANGED <<rows, dying, reader, wants, got, alone, calm, torn, overlap>>,
           \A i \in Jobs \ {j} : seen'[i] = seen[i],
           q = "commit" => seen'[j] = rows,
           alone[j] => Progress(j)'
    PROVE  Safe'
<1>1. Active' = Active /\ j \in Active /\ \A i \in Jobs \ {j} : pc'[i] = pc[i]
  BY DEF TypeOK, Active
<1>2. ASSUME NEW i \in Jobs PROVE LoneOrTorn(i)'
  <2>1. CASE i = j
    BY <1>1, <2>1 DEF Safe, LoneOrTorn
  <2>2. CASE i # j
    BY <1>1, <2>2 DEF Safe, LoneOrTorn
  <2> QED
    BY <2>1, <2>2
<1>3. ASSUME NEW r \in Readers PROVE CalmReader(r)'
  BY <1>1 DEF Safe, CalmReader
<1>4. NoOverlap'
  <2>1. ASSUME NEW i \in Jobs, ~overlap, pc'[i] = "commit" PROVE seen'[i] = rows
    <3>1. CASE i = j
      BY <2>1, <3>1 DEF TypeOK
    <3>2. CASE i # j
      BY <1>1, <2>1, <3>2 DEF Safe, NoOverlap
    <3> QED
      BY <3>1, <3>2
  <2> QED
    BY <1>1, <2>1 DEF Safe, NoOverlap
<1>5. RowsMatchFiles'
  BY <1>1 DEF RowsMatchFiles
<1> QED
  BY <1>2, <1>3, <1>4, <1>5 DEF Safe

\* A recording that is cut short leaves the catalogue torn.
LEMMA CutShort ==
    ASSUME TypeOK, Safe, NEW j \in Jobs, pc[j] \in Recording,
           NEW q \in {"done", "lost", "barred"}, pc' = [pc EXCEPT ![j] = q],
           torn' = TRUE, dying' = "conflict" => overlap,
           UNCHANGED <<rows, reader, wants, got, alone, calm, overlap>>,
           \A i \in Jobs \ {j} : seen'[i] = seen[i]
    PROVE  Safe'
<1>1. Active' \subseteq Active /\ j \in Active /\ j \notin Active'
      /\ \A i \in Jobs \ {j} : pc'[i] = pc[i]
  BY DEF TypeOK, Active, Recording, InFiles
<1>2. ASSUME NEW i \in Jobs PROVE LoneOrTorn(i)'
  BY <1>1 DEF Safe, LoneOrTorn
<1>3. ASSUME NEW r \in Readers PROVE CalmReader(r)'
  BY <1>1 DEF Safe, CalmReader
<1>4. NoOverlap'
  <2>1. ASSUME NEW i \in Jobs, ~overlap, pc'[i] = "commit" PROVE seen'[i] = rows
    <3>1. i # j
      BY <2>1 DEF TypeOK
    <3> QED
      BY <1>1, <2>1, <3>1 DEF Safe, NoOverlap
  <2> QED
    BY <1>1, <2>1 DEF Safe, NoOverlap
<1>5. RowsMatchFiles'
  BY DEF RowsMatchFiles
<1> QED
  BY <1>2, <1>3, <1>4, <1>5 DEF Safe

\* A step outside every recording, of a job or of the process.
LEMMA OutsideStep ==
    ASSUME TypeOK, Safe, Active' = Active, \A j \in Active : pc'[j] = pc[j] /\ seen'[j] = seen[j],
           \A j \in Jobs : pc'[j] = "commit" => pc[j] = "commit",
           UNCHANGED <<disk, todo, copied, placed, rows, reader, wants, got, alone, calm, torn>>,
           overlap' = overlap \/ Active = {}, 
           dying' # "conflict" \/ (dying' = dying /\ overlap' = overlap)
    PROVE  Safe'
<1>0. Files' = Files
  BY DEF Files
<1>1. ASSUME NEW i \in Jobs PROVE LoneOrTorn(i)'
  BY <1>0 DEF Safe, LoneOrTorn, Progress
<1>2. ASSUME NEW r \in Readers PROVE CalmReader(r)'
  BY DEF Safe, CalmReader
<1>3. NoOverlap'
  <2>1. ASSUME NEW i \in Jobs, ~overlap', pc'[i] = "commit" PROVE seen'[i] = rows
    <3>1. i \in Active
      BY <2>1 DEF Active, Recording
    <3> QED
      BY <2>1, <3>1 DEF Safe, NoOverlap, Active
  <2> QED
    BY <2>1 DEF Safe, NoOverlap
<1>4. RowsMatchFiles'
  BY <1>0 DEF Safe, RowsMatchFiles
<1> QED
  BY <1>1, <1>2, <1>3, <1>4 DEF Safe

-----------------------------------------------------------------------------
LEMMA ClearKeeps == ASSUME TypeOK, Safe, NEW j \in Jobs, Clear(j) PROVE Safe'
<1>1. /\ pc[j] = "run" /\ dying = "no" /\ pc' = [pc EXCEPT ![j] = "clear"]
      /\ todo' = [todo EXCEPT ![j] = Listed] /\ placed' = [placed EXCEPT ![j] = {}]
      /\ copied' = [copied EXCEPT ![j] = {}]
      /\ alone' = [i \in Jobs |-> i = j /\ Active = {}]
      /\ torn' = (torn \/ Active # {}) /\ overlap' = (overlap \/ Active # {})
      /\ calm' = [r \in Readers |-> FALSE]
      /\ UNCHANGED <<folder, disk, rows, seen, dying>>
  BY DEF Clear, Goto, Start, tableVars
<1>2. /\ Active' = Active \cup {j} /\ j \notin Active
      /\ pc'[j] = "clear" /\ \A i \in Jobs \ {j} : pc'[i] = pc[i]
  BY <1>1 DEF TypeOK, Active, Recording, InFiles
<1>3. Listed = Files /\ Files' = Files
  BY <1>1 DEF TypeOK, Listed, Files
<1>4. Progress(j)'
  BY <1>1, <1>2, <1>3 DEF Progress, TypeOK
<1>5. ASSUME NEW i \in Jobs PROVE LoneOrTorn(i)'
  <2>1. CASE i = j
    BY <1>1, <1>2, <1>4, <2>1 DEF LoneOrTorn
  <2>2. CASE i # j
    BY <1>1, <1>2, <2>2 DEF LoneOrTorn
  <2> QED
    BY <2>1, <2>2
<1>6. ASSUME NEW r \in Readers PROVE CalmReader(r)'
  BY <1>1 DEF CalmReader
<1>7. NoOverlap'
  BY <1>1, <1>2 DEF Safe, NoOverlap
<1>8. RowsMatchFiles'
  BY <1>2 DEF RowsMatchFiles
<1> QED
  BY <1>5, <1>6, <1>7, <1>8 DEF Safe

LEMMA UnlinkKeeps == ASSUME TypeOK, Safe, NEW j \in Jobs, Unlink(j) PROVE Safe'
<1>1. PICK n \in todo[j] :
         disk' = [disk EXCEPT ![n] = NoJob] /\ todo' = [todo EXCEPT ![j] = @ \ {n}]
  BY DEF Unlink
<1>2. /\ pc[j] = "clear" /\ UNCHANGED <<pc, copied, placed, rows, seen, dying, reader, wants, got,
                                       alone, calm, torn, overlap>>
  BY DEF Unlink, tableVars, readerVars
<1>3. Files' \subseteq Files \ {n} /\ todo'[j] = todo[j] \ {n}
  BY <1>1, SavedAssumption DEF TypeOK, Files
<1>4. j \in Active /\ pc' = [pc EXCEPT ![j] = "clear"]
  BY <1>2 DEF Active, Recording, InFiles, TypeOK
<1>5. alone[j] => Progress(j)'
  BY <1>2, <1>3, <1>4 DEF Safe, LoneOrTorn, Progress
<1> QED
  BY <1>2, <1>4, <1>5, InsideStep DEF Recording, InFiles

LEMMA RmdirKeeps == ASSUME TypeOK, Safe, NEW j \in Jobs, Rmdir(j) PROVE Safe'
<1>1. /\ pc[j] = "clear" /\ todo[j] = {} /\ pc' = [pc EXCEPT ![j] = "screen"]
      /\ UNCHANGED <<disk, copied, placed, rows, seen, dying, reader, wants, got,
                     alone, calm, torn, overlap>>
  BY DEF Rmdir, Goto, tableVars, readerVars
<1>2. j \in Active /\ pc'[j] = "screen" /\ Files' = Files
  BY <1>1 DEF Active, Recording, InFiles, TypeOK, Files
<1>3. alone[j] => Progress(j)'
  BY <1>1, <1>2 DEF Safe, LoneOrTorn, Progress
<1> QED
  BY <1>1, <1>3, InsideStep DEF Recording, InFiles

LEMMA ScreenKeeps == ASSUME TypeOK, Safe, NEW j \in Jobs, Screen(j) PROVE Safe'
<1>1. PICK q \in {"delete", "copy"} : pc' = [pc EXCEPT ![j] = q]
  BY DEF Screen, Goto
<1>2. /\ pc[j] = "screen"
      /\ UNCHANGED <<disk, copied, placed, rows, seen, dying, reader, wants, got,
                     alone, calm, torn, overlap>>
  BY DEF Screen, tableVars, readerVars
<1>3. j \in Active /\ pc'[j] = q /\ Files' = Files
  BY <1>1, <1>2 DEF Active, Recording, InFiles, TypeOK, Files
<1>4. alone[j] => Progress(j)'
  BY <1>2, <1>3 DEF Safe, LoneOrTorn, Progress
<1> QED
  BY <1>1, <1>2, <1>4, InsideStep DEF Recording, InFiles

LEMMA CopyKeeps == ASSUME TypeOK, Safe, NEW j \in Jobs, Copy(j) PROVE Safe'
<1>1. /\ pc[j] = "copy" /\ copied[j] = {}
      /\ UNCHANGED <<pc, placed, rows, seen, dying, reader, wants, got,
                     alone, calm, torn, overlap>>
  BY DEF Copy, tableVars, readerVars
<1>2. j \in Active /\ pc' = [pc EXCEPT ![j] = "copy"]
  BY <1>1 DEF Active, Recording, InFiles, TypeOK
<1>3. PICK n \in todo[j] : \/ /\ disk' = [disk EXCEPT ![n] = j]
                              /\ copied' = [copied EXCEPT ![j] = {n}]
                           \/ UNCHANGED <<disk, copied>>
  BY DEF Copy
<1>4. CASE UNCHANGED <<disk, copied>>
  <2>1. Files' = Files
    BY <1>4 DEF Files
  <2>2. alone[j] => Progress(j)'
    BY <1>1, <1>2, <1>4, <2>1 DEF Safe, LoneOrTorn, Progress
  <2> QED
    BY <1>1, <1>2, <2>2, InsideStep DEF Recording, InFiles
<1>5. CASE disk' = [disk EXCEPT ![n] = j] /\ copied' = [copied EXCEPT ![j] = {n}]
  <2>1. n \in Names /\ j # NoJob
    BY <1>3, SavedAssumption DEF TypeOK
  <2>2. Files' = Files \cup {n} /\ copied'[j] = {n} /\ disk'[n] = j
        /\ \A m \in Names \ {n} : disk'[m] = disk[m]
    BY <1>5, <2>1 DEF TypeOK, Files
  <2>3. alone[j] => Progress(j)'
    <3>1. \A m \in Files : m \in Names
      BY DEF Files
    <3> QED
      BY <1>1, <1>2, <2>1, <2>2, <3>1 DEF Safe, LoneOrTorn, Progress
  <2> QED
    BY <1>1, <1>2, <2>3, InsideStep DEF Recording, InFiles
<1> QED
  BY <1>3, <1>4, <1>5

LEMMA MeasureKeeps == ASSUME TypeOK, Safe, NEW j \in Jobs, Measure(j) PROVE Safe'
<1>1. /\ pc[j] = "copy" /\ copied[j] # {} /\ copied' = [copied EXCEPT ![j] = {}]
      /\ UNCHANGED <<disk, rows, seen, dying, reader, wants, got, alone, calm, overlap>>
  BY DEF Measure, tableVars, readerVars
<1>2. j \in Active /\ Files' = Files /\ copied'[j] = {}
  BY <1>1 DEF Active, Recording, InFiles, TypeOK, Files
<1>3. CASE placed' = [placed EXCEPT ![j] = @ \cup copied[j]] /\ UNCHANGED <<pc, torn>>
  <2>1. placed'[j] = placed[j] \cup copied[j] /\ pc' = [pc EXCEPT ![j] = "copy"]
    BY <1>1, <1>3 DEF TypeOK
  <2>2. alone[j] => Progress(j)'
    BY <1>1, <1>2, <1>3, <2>1 DEF Safe, LoneOrTorn, Progress
  <2> QED
    BY <1>1, <1>3, <2>1, <2>2, InsideStep DEF Recording, InFiles
<1>4. CASE Goto(j, IF dying = "no" THEN "done" ELSE Unfinished(j)) /\ torn' = TRUE
  <2>1. PICK q \in {"done", "lost", "barred"} : pc' = [pc EXCEPT ![j] = q]
    BY <1>4 DEF Goto, Unfinished
  <2>2. dying' = "conflict" => overlap
    BY <1>1 DEF Safe, NoOverlap, TypeOK
  <2> QED
    BY <1>1, <1>4, <2>1, <2>2, CutShort DEF Recording, InFiles
<1> QED
  BY <1>3, <1>4 DEF Measure

LEMMA ReturnKeeps == ASSUME TypeOK, Safe, NEW j \in Jobs, Return(j) PROVE Safe'
<1>1. /\ pc[j] = "copy" /\ copied[j] = {} /\ pc' = [pc EXCEPT ![j] = "delete"]
      /\ UNCHANGED <<disk, copied, placed, rows, seen, dying, reader, wants, got,
                     alone, calm, torn, overlap>>
  BY DEF Return, Goto, threadVars, tableVars, readerVars
<1>2. j \in Active /\ pc'[j] = "delete" /\ Files' = Files
  BY <1>1 DEF Active, Recording, InFiles, TypeOK, Files
<1>3. alone[j] => Progress(j)'
  BY <1>1, <1>2 DEF Safe, LoneOrTorn, Progress
<1> QED
  BY <1>1, <1>3, InsideStep DEF Recording, InFiles

LEMMA DeleteKeeps == ASSUME TypeOK, Safe, NEW j \in Jobs, Delete(j) PROVE Safe'
<1>1. /\ pc[j] = "delete" /\ pc' = [pc EXCEPT ![j] = "commit"]
      /\ seen' = [seen EXCEPT ![j] = rows]
      /\ UNCHANGED <<disk, copied, placed, rows, dying, reader, wants, got,
                     alone, calm, torn, overlap>>
  BY DEF Delete, Goto, RowsOfSource, threadVars, readerVars
<1>2. /\ j \in Active /\ pc'[j] = "commit" /\ Files' = Files
      /\ seen'[j] = rows /\ \A i \in Jobs \ {j} : seen'[i] = seen[i]
  BY <1>1 DEF Active, Recording, InFiles, TypeOK, Files
<1>3. alone[j] => Progress(j)'
  BY <1>1, <1>2 DEF Safe, LoneOrTorn, Progress
<1> QED
  BY <1>1, <1>2, <1>3, InsideStep DEF Recording, InFiles

\* The rows of a recording that was alone are its files; another one's commit
\* comes while somebody is still at it, or leaves the catalogue torn.
LEMMA CommitKeeps == ASSUME TypeOK, Safe, NEW j \in Jobs, Commit(j) PROVE Safe'
<1>1. /\ pc[j] = "commit" /\ pc' = [pc EXCEPT ![j] = "done"]
      /\ rows' = (rows \ seen[j]) \cup {[name |-> n, job |-> j] : n \in placed[j]}
      /\ seen' = [seen EXCEPT ![j] = {}] /\ torn' = (torn /\ ~alone[j])
      /\ UNCHANGED <<disk, copied, placed, dying, reader, wants, got, alone, calm, overlap>>
  BY DEF Commit, Goto, threadVars, readerVars
<1>2. /\ Active' = Active \ {j} /\ j \in Active /\ Files' = Files /\ pc'[j] = "done"
      /\ \A i \in Jobs \ {j} : pc'[i] = pc[i] /\ seen'[i] = seen[i]
  BY <1>1 DEF Active, Recording, InFiles, TypeOK, Files
<1>3. ASSUME NEW i \in Jobs PROVE LoneOrTorn(i)'
  BY <1>1, <1>2 DEF Safe, LoneOrTorn
<1>4. ASSUME NEW r \in Readers PROVE CalmReader(r)'
  BY <1>1, <1>2 DEF Safe, CalmReader
<1>5. NoOverlap'
  <2>1. ASSUME ~overlap, NEW i \in Jobs, pc'[i] = "commit" PROVE FALSE
    <3>1. i # j /\ i \in Active
      BY <1>2, <2>1 DEF Active, Recording
    <3> QED
      BY <1>2, <2>1, <3>1 DEF Safe, NoOverlap
  <2> QED
    BY <1>1, <1>2, <2>1 DEF Safe, NoOverlap
<1>6. RowsMatchFiles'
  <2>1. CASE alone[j]
    <3>1. /\ seen[j] = rows /\ Files = placed[j] /\ \A n \in Files : disk[n] = j
      BY <1>1, <1>2, <2>1 DEF Safe, LoneOrTorn, Progress
    <3>2. rows' = {[name |-> n, job |-> j] : n \in Files}
      BY <1>1, <3>1
    <3>3. rows' = {[name |-> n, job |-> disk[n]] : n \in Files}
      BY <3>1, <3>2
    <3>4. \A x, y \in rows' : x.job = y.job
      BY <3>2
    <3> QED
      BY <1>1, <1>2, <3>3, <3>4 DEF RowsMatchFiles
  <2>2. CASE ~alone[j]
    BY <1>1, <1>2, <2>2 DEF Safe, LoneOrTorn, RowsMatchFiles
  <2> QED
    BY <2>1, <2>2
<1> QED
  BY <1>3, <1>4, <1>5, <1>6 DEF Safe

LEMMA RefusedKeeps == ASSUME TypeOK, Safe, NEW j \in Jobs, Refused(j) PROVE Safe'
<1>1. /\ pc[j] = "commit" /\ pc' = [pc EXCEPT ![j] = Unfinished(j)]
      /\ torn' = TRUE /\ seen' = [seen EXCEPT ![j] = {}]
      /\ UNCHANGED <<rows, reader, wants, got, alone, calm, overlap>>
  BY DEF Refused, Goto, readerVars
<1>2. overlap
  <2>1. seen[j] # rows
    BY DEF Refused, Conflict
  <2> QED
    BY <1>1, <2>1 DEF Safe, NoOverlap, TypeOK
<1>3. \A i \in Jobs \ {j} : seen'[i] = seen[i]
  BY <1>1 DEF TypeOK
<1> QED
  BY <1>1, <1>2, <1>3, CutShort DEF Recording, Unfinished

LEMMA CutOffKeeps == ASSUME TypeOK, Safe, NEW j \in Jobs, CutOff(j) PROVE Safe'
<1>1. /\ pc[j] \in {"delete", "commit"} /\ pc' = [pc EXCEPT ![j] = Unfinished(j)]
      /\ torn' = TRUE /\ seen' = [seen EXCEPT ![j] = {}]
      /\ UNCHANGED <<rows, dying, reader, wants, got, alone, calm, overlap>>
  BY DEF CutOff, Goto, readerVars
<1>2. \A i \in Jobs \ {j} : seen'[i] = seen[i]
  BY <1>1 DEF TypeOK
<1>3. dying' = "conflict" => overlap
  BY <1>1 DEF Safe, NoOverlap, TypeOK
<1> QED
  BY <1>1, <1>2, <1>3, CutShort DEF Recording, Unfinished

LEMMA SkipKeeps == ASSUME TypeOK, Safe, NEW j \in Jobs, Skip(j) PROVE Safe'
<1>1. /\ pc[j] = "run" /\ pc' = [pc EXCEPT ![j] = IF dying = "no" THEN "done" ELSE "lost"]
      /\ UNCHANGED <<disk, todo, copied, placed, rows, seen, dying, reader, wants, got,
                     alone, calm, torn, overlap>>
  BY DEF Skip, Goto, threadVars, tableVars, readerVars
<1>2. \A i \in Jobs : pc'[i] = pc[i] \/ (i = j /\ pc'[i] \in {"done", "lost"})
  BY <1>1 DEF TypeOK
<1>3. Active' = Active /\ \A i \in Active : pc'[i] = pc[i]
  BY <1>1, <1>2 DEF Active, Recording, InFiles
<1>4. \A i \in Jobs : pc'[i] = "commit" => pc[i] = "commit"
  BY <1>2
<1> QED
  BY <1>1, <1>3, <1>4, OutsideStep

\* A step that leaves jobs, files, rows and readers as they are.
LEMMA StillKeeps ==
    ASSUME TypeOK, Safe,
           UNCHANGED <<pc, threadVars, tableVars, dying, readerVars, alone, calm, torn, overlap>>
    PROVE  Safe'
<1>1. UNCHANGED <<pc, disk, todo, copied, placed, rows, seen, dying, reader, wants, got,
                  alone, calm, torn, overlap>>
  BY DEF threadVars, tableVars, readerVars
<1>2. Active' = Active /\ \A i \in Active : pc'[i] = pc[i] /\ seen'[i] = seen[i]
  BY <1>1 DEF Active
<1> QED
  BY <1>1, <1>2, OutsideStep

LEMMA BootKeeps == ASSUME TypeOK, Safe, Boot PROVE Safe'
<1>1. /\ \A i \in Jobs : pc[i] \in {"done", "lost", "barred"}
      /\ dying' = "no" /\ overlap' = FALSE
      /\ \A i \in Jobs : pc'[i] \in {"run", "done"}
      /\ UNCHANGED <<disk, todo, copied, placed, rows, seen, reader, wants, got, alone, calm, torn>>
  BY DEF Boot, threadVars, tableVars, readerVars
<1>2. Active = {} /\ Active' = {}
  BY <1>1 DEF Active, Recording, InFiles
<1>3. \A i \in Jobs : pc'[i] = "commit" => pc[i] = "commit"
  BY <1>1
<1> QED
  BY <1>1, <1>2, <1>3, OutsideStep

LEMMA KillKeeps == ASSUME TypeOK, Safe, KillWorker PROVE Safe'
<1>1. /\ dying' = "killed" /\ torn' = (torn \/ Active # {})
      /\ \A i \in Jobs : pc'[i] \in {"done", "lost", "barred"}
      /\ UNCHANGED <<disk, rows, reader, wants, got, alone, calm, overlap>>
  BY DEF KillWorker, threadVars, readerVars, Unfinished, TypeOK, Active
<1>2. Active' = {} /\ Files' = Files
  BY <1>1 DEF Active, Recording, InFiles, Files
<1>3. ASSUME NEW i \in Jobs PROVE LoneOrTorn(i)'
  BY <1>2 DEF LoneOrTorn
<1>4. ASSUME NEW r \in Readers PROVE CalmReader(r)'
  BY <1>1, <1>2 DEF Safe, CalmReader
<1>5. NoOverlap'
  BY <1>1, <1>2 DEF NoOverlap
<1>6. RowsMatchFiles'
  BY <1>1, <1>2 DEF Safe, RowsMatchFiles
<1> QED
  BY <1>3, <1>4, <1>5, <1>6 DEF Safe

-----------------------------------------------------------------------------
\* Nothing but a reader changes.
LEMMA ReaderStep ==
    ASSUME Safe,
           UNCHANGED <<pc, threadVars, tableVars, dying, alone, torn, overlap>>,
           \A r \in Readers : CalmReader(r)'
    PROVE  Safe'
<1>1. UNCHANGED <<pc, disk, todo, copied, placed, rows, seen, dying, alone, torn, overlap>>
  BY DEF threadVars, tableVars
<1>2. Active' = Active /\ Files' = Files
  BY <1>1 DEF Active, Files
<1>3. \A i \in Jobs : LoneOrTorn(i)'
  BY <1>1, <1>2 DEF Safe, LoneOrTorn, Progress
<1>4. NoOverlap'
  BY <1>1, <1>2 DEF Safe, NoOverlap
<1>5. RowsMatchFiles'
  BY <1>1, <1>2 DEF Safe, RowsMatchFiles
<1> QED
  BY <1>3, <1>4, <1>5 DEF Safe

LEMMA CheckKeeps == ASSUME TypeOK, Safe, NEW r \in Readers, Check(r) PROVE Safe'
<1>1. PICK x \in rows :
         /\ wants' = [wants EXCEPT ![r] = {x}]
         /\ reader' = [reader EXCEPT ![r] = IF x.name \in Files THEN "checked" ELSE "gone"]
  BY DEF Check
<1>2. /\ calm' = [calm EXCEPT ![r] = ~torn /\ Active = {}]
      /\ UNCHANGED <<pc, threadVars, tableVars, dying, alone, torn, overlap, rows, got>>
  BY DEF Check, tableVars
<1>3. Active' = Active
  BY <1>2 DEF Active
<1>4. ASSUME NEW i \in Readers PROVE CalmReader(i)'
  <2>1. CASE i # r
    <3>1. calm'[i] = calm[i] /\ reader'[i] = reader[i] /\ wants'[i] = wants[i] /\ got'[i] = got[i]
      BY <1>1, <1>2, <2>1 DEF TypeOK
    <3> QED
      BY <1>2, <1>3, <3>1 DEF Safe, CalmReader
  <2>2. CASE i = r
    <3>1. calm'[r] = (~torn /\ Active = {}) /\ wants'[r] = {x}
      BY <1>1, <1>2 DEF TypeOK
    <3>2. ~torn /\ Active = {} => x.name \in Files
      <4>1. rows \subseteq Row
        BY DEF TypeOK
      <4> QED
        BY <1>1, <4>1 DEF Safe, RowsMatchFiles
    <3>3. calm'[r] => reader'[r] = "checked"
      BY <1>1, <3>1, <3>2 DEF TypeOK
    <3> QED
      BY <1>1, <1>2, <1>3, <2>2, <3>1, <3>3 DEF CalmReader
  <2> QED
    BY <2>1, <2>2
<1> QED
  BY <1>2, <1>4, ReaderStep

LEMMA PlaceKeeps == ASSUME TypeOK, Safe, NEW r \in Readers, Place(r) PROVE Safe'
<1>1. PICK x \in wants[r] :
         /\ got' = [got EXCEPT ![r] = disk[x.name]]
         /\ reader' = [reader EXCEPT ![r] = IF x.name \in Files THEN "placed" ELSE "gone"]
  BY DEF Place
<1>2. /\ reader[r] = "checked"
      /\ UNCHANGED <<pc, threadVars, tableVars, dying, wants, alone, calm, torn, overlap, rows>>
  BY DEF Place, tableVars
<1>3. Active' = Active
  BY <1>2 DEF Active
<1>4. ASSUME NEW i \in Readers PROVE CalmReader(i)'
  <2>1. CASE i # r
    <3>1. reader'[i] = reader[i] /\ got'[i] = got[i]
      BY <1>1, <2>1 DEF TypeOK
    <3> QED
      BY <1>2, <1>3, <3>1 DEF Safe, CalmReader
  <2>2. CASE i = r
    <3> SUFFICES ASSUME calm[r] PROVE CalmReader(r)'
      BY <1>2, <2>2 DEF CalmReader
    <3>1. ~torn /\ Active = {} /\ wants[r] \subseteq rows
      BY DEF Safe, CalmReader
    <3>2. x.name \in Files /\ disk[x.name] = x.job
      BY <1>1, <3>1 DEF Safe, RowsMatchFiles
    <3>3. reader'[r] = "placed" /\ got'[r] = x.job
      BY <1>1, <3>2 DEF TypeOK
    <3> QED
      BY <1>1, <1>2, <1>3, <3>1, <3>3 DEF CalmReader
  <2> QED
    BY <2>1, <2>2
<1> QED
  BY <1>2, <1>4, ReaderStep

-----------------------------------------------------------------------------
LEMMA SafeInit == Init => Safe
<1> SUFFICES ASSUME Init PROVE Safe
  OBVIOUS
<1>1. Active = {} /\ Files = {}
  BY SavedAssumption DEF Init, Active, Files, Recording, InFiles
<1>2. RowsMatchFiles
  BY <1>1 DEF Init, RowsMatchFiles
<1>3. NoOverlap
  BY <1>1 DEF Init, NoOverlap
<1>4. (\A j \in Jobs : LoneOrTorn(j)) /\ \A r \in Readers : CalmReader(r)
  BY <1>1 DEF Init, LoneOrTorn, CalmReader
<1> QED
  BY <1>2, <1>3, <1>4 DEF Safe

LEMMA SafeStep == TypeOK /\ Safe /\ [Next]_vars => Safe'
<1> SUFFICES ASSUME TypeOK, Safe, [Next]_vars PROVE Safe'
  OBVIOUS
<1>1. ASSUME NEW j \in Jobs, Clear(j) \/ Unlink(j) \/ Rmdir(j) \/ Screen(j) PROVE Safe'
  BY <1>1, ClearKeeps, UnlinkKeeps, RmdirKeeps, ScreenKeeps
<1>2. ASSUME NEW j \in Jobs, Copy(j) \/ Measure(j) \/ Return(j) PROVE Safe'
  BY <1>2, CopyKeeps, MeasureKeeps, ReturnKeeps
<1>3. ASSUME NEW j \in Jobs, Delete(j) \/ Commit(j) \/ Refused(j) \/ CutOff(j) PROVE Safe'
  BY <1>3, DeleteKeeps, CommitKeeps, RefusedKeeps, CutOffKeeps
<1>4. ASSUME NEW j \in Jobs, Skip(j) PROVE Safe'
  BY <1>4, SkipKeeps
<1>5. ASSUME NEW j \in Jobs, Cancel(j) \/ Cleaned(j) PROVE Safe'
  BY <1>5, StillKeeps DEF Cancel, Cleaned
<1>6. CASE KillWorker \/ Boot
  BY <1>6, KillKeeps, BootKeeps
<1>7. ASSUME NEW r \in Readers, Check(r) \/ Place(r) PROVE Safe'
  BY <1>7, CheckKeeps, PlaceKeeps
<1>8. CASE UNCHANGED vars
  BY <1>8, StillKeeps DEF vars
<1> QED
  BY <1>1, <1>2, <1>3, <1>4, <1>5, <1>6, <1>7, <1>8 DEF Next, Step

LEMMA SavedSafe == Spec => [](TypeOK /\ Safe)
<1>1. Init => TypeOK /\ Safe
  BY TypeInit, SafeInit
<1>2. TypeOK /\ Safe /\ [Next]_vars => (TypeOK /\ Safe)'
  BY TypeStep, SafeStep
<1> QED
  BY <1>1, <1>2, PTL DEF Spec

\* The variables keep their types; in particular no file lies outside a folder,
\* and no two rows of a source have one name (uq_saved_structures).
THEOREM TypesHold == Spec => []TypeOK
<1>1. TypeOK /\ Safe => TypeOK
  OBVIOUS
<1> QED
  BY <1>1, SavedSafe, PTL

\* _save_structures: after a recording that was alone the rows list the folder.
THEOREM RowsListTheFolder == Spec => []RowsMatchFiles
<1>1. TypeOK /\ Safe => RowsMatchFiles
  BY DEF Safe
<1> QED
  BY <1>1, SavedSafe, PTL

\* The INSERT of a recording that met no other is never refused.
THEOREM OnlyOverlapKills == Spec => []DeathNeedsOverlap
<1>1. TypeOK /\ Safe => DeathNeedsOverlap
  BY DEF Safe, NoOverlap, DeathNeedsOverlap, TypeOK
<1> QED
  BY <1>1, SavedSafe, PTL

\* submit reads the file twice, and both times it is the one of its row.
THEOREM CalmReadersAreServed == Spec => []ReaderIsServed
<1>1. TypeOK /\ Safe => ReaderIsServed
  BY DEF Safe, CalmReader, ReaderIsServed
<1> QED
  BY <1>1, SavedSafe, PTL
============================================================================
