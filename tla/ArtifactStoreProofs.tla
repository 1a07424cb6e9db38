------------------------ MODULE ArtifactStoreProofs ------------------------
(***************************************************************************)
(* What the screen lists is on disk, a waiting simulation has its input    *)
(* and a running job its directory, for any number of jobs and of crashes, *)
(* as far as the orphan sweep recognises the directories of the rows.      *)
(***************************************************************************)
EXTENDS ArtifactStore, TLAPS

(* Whoever is to be emptied is settled for good, and once its rows are gone*)
(* only a cancelled run may list files again.                              *)
DoomIsFinal(j) ==
    \A c \in Deleters : j \in doomed[c] =>
        /\ row[j] \in Settled \cup {"gone"}
        /\ clean[c] = "dirs" /\ arts[j] => row[j] = "cancelled"

(* What the orphan sweep does not know and has a row is young.             *)
StrangersAreYoung(j) ==
    /\ row[j] = "none" => ~exists[j]
    /\ row[j] = "placing" => ~old[j]
    /\ clean["sweep"] = "orphans" /\ InRow(j) \notin known /\ row[j] \in Recorded => ~old[j]

(* A job is handled under the row it was claimed with, until somebody      *)
(* cancels it and deletes its project.                                     *)
HandledRow(j) ==
    /\ tried[j] => row[j] \notin {"none", "placing", "lost"}
    /\ row[j] = "running" => tried[j]
    /\ Handled(j) => row[j] \in {"running", "cancelled", "gone"}

InputWaits(j) ==
    kind[j] = "devsim" /\ row[j] \in {"placing", "queued"} /\ ~tried[j] /\ j \notin mistaken
        => "input" \in files[j]

(* What a run has found is still there while its row says running.         *)
FoundIsThere(j) ==
    /\ stage[j] \in {"idle", "claimed", "running"} => ~found[j]
    /\ stage[j] = "inserting" => found[j]
    /\ found[j] /\ row[j] = "running" /\ j \notin mistaken => "result" \in files[j]

DirectoryStays(j) ==
    row[j] = "running" /\ stage[j] \in {"running", "recording", "inserting"} /\ j \notin mistaken
        => exists[j]
ArtifactsStay(j) ==
    arts[j] /\ row[j] # "cancelled" /\ j \notin mistaken => "result" \in files[j]

JobInv(j) ==
    /\ DoomIsFinal(j) /\ StrangersAreYoung(j) /\ HandledRow(j) /\ InputWaits(j)
    /\ FoundIsThere(j) /\ DirectoryStays(j) /\ ArtifactsStay(j)
StoreInv == TypeOK /\ \A j \in Jobs : JobInv(j)

Stages == {"idle", "claimed", "running", "recording", "inserting", "marking"}

-----------------------------------------------------------------------------
\* Types, without what they say of several variables.
Shapes ==
    /\ row \in [Jobs -> Recorded \cup {"none", "placing", "lost", "gone"}]
    /\ kind \in [Jobs -> Kinds \cup {"none"}]
    /\ tried \in [Jobs -> BOOLEAN] /\ arts \in [Jobs -> BOOLEAN]
    /\ exists \in [Jobs -> BOOLEAN] /\ old \in [Jobs -> BOOLEAN]
    /\ files \in [Jobs -> SUBSET {"input", "result"}]
    /\ up \in BOOLEAN /\ found \in [Jobs -> BOOLEAN]
    /\ stage \in [Jobs -> Stages]
    /\ clean \in [Deleters -> {"free", "rows", "dirs", "orphans"}]
    /\ doomed \in [Deleters -> SUBSET Jobs]
    /\ turn \in {"idle", "quota", "orphans"}
    /\ known \in SUBSET {InRow(j) : j \in Jobs} /\ mistaken \in SUBSET Jobs
    /\ kills \in 0..MaxKills

(* ... and what they say of one job.                                       *)
Ties(j) ==
    /\ row[j] = "none" <=> kind[j] = "none"
    /\ ~exists[j] => files[j] = {} /\ ~old[j]
    /\ arts[j] => row[j] \in Recorded /\ tried[j]
    /\ Handled(j) => up /\ tried[j]
SweepNeedsWorker == ~up => clean["sweep"] = "free" /\ turn = "idle"

LEMMA TypesAreShapes == TypeOK <=> Shapes /\ SweepNeedsWorker /\ \A j \in Jobs : Ties(j)
BY DEF TypeOK, Shapes, SweepNeedsWorker, Ties, Stages

LEMMA InitStore == Init => StoreInv
<1> SUFFICES ASSUME Init PROVE StoreInv
  OBVIOUS
<1>1. TypeOK
  <2>1. Shapes
    <3>1. kills \in 0..MaxKills
      BY StoreAssumption DEF Init
    <3>2. row \in [Jobs -> Recorded \cup {"none", "placing", "lost", "gone"}]
      BY DEF Init
    <3>3. kind \in [Jobs -> Kinds \cup {"none"}]
      BY DEF Init
    <3>4. /\ doomed \in [Deleters -> SUBSET Jobs]
          /\ known \in SUBSET {InRow(j) : j \in Jobs} /\ mistaken \in SUBSET Jobs
      BY DEF Init
    <3>5. /\ clean \in [Deleters -> {"free", "rows", "dirs", "orphans"}]
          /\ stage \in [Jobs -> Stages]
      BY DEF Init, Stages
    <3> QED
      BY <3>1, <3>2, <3>3, <3>4, <3>5 DEF Init, Shapes
  <2>2. SweepNeedsWorker /\ \A j \in Jobs : Ties(j)
    BY DEF Init, SweepNeedsWorker, Ties, Handled, Deleters
  <2> QED
    BY <2>1, <2>2, TypesAreShapes
<1>2. ASSUME NEW j \in Jobs PROVE JobInv(j)
  BY DEF Init, JobInv, DoomIsFinal, StrangersAreYoung, HandledRow, InputWaits, FoundIsThere,
     DirectoryStays, ArtifactsStay, Handled, Recorded, Settled, Deleters
<1> QED
  BY <1>1, <1>2 DEF StoreInv

\* A step of one job that leaves the deleters alone keeps the others as they are.
LEMMA OthersUntouched ==
    ASSUME StoreInv, NEW i \in Jobs, UNCHANGED <<up, clean, doomed, known, turn>>,
           mistaken \subseteq mistaken',
           row'[i] = row[i], kind'[i] = kind[i], tried'[i] = tried[i], arts'[i] = arts[i],
           exists'[i] = exists[i], files'[i] = files[i], old'[i] = old[i],
           stage'[i] = stage[i], found'[i] = found[i]
    PROVE  Ties(i)' /\ JobInv(i)'
<1>1. Ties(i)'
  BY TypesAreShapes DEF StoreInv, Ties, Handled
<1>2. DoomIsFinal(i)' /\ StrangersAreYoung(i)'
  BY DEF StoreInv, JobInv, DoomIsFinal, StrangersAreYoung
<1>3. HandledRow(i)' /\ InputWaits(i)'
  BY DEF StoreInv, JobInv, HandledRow, Handled, InputWaits
<1>4. FoundIsThere(i)' /\ DirectoryStays(i)' /\ ArtifactsStay(i)'
  BY DEF StoreInv, JobInv, FoundIsThere, DirectoryStays, ArtifactsStay
<1> QED
  BY <1>1, <1>2, <1>3, <1>4 DEF JobInv

-----------------------------------------------------------------------------
LEMMA OneJobStep ==
    ASSUME StoreInv, NEW j \in Jobs, Shapes', UNCHANGED <<up, clean, doomed, known, turn>>,
           mistaken \subseteq mistaken',
           \A i \in Jobs \ {j} :
              /\ row'[i] = row[i] /\ kind'[i] = kind[i] /\ tried'[i] = tried[i]
              /\ arts'[i] = arts[i] /\ exists'[i] = exists[i] /\ files'[i] = files[i]
              /\ old'[i] = old[i] /\ stage'[i] = stage[i] /\ found'[i] = found[i],
           Ties(j)', JobInv(j)'
    PROVE  StoreInv'
<1>1. \A i \in Jobs : Ties(i)' /\ JobInv(i)'
  BY OthersUntouched
<1>2. SweepNeedsWorker'
  BY TypesAreShapes DEF StoreInv, SweepNeedsWorker
<1>3. TypeOK'
  BY <1>1, <1>2 DEF TypeOK, Shapes, SweepNeedsWorker, Ties, Stages
<1> QED
  BY <1>1, <1>3 DEF StoreInv

LEMMA PlaceKeeps == ASSUME StoreInv, NEW j \in Jobs, Place(j) PROVE StoreInv'
<1>0. Shapes /\ Ties(j) /\ JobInv(j)
  BY TypesAreShapes DEF StoreInv
<1>1. /\ row[j] = "none"
      /\ row' = [row EXCEPT ![j] = "placing"]
      /\ kind' = [kind EXCEPT ![j] = "devsim"]
      /\ exists' = [exists EXCEPT ![j] = TRUE]
      /\ files' = [files EXCEPT ![j] = {"input"}]
      /\ old' = [old EXCEPT ![j] = FALSE]
      /\ UNCHANGED <<tried, arts, stage, found, up, clean, doomed, known, mistaken, turn, kills>>
  BY DEF Place, Write, workVars, cleanVars
<1>2. Shapes'
  BY <1>0, <1>1 DEF Shapes, Kinds
<1>3. /\ row'[j] = "placing"
      /\ kind'[j] = "devsim"
      /\ exists'[j] = TRUE
      /\ files'[j] = {"input"}
      /\ old'[j] = FALSE
  BY <1>0, <1>1 DEF Shapes
<1>4. Ties(j)'
  BY <1>0, <1>1, <1>3 DEF Ties, Recorded, Settled, Handled
<1>5. JobInv(j)'
  BY <1>0, <1>1, <1>3 DEF JobInv, DoomIsFinal, StrangersAreYoung, HandledRow, InputWaits,
     FoundIsThere, DirectoryStays, ArtifactsStay, Recorded, Settled, Handled, Ties
<1>6. \A i \in Jobs \ {j} :
         /\ row'[i] = row[i] /\ kind'[i] = kind[i] /\ exists'[i] = exists[i] /\ files'[i] = files[i]
         /\ old'[i] = old[i]
  BY <1>0, <1>1 DEF Shapes
<1> QED
  BY <1>1, <1>2, <1>4, <1>5, <1>6, OneJobStep

LEMMA AgesKeeps == ASSUME StoreInv, NEW j \in Jobs, Ages(j) PROVE StoreInv'
<1>0. Shapes /\ Ties(j) /\ JobInv(j)
  BY TypesAreShapes DEF StoreInv
<1>1. /\ exists[j]
      /\ row[j] # "placing" /\ clean["sweep"] # "orphans"
      /\ old' = [old EXCEPT ![j] = TRUE]
      /\ UNCHANGED <<row, kind, tried, arts, exists, files, stage, found, up, clean,
         doomed, known, mistaken, turn, kills>>
  BY DEF Ages, rowVars, workVars, cleanVars
<1>2. Shapes'
  BY <1>0, <1>1 DEF Shapes
<1>3. /\ old'[j] = TRUE
  BY <1>0, <1>1 DEF Shapes
<1>4. Ties(j)'
  BY <1>0, <1>1, <1>3 DEF Ties, Recorded, Settled, Handled
<1>5. JobInv(j)'
  BY <1>0, <1>1, <1>3 DEF JobInv, DoomIsFinal, StrangersAreYoung, HandledRow, InputWaits,
     FoundIsThere, DirectoryStays, ArtifactsStay, Recorded, Settled, Handled, Ties
<1>6. \A i \in Jobs \ {j} :
         /\ old'[i] = old[i]
  BY <1>0, <1>1 DEF Shapes
<1> QED
  BY <1>1, <1>2, <1>4, <1>5, <1>6, OneJobStep

LEMMA SubmitPlacedKeeps ==
    ASSUME StoreInv, NEW j \in Jobs, Submit(j), row[j] = "placing"
    PROVE  StoreInv'
<1>0. Shapes /\ Ties(j) /\ JobInv(j)
  BY TypesAreShapes DEF StoreInv
<1>1. /\ row[j] = "placing"
      /\ row' = [row EXCEPT ![j] = "queued"]
      /\ UNCHANGED <<kind, tried, arts, exists, files, old, stage, found, up, clean,
         doomed, known, mistaken, turn, kills>>
  BY DEF Submit, diskVars, workVars, cleanVars
<1>2. Shapes'
  BY <1>0, <1>1 DEF Shapes, Recorded
<1>3. /\ row'[j] = "queued"
  BY <1>0, <1>1 DEF Shapes
<1>4. Ties(j)'
  BY <1>0, <1>1, <1>3 DEF Ties, Recorded, Settled, Handled
<1>5. JobInv(j)'
  BY <1>0, <1>1, <1>3 DEF JobInv, DoomIsFinal, StrangersAreYoung, HandledRow, InputWaits,
     FoundIsThere, DirectoryStays, ArtifactsStay, Recorded, Settled, Handled, Ties
<1>6. \A i \in Jobs \ {j} :
         /\ row'[i] = row[i]
  BY <1>0, <1>1 DEF Shapes
<1> QED
  BY <1>1, <1>2, <1>4, <1>5, <1>6, OneJobStep

LEMMA CancelKeeps == ASSUME StoreInv, NEW j \in Jobs, Cancel(j) PROVE StoreInv'
<1>0. Shapes /\ Ties(j) /\ JobInv(j)
  BY TypesAreShapes DEF StoreInv
<1>1. /\ row[j] \in {"queued", "running"}
      /\ row' = [row EXCEPT ![j] = "cancelled"]
      /\ UNCHANGED <<kind, tried, arts, exists, files, old, stage, found, up, clean,
         doomed, known, mistaken, turn, kills>>
  BY DEF Cancel, diskVars, workVars, cleanVars
<1>2. Shapes'
  BY <1>0, <1>1 DEF Shapes, Recorded, Settled
<1>3. /\ row'[j] = "cancelled"
  BY <1>0, <1>1 DEF Shapes
<1>4. Ties(j)'
  BY <1>0, <1>1, <1>3 DEF Ties, Recorded, Settled, Handled
<1>5. JobInv(j)'
  BY <1>0, <1>1, <1>3 DEF JobInv, DoomIsFinal, StrangersAreYoung, HandledRow, InputWaits,
     FoundIsThere, DirectoryStays, ArtifactsStay, Recorded, Settled, Handled, Ties
<1>6. \A i \in Jobs \ {j} :
         /\ row'[i] = row[i]
  BY <1>0, <1>1 DEF Shapes
<1> QED
  BY <1>1, <1>2, <1>4, <1>5, <1>6, OneJobStep

LEMMA ClaimKeeps == ASSUME StoreInv, NEW j \in Jobs, Claim(j) PROVE StoreInv'
<1>0. Shapes /\ Ties(j) /\ JobInv(j)
  BY TypesAreShapes DEF StoreInv
<1>1. /\ up
      /\ row[j] = "queued" /\ stage[j] = "idle"
      /\ row' = [row EXCEPT ![j] = "running"]
      /\ tried' = [tried EXCEPT ![j] = TRUE]
      /\ found' = [found EXCEPT ![j] = FALSE]
      /\ stage' = [stage EXCEPT ![j] = "claimed"]
      /\ UNCHANGED <<kind, arts, exists, files, old, up, clean, doomed, known, mistaken,
                    turn, kills>>
  BY DEF Claim, Goto, diskVars, cleanVars
<1>2. Shapes'
  BY <1>0, <1>1 DEF Shapes, Recorded, Stages
<1>3. /\ row'[j] = "running"
      /\ tried'[j] = TRUE
      /\ found'[j] = FALSE
      /\ stage'[j] = "claimed"
  BY <1>0, <1>1 DEF Shapes
<1>4. Ties(j)'
  BY <1>0, <1>1, <1>3 DEF Ties, Recorded, Settled, Handled
<1>5. JobInv(j)'
  BY <1>0, <1>1, <1>3 DEF JobInv, DoomIsFinal, StrangersAreYoung, HandledRow, InputWaits,
     FoundIsThere, DirectoryStays, ArtifactsStay, Recorded, Settled, Handled, Ties
<1>6. \A i \in Jobs \ {j} :
         /\ row'[i] = row[i] /\ tried'[i] = tried[i] /\ found'[i] = found[i] /\ stage'[i] = stage[i]
  BY <1>0, <1>1 DEF Shapes
<1> QED
  BY <1>1, <1>2, <1>4, <1>5, <1>6, OneJobStep

\* A job with no directory is submitted.
LEMMA SubmitNewKeeps ==
    ASSUME StoreInv, NEW j \in Jobs,
           row[j] = "none",
           NEW k \in {"process", "project"},
           row' = [row EXCEPT ![j] = "queued"],
           kind' = [kind EXCEPT ![j] = k],
           UNCHANGED <<tried, arts, exists, files, old, stage, found, up, clean, doomed,
           known, mistaken, turn, kills>>
    PROVE  StoreInv'
<1>1. Shapes /\ Ties(j) /\ JobInv(j)
  BY TypesAreShapes DEF StoreInv
<1>2. Shapes'
  BY <1>1 DEF Shapes, Recorded, Kinds
<1>3. /\ row'[j] = "queued"
      /\ kind'[j] = k
  BY <1>1 DEF Shapes
<1>4. Ties(j)'
  BY <1>1, <1>3 DEF Ties, Recorded, Settled, Handled
<1>5. JobInv(j)'
  BY <1>1, <1>3 DEF JobInv, DoomIsFinal, StrangersAreYoung, HandledRow, InputWaits,
     FoundIsThere, DirectoryStays, ArtifactsStay, Recorded, Settled, Handled, Ties
<1>6. \A i \in Jobs \ {j} :
         /\ row'[i] = row[i] /\ kind'[i] = kind[i]
  BY <1>1 DEF Shapes
<1> QED
  BY <1>2, <1>4, <1>5, <1>6, OneJobStep

LEMMA SubmitKeeps == ASSUME StoreInv, NEW j \in Jobs, Submit(j) PROVE StoreInv'
<1>1. CASE row[j] = "placing"
  BY <1>1, SubmitPlacedKeeps
<1>2. CASE row[j] = "none"
  <2>1. PICK k \in May[j] \ {"devsim"} : kind' = [kind EXCEPT ![j] = k]
    BY <1>2 DEF Submit
  <2>2. k \in {"process", "project"}
    BY StoreAssumption DEF Kinds
  <2>3. /\ row' = [row EXCEPT ![j] = "queued"]
        /\ UNCHANGED <<tried, arts, exists, files, old, stage, found, up, clean, doomed,
                       known, mistaken, turn, kills>>
    BY DEF Submit, diskVars, workVars, cleanVars
  <2> QED
    BY <1>2, <2>1, <2>2, <2>3, SubmitNewKeeps
<1> QED
  BY <1>1, <1>2 DEF Submit

\* The run ends with nothing to record.
LEMMA ToMarking ==
    ASSUME StoreInv, NEW j \in Jobs,
           stage[j] \in {"claimed", "running", "recording"},
           stage' = [stage EXCEPT ![j] = "marking"],
           UNCHANGED <<row, kind, tried, arts, exists, files, old, found, up, clean,
           doomed, known, mistaken, turn, kills>>
    PROVE  StoreInv'
<1>1. Shapes /\ Ties(j) /\ JobInv(j)
  BY TypesAreShapes DEF StoreInv
<1>2. Shapes'
  BY <1>1 DEF Shapes, Stages
<1>3. /\ stage'[j] = "marking"
  BY <1>1 DEF Shapes
<1>4. Ties(j)'
  BY <1>1, <1>3 DEF Ties, Recorded, Settled, Handled
<1>5. JobInv(j)'
  BY <1>1, <1>3 DEF JobInv, DoomIsFinal, StrangersAreYoung, HandledRow, InputWaits,
     FoundIsThere, DirectoryStays, ArtifactsStay, Recorded, Settled, Handled, Ties
<1>6. \A i \in Jobs \ {j} :
         /\ stage'[i] = stage[i]
  BY <1>1 DEF Shapes
<1> QED
  BY <1>2, <1>4, <1>5, <1>6, OneJobStep

\* mkdir, and no structure in it.
LEMMA EmptyRun ==
    ASSUME StoreInv, NEW j \in Jobs,
           stage[j] = "claimed",
           stage' = [stage EXCEPT ![j] = "marking"],
           exists' = [exists EXCEPT ![j] = TRUE],
           UNCHANGED <<row, kind, tried, arts, files, old, found, up, clean, doomed,
           known, mistaken, turn, kills>>
    PROVE  StoreInv'
<1>1. Shapes /\ Ties(j) /\ JobInv(j)
  BY TypesAreShapes DEF StoreInv
<1>2. Shapes'
  BY <1>1 DEF Shapes, Stages
<1>3. /\ stage'[j] = "marking"
      /\ exists'[j] = TRUE
  BY <1>1 DEF Shapes
<1>4. Ties(j)'
  BY <1>1, <1>3 DEF Ties, Recorded, Settled, Handled
<1>5. JobInv(j)'
  BY <1>1, <1>3 DEF JobInv, DoomIsFinal, StrangersAreYoung, HandledRow, InputWaits,
     FoundIsThere, DirectoryStays, ArtifactsStay, Recorded, Settled, Handled, Ties
<1>6. \A i \in Jobs \ {j} :
         /\ stage'[i] = stage[i] /\ exists'[i] = exists[i]
  BY <1>1 DEF Shapes
<1> QED
  BY <1>2, <1>4, <1>5, <1>6, OneJobStep

\* mkdir, and the container starts.
LEMMA RunBegins ==
    ASSUME StoreInv, NEW j \in Jobs,
           stage[j] = "claimed",
           stage' = [stage EXCEPT ![j] = "running"],
           exists' = [exists EXCEPT ![j] = TRUE],
           files' = [files EXCEPT ![j] = files[j]],
           old' = [old EXCEPT ![j] = FALSE],
           UNCHANGED <<row, kind, tried, arts, found, up, clean, doomed, known, mistaken, turn,
           kills>>
    PROVE  StoreInv'
<1>1. Shapes /\ Ties(j) /\ JobInv(j)
  BY TypesAreShapes DEF StoreInv
<1>2. Shapes'
  BY <1>1 DEF Shapes, Stages
<1>3. /\ stage'[j] = "running"
      /\ exists'[j] = TRUE
      /\ files'[j] = files[j]
      /\ old'[j] = FALSE
  BY <1>1 DEF Shapes
<1>4. Ties(j)'
  BY <1>1, <1>3 DEF Ties, Recorded, Settled, Handled
<1>5. JobInv(j)'
  BY <1>1, <1>3 DEF JobInv, DoomIsFinal, StrangersAreYoung, HandledRow, InputWaits,
     FoundIsThere, DirectoryStays, ArtifactsStay, Recorded, Settled, Handled, Ties
<1>6. \A i \in Jobs \ {j} :
         /\ stage'[i] = stage[i] /\ exists'[i] = exists[i] /\ files'[i] = files[i] /\ old'[i] = old[i]
  BY <1>1 DEF Shapes
<1> QED
  BY <1>2, <1>4, <1>5, <1>6, OneJobStep

LEMMA BeginKeeps == ASSUME StoreInv, NEW j \in Jobs, Begin(j) PROVE StoreInv'
<1>1. /\ stage[j] = "claimed"
      /\ UNCHANGED <<row, kind, tried, arts, up, found, clean, doomed, known, mistaken,
                     turn, kills>>
  BY DEF Begin, rowVars, cleanVars
<1>2. CASE Goto(j, "marking") /\ UNCHANGED diskVars
  BY <1>1, <1>2, ToMarking DEF Goto, diskVars
<1>3. CASE /\ exists' = [exists EXCEPT ![j] = TRUE] /\ Goto(j, "marking")
           /\ UNCHANGED <<files, old>>
  BY <1>1, <1>3, EmptyRun DEF Goto
<1>4. CASE Write(j, files[j]) /\ Goto(j, "running")
  BY <1>1, <1>4, RunBegins DEF Goto, Write
<1> QED
  BY <1>2, <1>3, <1>4 DEF Begin

\* A device that could not be prepared leaves its input.
LEMMA NothingFound ==
    ASSUME StoreInv, NEW j \in Jobs,
           stage[j] = "running",
           stage' = [stage EXCEPT ![j] = "recording"],
           UNCHANGED <<row, kind, tried, arts, exists, files, old, found, up, clean,
           doomed, known, mistaken, turn, kills>>
    PROVE  StoreInv'
<1>1. Shapes /\ Ties(j) /\ JobInv(j)
  BY TypesAreShapes DEF StoreInv
<1>2. Shapes'
  BY <1>1 DEF Shapes, Stages
<1>3. /\ stage'[j] = "recording"
  BY <1>1 DEF Shapes
<1>4. Ties(j)'
  BY <1>1, <1>3 DEF Ties, Recorded, Settled, Handled
<1>5. JobInv(j)'
  BY <1>1, <1>3 DEF JobInv, DoomIsFinal, StrangersAreYoung, HandledRow, InputWaits,
     FoundIsThere, DirectoryStays, ArtifactsStay, Recorded, Settled, Handled, Ties
<1>6. \A i \in Jobs \ {j} :
         /\ stage'[i] = stage[i]
  BY <1>1 DEF Shapes
<1> QED
  BY <1>2, <1>4, <1>5, <1>6, OneJobStep

\* The results are collected, and everything else is pruned.
LEMMA ResultsFound ==
    ASSUME StoreInv, NEW j \in Jobs,
           stage[j] = "running",
           exists[j],
           NEW left \in SUBSET {"input", "result"},
           "result" \in files[j] => "result" \in left,
           "input" \notin left,
           stage' = [stage EXCEPT ![j] = "recording"],
           exists' = [exists EXCEPT ![j] = TRUE],
           files' = [files EXCEPT ![j] = left],
           old' = [old EXCEPT ![j] = FALSE],
           found' = [found EXCEPT ![j] = "result" \in left],
           UNCHANGED <<row, kind, tried, arts, up, clean, doomed, known, mistaken, turn, kills>>
    PROVE  StoreInv'
<1>1. Shapes /\ Ties(j) /\ JobInv(j)
  BY TypesAreShapes DEF StoreInv
<1>2. Shapes'
  BY <1>1 DEF Shapes, Stages
<1>3. /\ stage'[j] = "recording"
      /\ exists'[j] = TRUE
      /\ files'[j] = left
      /\ old'[j] = FALSE
      /\ found'[j] = ("result" \in left)
  BY <1>1 DEF Shapes
<1>4. Ties(j)'
  BY <1>1, <1>3 DEF Ties, Recorded, Settled, Handled
<1>5. JobInv(j)'
  BY <1>1, <1>3 DEF JobInv, DoomIsFinal, StrangersAreYoung, HandledRow, InputWaits,
     FoundIsThere, DirectoryStays, ArtifactsStay, Recorded, Settled, Handled, Ties
<1>6. \A i \in Jobs \ {j} :
         /\ stage'[i] = stage[i] /\ exists'[i] = exists[i] /\ files'[i] = files[i] /\ old'[i] = old[i]
         /\ found'[i] = found[i]
  BY <1>1 DEF Shapes
<1> QED
  BY <1>2, <1>4, <1>5, <1>6, OneJobStep

LEMMA FinishKeeps == ASSUME StoreInv, NEW j \in Jobs, Finish(j) PROVE StoreInv'
<1>1. /\ stage[j] = "running"
      /\ UNCHANGED <<row, kind, tried, arts, up, clean, doomed, known, mistaken, turn, kills>>
  BY DEF Finish, rowVars, cleanVars
<1>2. CASE Goto(j, "marking") /\ UNCHANGED <<diskVars, found>>
  BY <1>1, <1>2, ToMarking DEF Goto, diskVars
<1>3. CASE Goto(j, "recording") /\ UNCHANGED <<diskVars, found>>
  BY <1>1, <1>3, NothingFound DEF Goto, diskVars
<1>4. CASE /\ exists[j]
           /\ \E made \in {{}, {"result"}} :
                 LET left == (files[j] \ {"input"}) \cup made IN
                 /\ Write(j, left)
                 /\ found' = [found EXCEPT ![j] = "result" \in left]
           /\ Goto(j, "recording")
  <2>1. PICK made \in {{}, {"result"}} :
           /\ Write(j, (files[j] \ {"input"}) \cup made)
           /\ found' = [found EXCEPT ![j] = "result" \in (files[j] \ {"input"}) \cup made]
    BY <1>4
  <2>2. files[j] \subseteq {"input", "result"}
    BY TypesAreShapes DEF StoreInv, Shapes
  <2>3. PICK left \in SUBSET {"input", "result"} : left = (files[j] \ {"input"}) \cup made
    BY <2>1, <2>2
  <2>4. /\ "result" \in files[j] => "result" \in left
        /\ "input" \notin left
    BY <2>1, <2>3
  <2> QED
    BY <1>1, <1>4, <2>1, <2>3, <2>4, ResultsFound DEF Goto, Write
<1> QED
  BY <1>2, <1>3, <1>4 DEF Finish

\* stat has found every file.
LEMMA RecordingBegins ==
    ASSUME StoreInv, NEW j \in Jobs,
           stage[j] = "recording",
           found[j],
           exists[j],
           stage' = [stage EXCEPT ![j] = "inserting"],
           UNCHANGED <<row, kind, tried, arts, exists, files, old, found, up, clean,
           doomed, known, mistaken, turn, kills>>
    PROVE  StoreInv'
<1>1. Shapes /\ Ties(j) /\ JobInv(j)
  BY TypesAreShapes DEF StoreInv
<1>2. Shapes'
  BY <1>1 DEF Shapes, Stages
<1>3. /\ stage'[j] = "inserting"
  BY <1>1 DEF Shapes
<1>4. Ties(j)'
  BY <1>1, <1>3 DEF Ties, Recorded, Settled, Handled
<1>5. JobInv(j)'
  BY <1>1, <1>3 DEF JobInv, DoomIsFinal, StrangersAreYoung, HandledRow, InputWaits,
     FoundIsThere, DirectoryStays, ArtifactsStay, Recorded, Settled, Handled, Ties
<1>6. \A i \in Jobs \ {j} :
         /\ stage'[i] = stage[i]
  BY <1>1 DEF Shapes
<1> QED
  BY <1>2, <1>4, <1>5, <1>6, OneJobStep

\* The INSERT is committed.
LEMMA RowsInserted ==
    ASSUME StoreInv, NEW j \in Jobs,
           stage[j] = "inserting",
           row[j] # "gone",
           arts' = [arts EXCEPT ![j] = TRUE],
           stage' = [stage EXCEPT ![j] = "marking"],
           UNCHANGED <<row, kind, tried, exists, files, old, found, up, clean, doomed,
           known, mistaken, turn, kills>>
    PROVE  StoreInv'
<1>1. Shapes /\ Ties(j) /\ JobInv(j)
  BY TypesAreShapes DEF StoreInv
<1>2. Shapes'
  BY <1>1 DEF Shapes, Stages
<1>3. /\ arts'[j] = TRUE
      /\ stage'[j] = "marking"
  BY <1>1 DEF Shapes
<1>4. Ties(j)'
  BY <1>1, <1>3 DEF Ties, Recorded, Settled, Handled, JobInv, HandledRow
<1>5. JobInv(j)'
  BY <1>1, <1>3 DEF JobInv, DoomIsFinal, StrangersAreYoung, HandledRow, InputWaits,
     FoundIsThere, DirectoryStays, ArtifactsStay, Recorded, Settled, Handled, Ties
<1>6. \A i \in Jobs \ {j} :
         /\ arts'[i] = arts[i] /\ stage'[i] = stage[i]
  BY <1>1 DEF Shapes
<1> QED
  BY <1>2, <1>4, <1>5, <1>6, OneJobStep

\* mark_finished, and mark_finished of a job that has been cancelled.
LEMMA MarkedFinished ==
    ASSUME StoreInv, NEW j \in Jobs,
           stage[j] = "marking",
           row[j] = "running",
           row' = [row EXCEPT ![j] = "finished"],
           found' = [found EXCEPT ![j] = FALSE],
           stage' = [stage EXCEPT ![j] = "idle"],
           UNCHANGED <<kind, tried, arts, exists, files, old, up, clean, doomed, known, mistaken,
           turn, kills>>
    PROVE  StoreInv'
<1>1. Shapes /\ Ties(j) /\ JobInv(j)
  BY TypesAreShapes DEF StoreInv
<1>2. Shapes'
  BY <1>1 DEF Shapes, Stages, Recorded, Settled
<1>3. /\ row'[j] = "finished"
      /\ found'[j] = FALSE
      /\ stage'[j] = "idle"
  BY <1>1 DEF Shapes
<1>4. Ties(j)'
  BY <1>1, <1>3 DEF Ties, Recorded, Settled, Handled
<1>5. JobInv(j)'
  BY <1>1, <1>3 DEF JobInv, DoomIsFinal, StrangersAreYoung, HandledRow, InputWaits,
     FoundIsThere, DirectoryStays, ArtifactsStay, Recorded, Settled, Handled, Ties
<1>6. \A i \in Jobs \ {j} :
         /\ row'[i] = row[i] /\ found'[i] = found[i] /\ stage'[i] = stage[i]
  BY <1>1 DEF Shapes
<1> QED
  BY <1>2, <1>4, <1>5, <1>6, OneJobStep

LEMMA MarkedNothing ==
    ASSUME StoreInv, NEW j \in Jobs,
           stage[j] = "marking",
           found' = [found EXCEPT ![j] = FALSE],
           stage' = [stage EXCEPT ![j] = "idle"],
           UNCHANGED <<row, kind, tried, arts, exists, files, old, up, clean, doomed,
           known, mistaken, turn, kills>>
    PROVE  StoreInv'
<1>1. Shapes /\ Ties(j) /\ JobInv(j)
  BY TypesAreShapes DEF StoreInv
<1>2. Shapes'
  BY <1>1 DEF Shapes, Stages
<1>3. /\ found'[j] = FALSE
      /\ stage'[j] = "idle"
  BY <1>1 DEF Shapes
<1>4. Ties(j)'
  BY <1>1, <1>3 DEF Ties, Recorded, Settled, Handled
<1>5. JobInv(j)'
  BY <1>1, <1>3 DEF JobInv, DoomIsFinal, StrangersAreYoung, HandledRow, InputWaits,
     FoundIsThere, DirectoryStays, ArtifactsStay, Recorded, Settled, Handled, Ties
<1>6. \A i \in Jobs \ {j} :
         /\ found'[i] = found[i] /\ stage'[i] = stage[i]
  BY <1>1 DEF Shapes
<1> QED
  BY <1>2, <1>4, <1>5, <1>6, OneJobStep

LEMMA MarkKeeps == ASSUME StoreInv, NEW j \in Jobs, Mark(j) PROVE StoreInv'
<1>1. /\ stage[j] = "marking" /\ found' = [found EXCEPT ![j] = FALSE]
      /\ stage' = [stage EXCEPT ![j] = "idle"]
      /\ row' = IF row[j] = "running" THEN [row EXCEPT ![j] = "finished"] ELSE row
      /\ UNCHANGED <<kind, tried, arts, exists, files, old, up, clean, doomed, known, mistaken,
         turn, kills>>
  BY DEF Mark, Goto, diskVars, cleanVars
<1> QED
  BY <1>1, MarkedFinished, MarkedNothing

\* What is old and unknown to the sweep has no row, or belongs to nobody; what it
\* removes though it has read the row is no longer spoken of.
LEMMA OrphanRemoved ==
    ASSUME StoreInv, NEW j \in Jobs,
           clean["sweep"] = "orphans",
           InRow(j) \in known => j \in mistaken',
           mistaken \subseteq mistaken', mistaken' \in SUBSET Jobs,
           old[j],
           exists' = [exists EXCEPT ![j] = FALSE],
           files' = [files EXCEPT ![j] = {}],
           old' = [old EXCEPT ![j] = FALSE],
           UNCHANGED <<row, kind, tried, arts, stage, found, up, clean, doomed, known,
           turn, kills>>
    PROVE  StoreInv'
<1>1. Shapes /\ Ties(j) /\ JobInv(j)
  BY TypesAreShapes DEF StoreInv
<1>2. Shapes'
  BY <1>1 DEF Shapes
<1>3. /\ exists'[j] = FALSE
      /\ files'[j] = {}
      /\ old'[j] = FALSE
  BY <1>1 DEF Shapes
<1>4. Ties(j)'
  BY <1>1, <1>3 DEF Ties, Recorded, Settled, Handled
<1>5. JobInv(j)'
  BY <1>1, <1>3 DEF JobInv, DoomIsFinal, StrangersAreYoung, HandledRow, InputWaits,
     FoundIsThere, DirectoryStays, ArtifactsStay, Recorded, Settled, Handled, Ties
<1>6. \A i \in Jobs \ {j} :
         /\ exists'[i] = exists[i] /\ files'[i] = files[i] /\ old'[i] = old[i]
  BY <1>1 DEF Shapes
<1> QED
  BY <1>2, <1>4, <1>5, <1>6, OneJobStep

LEMMA RemoveOrphanKeeps == ASSUME StoreInv, NEW j \in Jobs, RemoveOrphan(j) PROVE StoreInv'
<1>1. /\ clean["sweep"] = "orphans" /\ old[j]
      /\ exists' = [exists EXCEPT ![j] = FALSE] /\ files' = [files EXCEPT ![j] = {}]
      /\ old' = [old EXCEPT ![j] = FALSE]
      /\ mistaken' = IF InRow(j) \in known THEN mistaken \cup {j} ELSE mistaken
      /\ UNCHANGED <<row, kind, tried, arts, stage, found, up, clean, doomed, known, turn, kills>>
  BY DEF RemoveOrphan, Orphan, Remove, rowVars, workVars
<1>2. mistaken \in SUBSET Jobs
  BY TypesAreShapes DEF StoreInv, Shapes
<1>3. /\ InRow(j) \in known => j \in mistaken'
      /\ mistaken \subseteq mistaken' /\ mistaken' \in SUBSET Jobs
  BY <1>1, <1>2
<1> QED
  BY <1>1, <1>3, OrphanRemoved

-----------------------------------------------------------------------------
\* Steps of the deleters and of the processes.

LEMMA AllJobsStep ==
    ASSUME Shapes', SweepNeedsWorker', \A i \in Jobs : Ties(i)' /\ JobInv(i)'
    PROVE  StoreInv'
BY DEF StoreInv, TypeOK, Shapes, SweepNeedsWorker, Ties, Stages

LEMMA DiesKeeps == ASSUME StoreInv, Dies PROVE StoreInv'
<1>1. /\ up' = FALSE /\ stage' = [j \in Jobs |-> "idle"] /\ found' = [j \in Jobs |-> FALSE]
      /\ clean' = [clean EXCEPT !["sweep"] = "free"]
      /\ doomed' = [doomed EXCEPT !["sweep"] = {}]
      /\ turn' = "idle" /\ known' = {}
      /\ UNCHANGED <<row, kind, tried, arts, exists, files, old, mistaken, kills>>
  BY DEF Dies, WorkerDown, rowVars, diskVars
<1>2. Shapes
  BY TypesAreShapes DEF StoreInv
<1>3. Shapes' /\ SweepNeedsWorker'
  BY <1>1, <1>2 DEF Shapes, SweepNeedsWorker, Stages, Deleters
<1>4. ASSUME NEW i \in Jobs PROVE Ties(i)' /\ JobInv(i)'
  <2>1. Ties(i) /\ JobInv(i)
    BY TypesAreShapes DEF StoreInv
  <2>2. stage'[i] = "idle" /\ found'[i] = FALSE
    BY <1>1
  <2>3. Ties(i)' /\ HandledRow(i)' /\ InputWaits(i)' /\ FoundIsThere(i)'
    BY <1>1, <2>1, <2>2 DEF Ties, JobInv, HandledRow, Handled, InputWaits, FoundIsThere
  <2>4. DirectoryStays(i)' /\ ArtifactsStay(i)'
    BY <1>1, <2>1, <2>2 DEF JobInv, DirectoryStays, ArtifactsStay
  <2>5. clean'["sweep"] = "free" /\ clean'["api"] = clean["api"]
        /\ doomed'["sweep"] = {} /\ doomed'["api"] = doomed["api"]
    BY <1>1, <1>2 DEF Shapes, Deleters
  <2>6. DoomIsFinal(i)' /\ StrangersAreYoung(i)'
    BY <1>1, <2>1, <2>5 DEF JobInv, DoomIsFinal, StrangersAreYoung, Deleters
  <2> QED
    BY <2>3, <2>4, <2>6 DEF JobInv
<1> QED
  BY <1>3, <1>4, AllJobsStep

LEMMA StatKeeps == ASSUME StoreInv, NEW j \in Jobs, Stat(j) PROVE StoreInv'
<1>1. CASE Dies
  BY <1>1, DiesKeeps
<1>2. CASE ~Dies
  <2>1. /\ stage[j] = "recording" /\ (~found[j] \/ exists[j])
        /\ stage' = [stage EXCEPT ![j] = IF found[j] THEN "inserting" ELSE "marking"]
        /\ UNCHANGED <<row, kind, tried, arts, exists, files, old, found, up, clean, doomed,
                       known, mistaken, turn, kills>>
    BY <1>2 DEF Stat, Goto, rowVars, diskVars, cleanVars
  <2> QED
    BY <2>1, RecordingBegins, ToMarking
<1> QED
  BY <1>1, <1>2

LEMMA InsertKeeps == ASSUME StoreInv, NEW j \in Jobs, Insert(j) PROVE StoreInv'
<1>1. CASE Dies
  BY <1>1, DiesKeeps
<1>2. CASE ~Dies
  <2>1. /\ stage[j] = "inserting" /\ row[j] # "gone" /\ arts' = [arts EXCEPT ![j] = TRUE]
        /\ stage' = [stage EXCEPT ![j] = "marking"]
        /\ UNCHANGED <<row, kind, tried, exists, files, old, found, up, clean, doomed,
           known, mistaken,
                       turn, kills>>
    BY <1>2 DEF Insert, Goto, diskVars, cleanVars
  <2> QED
    BY <2>1, RowsInserted
<1> QED
  BY <1>1, <1>2

\* requeue_stale takes back running rows, which have been tried.
LEMMA BootKeeps == ASSUME StoreInv, Boot PROVE StoreInv'
<1>1. /\ ~up /\ up' = TRUE
      /\ \E stale \in SUBSET {j \in Jobs : row[j] = "running"} :
            row' = [j \in Jobs |-> IF j \in stale THEN "queued" ELSE row[j]]
      /\ UNCHANGED <<kind, tried, arts, exists, files, old, stage, found, clean, doomed,
         turn, known, mistaken, kills>>
  BY DEF Boot, diskVars, cleanVars
<1>2. Shapes /\ SweepNeedsWorker
  BY TypesAreShapes DEF StoreInv
<1>3. Shapes'
  BY <1>1, <1>2 DEF Shapes, Recorded, Settled, Stages, Deleters
<1>4. SweepNeedsWorker'
  BY <1>1, <1>2 DEF SweepNeedsWorker, Shapes, Deleters
<1>5. ASSUME NEW i \in Jobs PROVE Ties(i)' /\ JobInv(i)'
  <2>1. Ties(i) /\ JobInv(i)
    BY TypesAreShapes DEF StoreInv
  <2>2. /\ row'[i] = row[i] \/ (row[i] = "running" /\ row'[i] = "queued")
    BY <1>1, <1>2 DEF Shapes
  <2>3. Ties(i)' /\ HandledRow(i)' /\ InputWaits(i)'
    BY <1>1, <1>2, <2>1, <2>2 DEF Ties, JobInv, HandledRow, Handled, InputWaits,
       Recorded, Settled, SweepNeedsWorker
  <2>4. FoundIsThere(i)' /\ DirectoryStays(i)' /\ ArtifactsStay(i)'
    BY <1>1, <1>2, <2>1, <2>2 DEF Ties, JobInv, HandledRow, Handled, FoundIsThere,
       DirectoryStays, ArtifactsStay,
       DoomIsFinal, Settled, SweepNeedsWorker
  <2>5. DoomIsFinal(i)' /\ StrangersAreYoung(i)'
    BY <1>1, <1>2, <2>1, <2>2 DEF Ties, JobInv, DoomIsFinal, StrangersAreYoung, Deleters,
       Settled, Recorded, SweepNeedsWorker
  <2> QED
    BY <2>3, <2>4, <2>5 DEF JobInv
<1> QED
  BY <1>3, <1>4, <1>5, AllJobsStep

\* Logout, the idle sweep and the quota sweep choose settled jobs.
LEMMA DoomKeeps ==
    ASSUME StoreInv,
           NEW c \in Deleters, NEW S \in SUBSET {j \in Jobs : Emptyable(j)},
           Doom(c, S, "rows"), UNCHANGED <<rowVars, diskVars, workVars, known, mistaken, kills>>,
           turn' \in {"idle", "quota", "orphans"}, up \/ turn' = turn, up \/ c = "api"
    PROVE  StoreInv'
<1>1. /\ clean[c] = "free" /\ clean' = [clean EXCEPT ![c] = "rows"]
      /\ doomed' = [doomed EXCEPT ![c] = S]
      /\ \A j \in S : row[j] \in Settled
      /\ turn' \in {"idle", "quota", "orphans"}
      /\ up \/ turn' = turn
      /\ up \/ c = "api"
      /\ UNCHANGED <<row, kind, tried, arts, exists, files, old, up, stage, found, known, mistaken,
         kills>>
  BY DEF Doom, Emptyable, rowVars, diskVars, workVars
<1>2. Shapes /\ SweepNeedsWorker
  BY TypesAreShapes DEF StoreInv
<1>3. Shapes'
  BY <1>1, <1>2 DEF Shapes, Recorded, Settled, Stages, Deleters
<1>4. SweepNeedsWorker'
  BY <1>1, <1>2 DEF SweepNeedsWorker, Shapes, Deleters
<1>5. ASSUME NEW i \in Jobs PROVE Ties(i)' /\ JobInv(i)'
  <2>1. Ties(i) /\ JobInv(i)
    BY TypesAreShapes DEF StoreInv
  <2>2. /\ \A d \in Deleters \ {c} : clean'[d] = clean[d] /\ doomed'[d] = doomed[d]
        /\ clean'[c] = "rows" /\ doomed'[c] = S
    BY <1>1, <1>2 DEF Shapes
  <2>3. Ties(i)' /\ HandledRow(i)' /\ InputWaits(i)'
    BY <1>1, <1>2, <2>1, <2>2 DEF Ties, JobInv, HandledRow, Handled, InputWaits,
       Recorded, Settled, SweepNeedsWorker
  <2>4. FoundIsThere(i)' /\ DirectoryStays(i)' /\ ArtifactsStay(i)'
    BY <1>1, <1>2, <2>1, <2>2 DEF Ties, JobInv, HandledRow, Handled, FoundIsThere,
       DirectoryStays, ArtifactsStay,
       DoomIsFinal, Settled, SweepNeedsWorker
  <2>5. DoomIsFinal(i)' /\ StrangersAreYoung(i)'
    BY <1>1, <1>2, <2>1, <2>2 DEF Ties, JobInv, DoomIsFinal, StrangersAreYoung, Deleters,
       Settled, Recorded, SweepNeedsWorker
  <2> QED
    BY <2>3, <2>4, <2>5 DEF JobInv
<1> QED
  BY <1>3, <1>4, <1>5, AllJobsStep

LEMMA LogoutKeeps == ASSUME StoreInv, Logout PROVE StoreInv'
<1>1. turn \in {"idle", "quota", "orphans"}
  BY DEF StoreInv, TypeOK
<1> QED
  BY <1>1, DoomKeeps DEF Logout, Deleters, cleanVars

\* The sweep passes on with nobody to empty.
LEMMA TurnKeeps ==
    ASSUME StoreInv, up, turn' \in {"idle", "quota", "orphans"},
           UNCHANGED <<rowVars, diskVars, workVars, clean, doomed, known, mistaken, kills>>
    PROVE  StoreInv'
<1>1. UNCHANGED <<row, kind, tried, arts, exists, files, old, up, stage, found, clean,
doomed,
                  known, mistaken, kills>>
  BY DEF rowVars, diskVars, workVars
<1>2. Shapes /\ SweepNeedsWorker
  BY TypesAreShapes DEF StoreInv
<1>3. Shapes' /\ SweepNeedsWorker'
  BY <1>1, <1>2 DEF Shapes, SweepNeedsWorker
<1>4. ASSUME NEW i \in Jobs PROVE Ties(i)' /\ JobInv(i)'
  <2>1. Ties(i) /\ JobInv(i)
    BY TypesAreShapes DEF StoreInv
  <2>2. Ties(i)' /\ HandledRow(i)' /\ InputWaits(i)' /\ FoundIsThere(i)'
    BY <1>1, <2>1 DEF Ties, JobInv, HandledRow, Handled, InputWaits, FoundIsThere
  <2>3. DirectoryStays(i)' /\ ArtifactsStay(i)' /\ DoomIsFinal(i)' /\ StrangersAreYoung(i)'
    BY <1>1, <2>1 DEF JobInv, DirectoryStays, ArtifactsStay, DoomIsFinal, StrangersAreYoung
  <2> QED
    BY <2>2, <2>3 DEF JobInv
<1> QED
  BY <1>3, <1>4, AllJobsStep

LEMMA SweepIdleKeeps == ASSUME StoreInv, SweepIdle PROVE StoreInv'
<1>1. /\ up /\ turn' = "quota"
      /\ UNCHANGED <<rowVars, diskVars, workVars, known, mistaken, kills>>
  BY DEF SweepIdle
<1>2. CASE UNCHANGED <<clean, doomed>>
  BY <1>1, <1>2, TurnKeeps
<1>3. CASE Doom("sweep", {j \in Jobs : Emptyable(j)}, "rows")
  BY <1>1, <1>3, DoomKeeps DEF Deleters
<1> QED
  BY <1>2, <1>3 DEF SweepIdle

LEMMA SweepQuotaKeeps == ASSUME StoreInv, SweepQuota PROVE StoreInv'
<1>1. /\ up /\ turn' = "orphans"
      /\ UNCHANGED <<rowVars, diskVars, workVars, known, mistaken, kills>>
  BY DEF SweepQuota
<1>2. CASE UNCHANGED <<clean, doomed>>
  BY <1>1, <1>2, TurnKeeps
<1>3. ASSUME NEW S \in SUBSET {j \in Jobs : Emptyable(j)}, Doom("sweep", S, "rows")
      PROVE  StoreInv'
  BY <1>1, <1>3, DoomKeeps DEF Deleters
<1>4. UNCHANGED <<clean, doomed>>
      \/ \E S \in SUBSET {j \in Jobs : Emptyable(j)} : Doom("sweep", S, "rows")
  BY DEF SweepQuota
<1> QED
  BY <1>2, <1>3, <1>4

\* Once its rows are deleted, nobody inserts rows for a settled job that is not cancelled.
LEMMA UnlistKeeps == ASSUME StoreInv, NEW c \in Deleters, Unlist(c) PROVE StoreInv'
<1>1. /\ clean[c] = "rows" /\ clean' = [clean EXCEPT ![c] = "dirs"]
      /\ arts' = [j \in Jobs |-> arts[j] /\ j \notin doomed[c]]
      /\ UNCHANGED <<row, kind, tried, exists, files, old, up, stage, found, doomed,
         turn, known, mistaken, kills>>
  BY DEF Unlist, DropRows, diskVars, workVars
<1>2. Shapes /\ SweepNeedsWorker
  BY TypesAreShapes DEF StoreInv
<1>3. Shapes'
  BY <1>1, <1>2 DEF Shapes, Recorded, Settled, Stages, Deleters
<1>4. SweepNeedsWorker'
  BY <1>1, <1>2 DEF SweepNeedsWorker, Shapes, Deleters
<1>5. ASSUME NEW i \in Jobs PROVE Ties(i)' /\ JobInv(i)'
  <2>1. Ties(i) /\ JobInv(i)
    BY TypesAreShapes DEF StoreInv
  <2>2. /\ arts'[i] <=> arts[i] /\ i \notin doomed[c]
        /\ \A d \in Deleters : clean'[d] = IF d = c THEN "dirs" ELSE clean[d]
    BY <1>1, <1>2 DEF Shapes
  <2>3. Ties(i)' /\ HandledRow(i)' /\ InputWaits(i)'
    BY <1>1, <1>2, <2>1, <2>2 DEF Ties, JobInv, HandledRow, Handled, InputWaits,
       Recorded, Settled, SweepNeedsWorker
  <2>4. FoundIsThere(i)' /\ DirectoryStays(i)' /\ ArtifactsStay(i)'
    BY <1>1, <1>2, <2>1, <2>2 DEF Ties, JobInv, HandledRow, Handled, FoundIsThere,
       DirectoryStays, ArtifactsStay,
       DoomIsFinal, Settled, SweepNeedsWorker
  <2>5. DoomIsFinal(i)' /\ StrangersAreYoung(i)'
    BY <1>1, <1>2, <2>1, <2>2 DEF Ties, JobInv, DoomIsFinal, StrangersAreYoung, Deleters,
       Settled, Recorded, SweepNeedsWorker
  <2> QED
    BY <2>3, <2>4, <2>5 DEF JobInv
<1> QED
  BY <1>3, <1>4, <1>5, AllJobsStep

\* One directory is removed, whose job is settled and lists nothing.
LEMMA EmptyOneKeeps ==
    ASSUME StoreInv, NEW c \in Deleters, NEW j \in doomed[c],
           clean[c] = "dirs", Remove(j), doomed' = [doomed EXCEPT ![c] = @ \ {j}],
           UNCHANGED <<clean, rowVars, workVars, turn, known, mistaken, kills>>
    PROVE  StoreInv'
<1>1. /\ exists' = [exists EXCEPT ![j] = FALSE]
      /\ files' = [files EXCEPT ![j] = {}]
      /\ old' = [old EXCEPT ![j] = FALSE]
      /\ doomed' = [doomed EXCEPT ![c] = @ \ {j}]
      /\ UNCHANGED <<row, kind, tried, arts, up, stage, found, clean, turn, known,
                     mistaken, kills>>
  BY DEF Remove, rowVars, workVars
<1>2. Shapes /\ SweepNeedsWorker
  BY TypesAreShapes DEF StoreInv
<1>3. Shapes'
  BY <1>1, <1>2 DEF Shapes, Recorded, Settled, Stages, Deleters
<1>4. SweepNeedsWorker'
  BY <1>1, <1>2 DEF SweepNeedsWorker, Shapes, Deleters
<1>5. ASSUME NEW i \in Jobs PROVE Ties(i)' /\ JobInv(i)'
  <2>1. Ties(i) /\ JobInv(i)
    BY TypesAreShapes DEF StoreInv
  <2>2. /\ i # j => exists'[i] = exists[i] /\ files'[i] = files[i] /\ old'[i] = old[i]
        /\ i = j => exists'[i] = FALSE /\ files'[i] = {} /\ old'[i] = FALSE
        /\ \A d \in Deleters : doomed'[d] \subseteq doomed[d]
    BY <1>1, <1>2 DEF Shapes
  <2>3. row[j] \in Settled \cup {"gone"}
    BY TypesAreShapes DEF StoreInv, Shapes, JobInv, DoomIsFinal
  <2>4. Ties(i)' /\ HandledRow(i)' /\ InputWaits(i)'
    BY <1>1, <1>2, <2>1, <2>2, <2>3 DEF Ties, JobInv, HandledRow, Handled, InputWaits,
       Recorded, Settled, SweepNeedsWorker
  <2>5. FoundIsThere(i)' /\ DirectoryStays(i)' /\ ArtifactsStay(i)'
    BY <1>1, <1>2, <2>1, <2>2 DEF Ties, JobInv, HandledRow, Handled, FoundIsThere,
       DirectoryStays, ArtifactsStay,
       DoomIsFinal, Settled, SweepNeedsWorker
  <2>6. DoomIsFinal(i)' /\ StrangersAreYoung(i)'
    BY <1>1, <1>2, <2>1, <2>2 DEF Ties, JobInv, DoomIsFinal, StrangersAreYoung, Deleters,
       Settled, Recorded, SweepNeedsWorker
  <2> QED
    BY <2>5, <2>6, <2>4 DEF JobInv
<1> QED
  BY <1>3, <1>4, <1>5, AllJobsStep

LEMMA EmptyAllKeeps ==
    ASSUME StoreInv, NEW c \in Deleters, clean[c] = "dirs", doomed[c] = {},
           clean' = [clean EXCEPT ![c] = "free"],
           UNCHANGED <<doomed, diskVars, rowVars, workVars, turn, known, mistaken, kills>>
    PROVE  StoreInv'
<1>1. /\ clean' = [clean EXCEPT ![c] = "free"]
      /\ UNCHANGED <<row, kind, tried, arts, exists, files, old, up, stage, found,
         doomed, turn, known, mistaken, kills>>
  BY DEF diskVars, rowVars, workVars
<1>2. Shapes /\ SweepNeedsWorker
  BY TypesAreShapes DEF StoreInv
<1>3. Shapes'
  BY <1>1, <1>2 DEF Shapes, Recorded, Settled, Stages, Deleters
<1>4. SweepNeedsWorker'
  BY <1>1, <1>2 DEF SweepNeedsWorker, Shapes, Deleters
<1>5. ASSUME NEW i \in Jobs PROVE Ties(i)' /\ JobInv(i)'
  <2>1. Ties(i) /\ JobInv(i)
    BY TypesAreShapes DEF StoreInv
  <2>2. /\ \A d \in Deleters : clean'[d] \in {clean[d], "free"}
    BY <1>1, <1>2 DEF Shapes
  <2>3. Ties(i)' /\ HandledRow(i)' /\ InputWaits(i)'
    BY <1>1, <1>2, <2>1, <2>2 DEF Ties, JobInv, HandledRow, Handled, InputWaits,
       Recorded, Settled, SweepNeedsWorker
  <2>4. FoundIsThere(i)' /\ DirectoryStays(i)' /\ ArtifactsStay(i)'
    BY <1>1, <1>2, <2>1, <2>2 DEF Ties, JobInv, HandledRow, Handled, FoundIsThere,
       DirectoryStays, ArtifactsStay,
       DoomIsFinal, Settled, SweepNeedsWorker
  <2>5. DoomIsFinal(i)' /\ StrangersAreYoung(i)'
    BY <1>1, <1>2, <2>1, <2>2 DEF Ties, JobInv, DoomIsFinal, StrangersAreYoung, Deleters,
       Settled, Recorded, SweepNeedsWorker
  <2> QED
    BY <2>3, <2>4, <2>5 DEF JobInv
<1> QED
  BY <1>3, <1>4, <1>5, AllJobsStep

LEMMA EmptyKeeps == ASSUME StoreInv, NEW c \in Deleters, Empty(c) PROVE StoreInv'
<1>1. /\ clean[c] = "dirs"
      /\ UNCHANGED <<rowVars, workVars, turn, known, mistaken, kills>>
  BY DEF Empty
<1>2. ASSUME NEW j \in doomed[c], Remove(j), doomed' = [doomed EXCEPT ![c] = @ \ {j}],
             UNCHANGED clean
      PROVE  StoreInv'
  BY <1>1, <1>2, EmptyOneKeeps
<1>3. CASE doomed[c] = {} /\ clean' = [clean EXCEPT ![c] = "free"] /\ UNCHANGED <<doomed,
diskVars>>
  BY <1>1, <1>3, EmptyAllKeeps
<1> QED
  BY <1>2, <1>3 DEF Empty

\* The rows of a project go with their artifacts, in one transaction.
LEMMA DeleteKeeps == ASSUME StoreInv, Delete PROVE StoreInv'
<1>1. /\ clean["api"] = "free" /\ clean' = [clean EXCEPT !["api"] = "dirs"]
      /\ doomed' = [doomed EXCEPT !["api"] = Owned]
      /\ row' = [j \in Jobs |-> IF j \in Owned THEN "gone" ELSE row[j]]
      /\ arts' = [j \in Jobs |-> arts[j] /\ j \notin Owned]
      /\ \A j \in Owned : row[j] \in Settled
      /\ UNCHANGED <<kind, tried, exists, files, old, up, stage, found, turn, known,
                     mistaken, kills>>
  BY DEF Delete, Doom, Cascade, diskVars, workVars
<1>2. Shapes /\ SweepNeedsWorker
  BY TypesAreShapes DEF StoreInv
<1>3. Shapes'
  BY <1>1, <1>2 DEF Shapes, Recorded, Settled, Stages, Deleters, Owned
<1>4. SweepNeedsWorker'
  BY <1>1, <1>2 DEF SweepNeedsWorker, Shapes, Deleters
<1>5. ASSUME NEW i \in Jobs PROVE Ties(i)' /\ JobInv(i)'
  <2>1. Ties(i) /\ JobInv(i)
    BY TypesAreShapes DEF StoreInv
  <2>2. /\ i \in Owned => kind[i] = "project" /\ row[i] \in Settled /\ row'[i] = "gone" /\ ~arts'[i]
        /\ i \notin Owned => row'[i] = row[i] /\ arts'[i] = arts[i]
        /\ clean'["api"] = "dirs" /\ clean'["sweep"] = clean["sweep"]
        /\ doomed'["api"] = Owned /\ doomed'["sweep"] = doomed["sweep"]
    BY <1>1, <1>2 DEF Shapes, Owned, Deleters
  <2>3. Ties(i)' /\ HandledRow(i)' /\ InputWaits(i)'
    BY <1>1, <1>2, <2>1, <2>2 DEF Ties, JobInv, HandledRow, Handled, InputWaits,
       Recorded, Settled, SweepNeedsWorker
  <2>4. FoundIsThere(i)' /\ DirectoryStays(i)' /\ ArtifactsStay(i)'
    BY <1>1, <1>2, <2>1, <2>2 DEF Ties, JobInv, HandledRow, Handled, FoundIsThere,
       DirectoryStays, ArtifactsStay,
       DoomIsFinal, Settled, SweepNeedsWorker
  <2>5. DoomIsFinal(i)' /\ StrangersAreYoung(i)'
    BY <1>1, <1>2, <2>1, <2>2 DEF Ties, JobInv, DoomIsFinal, StrangersAreYoung, Deleters,
       Settled, Recorded, SweepNeedsWorker
  <2> QED
    BY <2>3, <2>4, <2>5 DEF JobInv
<1> QED
  BY <1>3, <1>4, <1>5, AllJobsStep

LEMMA SweepOrphansKeeps == ASSUME StoreInv, SweepOrphans PROVE StoreInv'
<1>1. /\ up
      /\ clean' = [clean EXCEPT !["sweep"] = "orphans"]
      /\ known' = {InRow(j) : j \in {i \in Jobs : row[i] \in Recorded}}
      /\ UNCHANGED <<row, kind, tried, arts, exists, files, old, up, stage, found,
         doomed, turn, mistaken, kills>>
  BY DEF SweepOrphans, rowVars, diskVars, workVars
<1>2. Shapes /\ SweepNeedsWorker
  BY TypesAreShapes DEF StoreInv
<1>3. Shapes'
  BY <1>1, <1>2 DEF Shapes, Recorded, Settled, Stages, Deleters
<1>4. SweepNeedsWorker'
  BY <1>1, <1>2 DEF SweepNeedsWorker, Shapes, Deleters
<1>5. ASSUME NEW i \in Jobs PROVE Ties(i)' /\ JobInv(i)'
  <2>1. Ties(i) /\ JobInv(i)
    BY TypesAreShapes DEF StoreInv
  <2>2. /\ clean'["api"] = clean["api"] /\ clean'["sweep"] = "orphans"
        /\ row[i] \in Recorded => InRow(i) \in known'
    BY <1>1, <1>2 DEF Shapes, Deleters
  <2>3. Ties(i)' /\ HandledRow(i)' /\ InputWaits(i)'
    BY <1>1, <1>2, <2>1, <2>2 DEF Ties, JobInv, HandledRow, Handled, InputWaits,
       Recorded, Settled, SweepNeedsWorker
  <2>4. FoundIsThere(i)' /\ DirectoryStays(i)' /\ ArtifactsStay(i)'
    BY <1>1, <1>2, <2>1, <2>2 DEF Ties, JobInv, HandledRow, Handled, FoundIsThere,
       DirectoryStays, ArtifactsStay,
       DoomIsFinal, Settled, SweepNeedsWorker
  <2>5. DoomIsFinal(i)' /\ StrangersAreYoung(i)'
    BY <1>1, <1>2, <2>1, <2>2 DEF Ties, JobInv, DoomIsFinal, StrangersAreYoung, Deleters,
       Settled, Recorded, SweepNeedsWorker
  <2> QED
    BY <2>3, <2>4, <2>5 DEF JobInv
<1> QED
  BY <1>3, <1>4, <1>5, AllJobsStep

LEMMA EndCycleKeeps == ASSUME StoreInv, EndCycle PROVE StoreInv'
<1>1. /\ clean' = [clean EXCEPT !["sweep"] = "free"]
      /\ turn' = "idle"
      /\ known' = {}
      /\ UNCHANGED <<row, kind, tried, arts, exists, files, old, up, stage, found,
         doomed, mistaken, kills>>
  BY DEF EndCycle, rowVars, diskVars, workVars
<1>2. Shapes /\ SweepNeedsWorker
  BY TypesAreShapes DEF StoreInv
<1>3. Shapes'
  BY <1>1, <1>2 DEF Shapes, Recorded, Settled, Stages, Deleters
<1>4. SweepNeedsWorker'
  BY <1>1, <1>2 DEF SweepNeedsWorker, Shapes, Deleters
<1>5. ASSUME NEW i \in Jobs PROVE Ties(i)' /\ JobInv(i)'
  <2>1. Ties(i) /\ JobInv(i)
    BY TypesAreShapes DEF StoreInv
  <2>2. /\ clean'["api"] = clean["api"] /\ clean'["sweep"] = "free"
    BY <1>1, <1>2 DEF Shapes, Deleters
  <2>3. Ties(i)' /\ HandledRow(i)' /\ InputWaits(i)'
    BY <1>1, <1>2, <2>1, <2>2 DEF Ties, JobInv, HandledRow, Handled, InputWaits,
       Recorded, Settled, SweepNeedsWorker
  <2>4. FoundIsThere(i)' /\ DirectoryStays(i)' /\ ArtifactsStay(i)'
    BY <1>1, <1>2, <2>1, <2>2 DEF Ties, JobInv, HandledRow, Handled, FoundIsThere,
       DirectoryStays, ArtifactsStay,
       DoomIsFinal, Settled, SweepNeedsWorker
  <2>5. DoomIsFinal(i)' /\ StrangersAreYoung(i)'
    BY <1>1, <1>2, <2>1, <2>2 DEF Ties, JobInv, DoomIsFinal, StrangersAreYoung, Deleters,
       Settled, Recorded, SweepNeedsWorker
  <2> QED
    BY <2>3, <2>4, <2>5 DEF JobInv
<1> QED
  BY <1>3, <1>4, <1>5, AllJobsStep

\* A container that is left behind only adds to a directory.
LEMMA KillWorkerKeeps == ASSUME StoreInv, KillWorker PROVE StoreInv'
<1>1. /\ kills < MaxKills /\ kills' = kills + 1
      /\ up' = FALSE /\ stage' = [j \in Jobs |-> "idle"]
      /\ found' = [j \in Jobs |-> FALSE]
      /\ clean' = [clean EXCEPT !["sweep"] = "free"]
      /\ doomed' = [doomed EXCEPT !["sweep"] = {}]
      /\ turn' = "idle" /\ known' = {}
      /\ \E wrote \in SUBSET {j \in Jobs : stage[j] = "running" /\ exists[j]} :
            files' = [j \in Jobs |-> IF j \in wrote THEN files[j] \cup {"result"} ELSE files[j]]
      /\ UNCHANGED <<row, kind, tried, arts, exists, old, mistaken>>
  BY DEF KillWorker, WorkerDown, rowVars
<1>2. Shapes /\ SweepNeedsWorker
  BY TypesAreShapes DEF StoreInv
<1>3. Shapes'
  <2>1. kills' \in 0..MaxKills
    BY <1>1, <1>2, StoreAssumption DEF Shapes
  <2>2. files' \in [Jobs -> SUBSET {"input", "result"}]
    BY <1>1, <1>2 DEF Shapes
  <2>3. clean' \in [Deleters -> {"free", "rows", "dirs", "orphans"}]
        /\ doomed' \in [Deleters -> SUBSET Jobs]
    BY <1>1, <1>2 DEF Shapes, Deleters
  <2>4. stage' \in [Jobs -> Stages] /\ found' \in [Jobs -> BOOLEAN]
    BY <1>1 DEF Stages
  <2> QED
    BY <1>1, <1>2, <2>1, <2>2, <2>3, <2>4 DEF Shapes
<1>4. SweepNeedsWorker'
  BY <1>1, <1>2 DEF SweepNeedsWorker, Shapes, Deleters
<1>5. ASSUME NEW i \in Jobs PROVE Ties(i)' /\ JobInv(i)'
  <2>1. Ties(i) /\ JobInv(i)
    BY TypesAreShapes DEF StoreInv
  <2>2. /\ files[i] \subseteq files'[i] /\ (exists[i] \/ files'[i] = files[i])
        /\ stage'[i] = "idle" /\ found'[i] = FALSE
        /\ clean'["api"] = clean["api"] /\ clean'["sweep"] = "free"
        /\ doomed'["api"] = doomed["api"] /\ doomed'["sweep"] = {}
    BY <1>1, <1>2 DEF Shapes, Deleters
  <2>3. Ties(i)' /\ HandledRow(i)' /\ InputWaits(i)'
    BY <1>1, <1>2, <2>1, <2>2 DEF Ties, JobInv, HandledRow, Handled, InputWaits,
       Recorded, Settled, SweepNeedsWorker
  <2>4. FoundIsThere(i)' /\ DirectoryStays(i)' /\ ArtifactsStay(i)'
    BY <1>1, <1>2, <2>1, <2>2 DEF Ties, JobInv, HandledRow, Handled, FoundIsThere,
       DirectoryStays, ArtifactsStay,
       DoomIsFinal, Settled, SweepNeedsWorker
  <2>5. DoomIsFinal(i)' /\ StrangersAreYoung(i)'
    BY <1>1, <1>2, <2>1, <2>2 DEF Ties, JobInv, DoomIsFinal, StrangersAreYoung, Deleters,
       Settled, Recorded, SweepNeedsWorker
  <2> QED
    BY <2>3, <2>4, <2>5 DEF JobInv
<1> QED
  BY <1>3, <1>4, <1>5, AllJobsStep

\* A directory without a row is left behind, for the orphan sweep.
LEMMA KillApiKeeps == ASSUME StoreInv, KillApi PROVE StoreInv'
<1>1. /\ kills < MaxKills /\ kills' = kills + 1
      /\ clean' = [clean EXCEPT !["api"] = "free"]
      /\ doomed' = [doomed EXCEPT !["api"] = {}]
      /\ row' = [j \in Jobs |-> IF row[j] = "placing" THEN "lost" ELSE row[j]]
      /\ UNCHANGED <<kind, tried, arts, exists, files, old, up, stage, found, turn,
                     known, mistaken>>
  BY DEF KillApi, diskVars, workVars
<1>2. Shapes /\ SweepNeedsWorker
  BY TypesAreShapes DEF StoreInv
<1>3. Shapes'
  <2>1. kills' \in 0..MaxKills
    BY <1>1, <1>2, StoreAssumption DEF Shapes
  <2>2. clean' \in [Deleters -> {"free", "rows", "dirs", "orphans"}]
        /\ doomed' \in [Deleters -> SUBSET Jobs]
    BY <1>1, <1>2 DEF Shapes, Deleters
  <2>3. row' \in [Jobs -> Recorded \cup {"none", "placing", "lost", "gone"}]
    BY <1>1, <1>2 DEF Shapes
  <2> QED
    BY <1>1, <1>2, <2>1, <2>2, <2>3 DEF Shapes
<1>4. SweepNeedsWorker'
  BY <1>1, <1>2 DEF SweepNeedsWorker, Shapes, Deleters
<1>5. ASSUME NEW i \in Jobs PROVE Ties(i)' /\ JobInv(i)'
  <2>1. Ties(i) /\ JobInv(i)
    BY TypesAreShapes DEF StoreInv
  <2>2. /\ row'[i] = IF row[i] = "placing" THEN "lost" ELSE row[i]
        /\ clean'["sweep"] = clean["sweep"] /\ clean'["api"] = "free"
        /\ doomed'["sweep"] = doomed["sweep"] /\ doomed'["api"] = {}
    BY <1>1, <1>2 DEF Shapes, Deleters
  <2>3. Ties(i)' /\ HandledRow(i)' /\ InputWaits(i)'
    BY <1>1, <1>2, <2>1, <2>2 DEF Ties, JobInv, HandledRow, Handled, InputWaits,
       Recorded, Settled, SweepNeedsWorker
  <2>4. FoundIsThere(i)' /\ DirectoryStays(i)' /\ ArtifactsStay(i)'
    BY <1>1, <1>2, <2>1, <2>2 DEF Ties, JobInv, HandledRow, Handled, FoundIsThere,
       DirectoryStays, ArtifactsStay,
       DoomIsFinal, Settled, SweepNeedsWorker
  <2>5. DoomIsFinal(i)' /\ StrangersAreYoung(i)'
    BY <1>1, <1>2, <2>1, <2>2 DEF Ties, JobInv, DoomIsFinal, StrangersAreYoung, Deleters,
       Settled, Recorded, SweepNeedsWorker
  <2> QED
    BY <2>3, <2>4, <2>5 DEF JobInv
<1> QED
  BY <1>3, <1>4, <1>5, AllJobsStep

LEMMA StutterKeeps == ASSUME StoreInv, UNCHANGED vars PROVE StoreInv'
<1>1. UNCHANGED <<row, kind, tried, arts, exists, files, old, up, stage, found, clean,
doomed,
                  turn, known, mistaken, kills>>
  BY DEF vars, rowVars, diskVars, workVars, cleanVars
<1>2. TypeOK'
  BY <1>1 DEF StoreInv, TypeOK, Handled
<1>3. ASSUME NEW i \in Jobs PROVE JobInv(i)'
  <2>1. JobInv(i)
    BY DEF StoreInv
  <2>2. DoomIsFinal(i)' /\ StrangersAreYoung(i)' /\ HandledRow(i)' /\ InputWaits(i)'
    BY <1>1, <2>1 DEF JobInv, DoomIsFinal, StrangersAreYoung, HandledRow, InputWaits,
       Handled
  <2>3. FoundIsThere(i)' /\ DirectoryStays(i)' /\ ArtifactsStay(i)'
    BY <1>1, <2>1 DEF JobInv, FoundIsThere, DirectoryStays, ArtifactsStay
  <2> QED
    BY <2>2, <2>3 DEF JobInv
<1> QED
  BY <1>2, <1>3 DEF StoreInv

-----------------------------------------------------------------------------
LEMMA NextStore == StoreInv /\ [Next]_vars => StoreInv'
<1> SUFFICES ASSUME StoreInv, [Next]_vars PROVE StoreInv'
  OBVIOUS
<1>1. ASSUME NEW j \in Jobs, Place(j) \/ Submit(j) \/ Cancel(j) \/ Ages(j) PROVE StoreInv'
  BY <1>1, PlaceKeeps, SubmitKeeps, CancelKeeps, AgesKeeps
<1>2. ASSUME NEW j \in Jobs, LoopStep(j) PROVE StoreInv'
  BY <1>2, ClaimKeeps, BeginKeeps, FinishKeeps, StatKeeps, InsertKeeps,
     MarkKeeps DEF LoopStep
<1>3. ASSUME NEW j \in Jobs, RemoveOrphan(j) PROVE StoreInv'
  BY <1>3, RemoveOrphanKeeps
<1>4. ASSUME NEW c \in Deleters, Unlist(c) \/ Empty(c) PROVE StoreInv'
  BY <1>4, UnlistKeeps, EmptyKeeps
<1>5. CASE Logout \/ Delete
  BY <1>5, LogoutKeeps, DeleteKeeps
<1>6. CASE SweepIdle \/ SweepQuota \/ SweepOrphans \/ EndCycle
  BY <1>6, SweepIdleKeeps, SweepQuotaKeeps, SweepOrphansKeeps, EndCycleKeeps
<1>7. CASE Boot \/ KillWorker \/ KillApi
  BY <1>7, BootKeeps, KillWorkerKeeps, KillApiKeeps
<1>8. CASE UNCHANGED vars
  BY <1>8, StutterKeeps
<1> QED
  BY <1>1, <1>2, <1>3, <1>4, <1>5, <1>6, <1>7, <1>8 DEF Next

\* The invariant of the module: the types, and per job what the writers and the
\* deleters of its directory leave to each other.
THEOREM StoreIsSound == Spec => []StoreInv
BY InitStore, NextStore, PTL DEF Spec

\* The types of the store, for every set of jobs and number of crashes.
THEOREM TypesHold == Spec => []TypeOK
<1>1. StoreInv => TypeOK
  BY DEF StoreInv
<1> QED
  BY <1>1, StoreIsSound, PTL

\* Where the root of the jobs is configured in the spelling resolve() gives it, the
\* orphan sweep recognises the directories of the rows it has read, and removes
\* none of them.
THEOREM SweepKnowsItsOwn == ASSUME RootResolved PROVE Spec => []OnlyOrphansGo
<1>1. Init => OnlyOrphansGo
  BY DEF Init, OnlyOrphansGo
<1>2. OnlyOrphansGo /\ [Next]_vars => OnlyOrphansGo'
  <2> SUFFICES ASSUME OnlyOrphansGo, [Next]_vars PROVE OnlyOrphansGo'
    OBVIOUS
  <2>1. ASSUME NEW j \in Jobs, RemoveOrphan(j) PROVE OnlyOrphansGo'
    <3>1. OnDisk(j) = InRow(j)
      BY DEF OnDisk, InRow
    <3> QED
      BY <2>1, <3>1 DEF RemoveOrphan, Orphan, OnlyOrphansGo
  <2>2. ASSUME NEW j \in Jobs, Place(j) \/ Submit(j) \/ Cancel(j) \/ Ages(j) PROVE OnlyOrphansGo'
    BY <2>2 DEF Place, Submit, Cancel, Ages, cleanVars, OnlyOrphansGo
  <2>3. ASSUME NEW j \in Jobs, LoopStep(j) PROVE OnlyOrphansGo'
    BY <2>3 DEF LoopStep, Claim, Begin, Finish, Stat, Insert, Mark, Dies, WorkerDown,
       cleanVars, OnlyOrphansGo
  <2>4. ASSUME NEW c \in Deleters, Unlist(c) \/ Empty(c) PROVE OnlyOrphansGo'
    BY <2>4 DEF Unlist, Empty, OnlyOrphansGo
  <2>5. CASE Logout \/ Delete \/ SweepIdle \/ SweepQuota \/ SweepOrphans \/ EndCycle
    BY <2>5 DEF Logout, Delete, SweepIdle, SweepQuota, SweepOrphans, EndCycle, OnlyOrphansGo
  <2>6. CASE Boot \/ KillWorker \/ KillApi
    BY <2>6 DEF Boot, KillWorker, KillApi, WorkerDown, cleanVars, OnlyOrphansGo
  <2>7. CASE UNCHANGED vars
    BY <2>7 DEF vars, cleanVars, OnlyOrphansGo
  <2> QED
    BY <2>1, <2>2, <2>3, <2>4, <2>5, <2>6, <2>7 DEF Next
<1> QED
  BY <1>1, <1>2, PTL DEF Spec

\* _record inserts rows after the stat of the files, and the deleters take the
\* rows before the directory: what a job lists is there, unless the job was
\* cancelled or the orphan sweep did not recognise the directory of its row.
THEOREM ListedIsThere == Spec => []ArtifactsAreThere
<1>1. StoreInv => ArtifactsAreThere
  BY DEF StoreInv, JobInv, ArtifactsStay, ArtifactsAreThere
<1> QED
  BY <1>1, StoreIsSound, PTL

\* The structure of a device simulation, placed before there is a row, waits for
\* the first run of the job, unless the orphan sweep did not recognise the
\* directory of the row.
THEOREM WaitingHasInput == Spec => []FirstRunHasInput
<1>1. StoreInv => FirstRunHasInput
  BY DEF StoreInv, JobInv, InputWaits, FirstRunHasInput, Devsim
<1> QED
  BY <1>1, StoreIsSound, PTL

\* No deleter takes the working directory from a job that runs, unless it is the
\* orphan sweep and did not recognise it.
THEOREM RunningHasDirectory == Spec => []RunKeepsDirectory
<1>1. StoreInv => RunKeepsDirectory
  BY DEF StoreInv, JobInv, DirectoryStays, RunKeepsDirectory
<1> QED
  BY <1>1, StoreIsSound, PTL

\* Where the root is so configured, the three hold of every job: what a job that
\* was not cancelled lists can be opened, what waits has its input, and what runs
\* its directory.
THEOREM NothingIsLost ==
    ASSUME RootResolved
    PROVE  Spec => [](\A j \in Jobs :
               /\ arts[j] /\ row[j] # "cancelled" => "result" \in files[j]
               /\ kind[j] = "devsim" /\ row[j] = "queued" /\ ~tried[j] => "input" \in files[j]
               /\ row[j] = "running" /\ stage[j] \in {"running", "recording", "inserting"}
                      => exists[j])
<1>1. OnlyOrphansGo /\ StoreInv =>
          \A j \in Jobs :
               /\ arts[j] /\ row[j] # "cancelled" => "result" \in files[j]
               /\ kind[j] = "devsim" /\ row[j] = "queued" /\ ~tried[j] => "input" \in files[j]
               /\ row[j] = "running" /\ stage[j] \in {"running", "recording", "inserting"}
                      => exists[j]
  BY DEF OnlyOrphansGo, StoreInv, JobInv, ArtifactsStay, InputWaits, DirectoryStays
<1> QED
  BY <1>1, StoreIsSound, SweepKnowsItsOwn, PTL

=============================================================================
