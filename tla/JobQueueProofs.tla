--------------------------- MODULE JobQueueProofs ---------------------------
(***************************************************************************)
(* Theorems about JobQueue, for every finite set of jobs and loops, every  *)
(* assignment of loops to processes, every set of cancel requests and      *)
(* every cap.  The argument is the inductive invariant IInv: TypeStep,     *)
(* TakenStep, LossStep and AnswerStep show that a step preserves its       *)
(* parts, one proof step per action.                                       *)
(***************************************************************************)
EXTENDS JobQueue, TLAPS, FiniteSetTheorems

USE QueueAssumption DEF NoJob, Live, Settled, Verdicts, Racing, Executing,
    jobVars, loopVars, clientVars, otherVars

-----------------------------------------------------------------------------
(* Types.                                                                  *)

\* What the types say of one job.
LEMMA JobTyped ==
    ASSUME TypeOK, NEW j \in Jobs
    PROVE  /\ status[j] \in Live \cup Settled \cup {"none", "gone"}
           /\ box[j] \in {"none", "attached", "orphan"}
<1>1. status \in [Jobs -> Live \cup Settled \cup {"none", "gone"}]
  BY DEF TypeOK
<1>2. box \in [Jobs -> {"none", "attached", "orphan"}]
  BY DEF TypeOK
<1>. QED  BY <1>1, <1>2

\* The initial state satisfies every part of the invariant.
LEMMA InitHolds == Init => IInv
<1>. SUFFICES ASSUME Init PROVE IInv
  OBVIOUS
<1>1. TypeOK /\ DownTogether
  BY DEF Init, TypeOK, DownTogether
<1>2. \A j \in Jobs, l \in Loops : ~Holds(l, j)
  BY DEF Init, Holds
<1>3. Running = {}
  BY DEF Init, Running
<1>4. AnswerOnce /\ CancelAnswer
  BY DEF Init, AnswerOnce, CancelAnswer
<1>5. LossPerDeath
  <2>1. Stranded = {} /\ deaths = 0
    BY <1>3 DEF Init, Stranded
  <2>. QED  BY <2>1, FS_EmptySet DEF LossPerDeath
<1>. QED
  BY <1>1, <1>2, <1>4, <1>5 DEF IInv, HeldIsTaken, NoDuplicateRun

\* A loop that is over takes its process along if it was the last.
LEMMA LoopGoes ==
    ASSUME TypeOK, DownTogether, NEW l \in Loops, Drop({l}), LastOut(l)
    PROVE  /\ proc' \in [Workers -> {"down", "up", "stopping", "dying"}]
           /\ DownTogether'
<1>. USE DEF TypeOK, DownTogether, Drop, LastOut, LoopsOf
<1>1. proc' \in [Workers -> {"down", "up", "stopping", "dying"}]
  OBVIOUS
<1>2. \A m \in Loops : pc'[m] = IF m = l THEN "down" ELSE pc[m]
  OBVIOUS
<1>3. ASSUME NEW m \in Loops
      PROVE  /\ proc'[Home[m]] = "down" => pc'[m] = "down"
             /\ proc'[Home[m]] = "dying" => pc'[m] \in {"down", "running"}
  <2>1. CASE m = l
    BY <1>2, <2>1
  <2>2. CASE m # l /\ Home[m] = Home[l]
    <3>1. CASE \A k \in LoopsOf(Home[l]) \ {l} : pc[k] = "down"
      BY <1>2, <2>2, <3>1
    <3>2. CASE ~(\A k \in LoopsOf(Home[l]) \ {l} : pc[k] = "down")
      <4>1. proc' = proc
        BY <3>2
      <4>. QED  BY <1>2, <2>2, <4>1
    <3>. QED  BY <3>1, <3>2
  <2>3. CASE m # l /\ Home[m] # Home[l]
    <3>1. proc'[Home[m]] = proc[Home[m]]
      BY <2>3
    <3>. QED  BY <1>2, <2>3, <3>1
  <2>. QED  BY <2>1, <2>2, <2>3
<1>. QED  BY <1>1, <1>3

\* Every step keeps the types, and keeps the loops of a dead process down.
LEMMA TypeStep ==
    ASSUME TypeOK, DownTogether, [Next]_vars
    PROVE  TypeOK' /\ DownTogether'
<1>. USE DEF TypeOK, DownTogether
<1>1. ASSUME NEW j \in Jobs, Submit(j) PROVE TypeOK' /\ DownTogether'
  BY <1>1 DEF Submit
<1>2. ASSUME NEW j \in Jobs, BoxEnds(j) PROVE TypeOK' /\ DownTogether'
  BY <1>2 DEF BoxEnds
<1>3. ASSUME NEW j \in Jobs, CutoffPasses(j) PROVE TypeOK' /\ DownTogether'
  BY <1>3 DEF CutoffPasses
<1>4. ASSUME NEW l \in Loops, Gate(l) PROVE TypeOK' /\ DownTogether'
  BY <1>4 DEF Gate
<1>5. ASSUME NEW l \in Loops, Select(l) PROVE TypeOK' /\ DownTogether'
  BY <1>5 DEF Select, Queued
<1>6. ASSUME NEW l \in Loops, Claim(l) PROVE TypeOK' /\ DownTogether'
  <2>1. CASE Claimable(held[l])
    <3>1. pc[l] = "chosen" /\ held[l] \in Jobs
      BY <1>6 DEF Claim
    <3>2. /\ status' = [status EXCEPT ![held[l]] = "running"]
          /\ stale' = [stale EXCEPT ![held[l]] = FALSE]
          /\ pc' = [pc EXCEPT ![l] = "claimed"]
          /\ UNCHANGED <<held, verdict, box, proc, clientVars, otherVars>>
      BY <1>6, <2>1 DEF Claim
    <3>. QED  BY <3>1, <3>2
  <2>2. CASE ~Claimable(held[l])
    BY <1>6, <2>2 DEF Claim, Release
  <2>. QED  BY <2>1, <2>2
<1>7. ASSUME NEW l \in Loops, Fetch(l) PROVE TypeOK' /\ DownTogether'
  BY <1>7 DEF Fetch, Release
<1>8. ASSUME NEW l \in Loops, Launch(l) PROVE TypeOK' /\ DownTogether'
  BY <1>8 DEF Launch, Release
<1>9. ASSUME NEW l \in Loops, Collect(l) PROVE TypeOK' /\ DownTogether'
  BY <1>9 DEF Collect
<1>10. ASSUME NEW l \in Loops, Mark(l) PROVE TypeOK' /\ DownTogether'
  BY <1>10 DEF Mark, Release, Outcome, Markable
<1>11. ASSUME NEW l \in Loops, Leave(l) PROVE TypeOK' /\ DownTogether'
  <2>1. proc' \in [Workers -> {"down", "up", "stopping", "dying"}] /\ DownTogether'
    BY <1>11, LoopGoes DEF Leave
  <2>. QED  BY <1>11, <2>1 DEF Leave, Drop
<1>12. ASSUME NEW w \in Workers, Boot(w) PROVE TypeOK' /\ DownTogether'
  BY <1>12 DEF Boot, Recoverable
<1>13. ASSUME NEW w \in Workers, Stop(w) PROVE TypeOK' /\ DownTogether'
  BY <1>13 DEF Stop
<1>14. ASSUME NEW w \in Workers, Kill(w) PROVE TypeOK' /\ DownTogether'
  BY <1>14 DEF Kill, Drop, LoopsOf
<1>15. ASSUME NEW c \in Clients, NEW j \in Jobs, CancelRead(c, j)
       PROVE  TypeOK' /\ DownTogether'
  BY <1>15 DEF CancelRead, Answer
<1>16. ASSUME NEW c \in Clients, CancelUpdate(c) PROVE TypeOK' /\ DownTogether'
  BY <1>16 DEF CancelUpdate, Answer, Cancellable
<1>17. ASSUME NEW c \in Clients, CancelKill(c) PROVE TypeOK' /\ DownTogether'
  <2>1. target[c] \in Jobs
    BY <1>17 DEF CancelKill
  <2>2. PICK left \in {"none", box[target[c]]} :
           box' = [box EXCEPT ![target[c]] = left]
    BY <1>17, <2>1 DEF CancelKill
  <2>3. left \in {"none", "attached", "orphan"}
    <3>1. box[target[c]] \in {"none", "attached", "orphan"}
      BY <2>1, JobTyped
    <3>. QED  BY <2>2, <3>1
  <2>4. box' \in [Jobs -> {"none", "attached", "orphan"}]
    BY <2>2, <2>3
  <2>5. call' = [call EXCEPT ![c] = "done"] /\ UNCHANGED <<target, before, reply>>
    BY <1>17 DEF CancelKill
  <2>6. /\ call' \in [Clients -> {"none", "read", "kill", "done"}]
        /\ \A d \in Clients : call'[d] # "none" => target'[d] # NoJob
    BY <2>1, <2>5
  <2>7. UNCHANGED <<status, stale, loopVars, otherVars>>
    BY <1>17 DEF CancelKill
  <2>8. TypeOK'
    BY <2>4, <2>5, <2>6, <2>7
  <2>9. DownTogether'
    BY <2>7 DEF DownTogether
  <2>. QED  BY <2>8, <2>9
<1>18. ASSUME DeleteCheck PROVE TypeOK' /\ DownTogether'
  BY <1>18 DEF DeleteCheck
<1>19. ASSUME DeleteCommit PROVE TypeOK' /\ DownTogether'
  BY <1>19 DEF DeleteCommit
<1>20. ASSUME NEW l \in Loops, RecordFails(l) PROVE TypeOK' /\ DownTogether'
  BY <1>20 DEF RecordFails, Drop, LoopsOf
<1>21. ASSUME NEW l \in Loops, ThreadEnds(l) PROVE TypeOK' /\ DownTogether'
  <2>1. proc' \in [Workers -> {"down", "up", "stopping", "dying"}] /\ DownTogether'
    BY <1>21, LoopGoes DEF ThreadEnds
  <2>2. box' \in [Jobs -> {"none", "attached", "orphan"}]
    <3>1. PICK left : /\ box' = [box EXCEPT ![held[l]] = left]
                      /\ left = IF box[held[l]] = "attached" THEN "orphan" ELSE box[held[l]]
      BY <1>21 DEF ThreadEnds
    <3>2. held[l] \in Jobs
      BY <1>21 DEF ThreadEnds
    <3>3. left \in {"none", "attached", "orphan"}
      BY <3>1, <3>2, JobTyped
    <3>. QED  BY <3>1, <3>2, <3>3
  <2>3. /\ pc' \in [Loops -> {"down", "idle"} \cup Racing \cup Executing]
        /\ held' \in [Loops -> Jobs \cup {NoJob}]
        /\ verdict' \in [Loops -> Verdicts \cup {"none"}]
        /\ \A m \in Loops : pc'[m] \in {"chosen"} \cup Executing => held'[m] # NoJob
        /\ \A m \in Loops : pc'[m] \in {"down", "idle", "gated"} =>
              held'[m] = NoJob /\ verdict'[m] = "none"
        /\ \A m \in Loops : pc'[m] = "ran" <=> verdict'[m] # "none"
    BY <1>21 DEF ThreadEnds, Drop
  <2>4. UNCHANGED <<status, stale, clientVars, otherVars>>
    BY <1>21 DEF ThreadEnds
  <2>. QED  BY <2>1, <2>2, <2>3, <2>4
<1>22. ASSUME UNCHANGED vars PROVE TypeOK' /\ DownTogether'
  BY <1>22 DEF vars
<1>. QED
  BY <1>1, <1>2, <1>3, <1>4, <1>5, <1>6, <1>7, <1>8, <1>9, <1>10, <1>11,
     <1>12, <1>13, <1>14, <1>15, <1>16, <1>17, <1>18, <1>19, <1>20, <1>21, <1>22
     DEF Next, LoopStep

\* The state of the table, the loops, the containers and the requests is always
\* of the declared shape: in particular a loop past its run has a verdict, a
\* loop polling holds nothing.
THEOREM TypesHold == Spec => [](TypeOK /\ DownTogether)
<1>1. Init => TypeOK /\ DownTogether
  BY InitHolds DEF IInv
<1>2. TypeOK /\ DownTogether /\ [Next]_vars => TypeOK' /\ DownTogether'
  BY TypeStep
<1>. QED  BY <1>1, <1>2, PTL DEF Spec

-----------------------------------------------------------------------------
(* Who holds what.                                                         *)

\* A job below the cutoff that a loop holds is neither claimed nor requeued
\* from under it, so it never has two holders.
LEMMA TakenStep ==
    ASSUME TypeOK, DownTogether, HeldIsTaken, NoDuplicateRun, [Next]_vars
    PROVE  HeldIsTaken' /\ NoDuplicateRun'
<1>. USE DEF TypeOK, DownTogether, HeldIsTaken, NoDuplicateRun, Holds
<1>1. ASSUME NEW j \in Jobs, Submit(j) PROVE HeldIsTaken' /\ NoDuplicateRun'
  BY <1>1 DEF Submit
<1>2. ASSUME NEW j \in Jobs, BoxEnds(j) PROVE HeldIsTaken' /\ NoDuplicateRun'
  BY <1>2 DEF BoxEnds
<1>3. ASSUME NEW j \in Jobs, CutoffPasses(j) PROVE HeldIsTaken' /\ NoDuplicateRun'
  BY <1>3 DEF CutoffPasses
<1>4. ASSUME NEW l \in Loops, Gate(l) PROVE HeldIsTaken' /\ NoDuplicateRun'
  BY <1>4 DEF Gate
<1>5. ASSUME NEW l \in Loops, Select(l) PROVE HeldIsTaken' /\ NoDuplicateRun'
  BY <1>5 DEF Select, Queued
<1>6. ASSUME NEW l \in Loops, Claim(l) PROVE HeldIsTaken' /\ NoDuplicateRun'
  BY <1>6 DEF Claim, Release, Claimable
<1>7. ASSUME NEW l \in Loops, Fetch(l) PROVE HeldIsTaken' /\ NoDuplicateRun'
  BY <1>7 DEF Fetch, Release
<1>8. ASSUME NEW l \in Loops, Launch(l) PROVE HeldIsTaken' /\ NoDuplicateRun'
  BY <1>8 DEF Launch, Release
<1>9. ASSUME NEW l \in Loops, Collect(l) PROVE HeldIsTaken' /\ NoDuplicateRun'
  BY <1>9 DEF Collect
<1>10. ASSUME NEW l \in Loops, Mark(l) PROVE HeldIsTaken' /\ NoDuplicateRun'
  BY <1>10 DEF Mark, Release, Outcome, Markable
<1>11. ASSUME NEW l \in Loops, Leave(l) PROVE HeldIsTaken' /\ NoDuplicateRun'
  BY <1>11 DEF Leave, Drop, LastOut, LoopsOf
<1>12. ASSUME NEW w \in Workers, Boot(w) PROVE HeldIsTaken' /\ NoDuplicateRun'
  BY <1>12 DEF Boot, Recoverable
<1>13. ASSUME NEW w \in Workers, Stop(w) PROVE HeldIsTaken' /\ NoDuplicateRun'
  BY <1>13 DEF Stop
<1>14. ASSUME NEW w \in Workers, Kill(w) PROVE HeldIsTaken' /\ NoDuplicateRun'
  BY <1>14 DEF Kill, Drop, LoopsOf
<1>15. ASSUME NEW c \in Clients, NEW j \in Jobs, CancelRead(c, j)
       PROVE  HeldIsTaken' /\ NoDuplicateRun'
  BY <1>15 DEF CancelRead, Answer
<1>16. ASSUME NEW c \in Clients, CancelUpdate(c) PROVE HeldIsTaken' /\ NoDuplicateRun'
  BY <1>16 DEF CancelUpdate, Answer, Cancellable
<1>17. ASSUME NEW c \in Clients, CancelKill(c) PROVE HeldIsTaken' /\ NoDuplicateRun'
  BY <1>17 DEF CancelKill
<1>18. ASSUME DeleteCheck PROVE HeldIsTaken' /\ NoDuplicateRun'
  BY <1>18 DEF DeleteCheck
<1>19. ASSUME DeleteCommit PROVE HeldIsTaken' /\ NoDuplicateRun'
  BY <1>19 DEF DeleteCommit
<1>20. ASSUME NEW l \in Loops, RecordFails(l) PROVE HeldIsTaken' /\ NoDuplicateRun'
  BY <1>20 DEF RecordFails, Drop, LoopsOf
<1>21. ASSUME NEW l \in Loops, ThreadEnds(l) PROVE HeldIsTaken' /\ NoDuplicateRun'
  BY <1>21 DEF ThreadEnds, Drop, LastOut, LoopsOf
<1>22. ASSUME UNCHANGED vars PROVE HeldIsTaken' /\ NoDuplicateRun'
  BY <1>22 DEF vars
<1>. QED
  BY <1>1, <1>2, <1>3, <1>4, <1>5, <1>6, <1>7, <1>8, <1>9, <1>10, <1>11,
     <1>12, <1>13, <1>14, <1>15, <1>16, <1>17, <1>18, <1>19, <1>20, <1>21, <1>22
     DEF Next, LoopStep

\* Stranded rows can be counted.
LEMMA StrandedCounted ==
    /\ IsFiniteSet(Stranded) /\ Cardinality(Stranded) \in Nat
<1>1. Stranded \in SUBSET Jobs
  BY DEF Stranded, Running
<1>. QED  BY <1>1, FS_Subset, FS_CardinalityType

\* A step that strands no row keeps the bound.
LEMMA NoneStranded ==
    ASSUME TypeOK, LossPerDeath, Stranded' \subseteq Stranded, deaths' = deaths
    PROVE  LossPerDeath'
<1>1. Cardinality(Stranded') \in Nat /\ Cardinality(Stranded') <= Cardinality(Stranded)
  BY StrandedCounted, FS_Subset, FS_CardinalityType
<1>2. Cardinality(Stranded)' = Cardinality(Stranded')
  OBVIOUS
<1>3. Cardinality(Stranded) <= deaths * MaxConcurrent
  BY DEF LossPerDeath
<1>4. deaths' * MaxConcurrent = deaths * MaxConcurrent
  OBVIOUS
<1>5. deaths * MaxConcurrent \in Nat
  BY DEF TypeOK
<1>. QED  BY <1>1, <1>2, <1>3, <1>4, <1>5, StrandedCounted DEF LossPerDeath

\* The death of a process strands no more rows than it had loops.
LEMMA DeathStrands ==
    ASSUME TypeOK, LossPerDeath, NEW w \in Workers, deaths' = deaths + 1,
           Stranded' \subseteq Stranded \cup {held[l] : l \in LoopsOf(w)}
    PROVE  LossPerDeath'
<1>. DEFINE H == {held[l] : l \in LoopsOf(w)}
<1>1. IsFiniteSet(LoopsOf(w)) /\ Cardinality(LoopsOf(w)) \in Nat
      /\ Cardinality(LoopsOf(w)) <= MaxConcurrent
  <2>1. LoopsOf(w) \in SUBSET Loops
    BY DEF LoopsOf
  <2>2. Cardinality({l \in Loops : Home[l] = w}) <= MaxConcurrent
    OBVIOUS
  <2>. QED  BY <2>1, <2>2, FS_Subset, FS_CardinalityType DEF LoopsOf
<1>2. IsFiniteSet(H) /\ Cardinality(H) \in Nat /\ Cardinality(H) <= Cardinality(LoopsOf(w))
  <2>. DEFINE f == [l \in LoopsOf(w) |-> held[l]]
  <2>1. f \in Surjection(LoopsOf(w), H)
    BY DEF Surjection
  <2>. QED  BY <1>1, <2>1, FS_Surjection, FS_CardinalityType
<1>3. /\ IsFiniteSet(Stranded \cup H) /\ Cardinality(Stranded \cup H) \in Nat
      /\ Cardinality(Stranded \cup H) <= Cardinality(Stranded) + Cardinality(H)
  <2>1. IsFiniteSet(Stranded \cup H) /\ IsFiniteSet(Stranded \cap H)
    BY <1>2, StrandedCounted, FS_Union, FS_Intersection
  <2>2. Cardinality(Stranded \cup H)
            = Cardinality(Stranded) + Cardinality(H) - Cardinality(Stranded \cap H)
    BY <1>2, StrandedCounted, FS_Union
  <2>3. Cardinality(Stranded \cap H) \in Nat /\ Cardinality(Stranded \cup H) \in Nat
    BY <2>1, FS_CardinalityType
  <2>. QED  BY <1>2, <2>1, <2>2, <2>3, StrandedCounted
<1>4. Cardinality(Stranded') \in Nat /\ Cardinality(Stranded') <= Cardinality(Stranded \cup H)
  BY <1>3, FS_Subset, FS_CardinalityType
<1>5. deaths \in Nat /\ MaxConcurrent \in Nat
  BY DEF TypeOK
<1>6. deaths * MaxConcurrent + MaxConcurrent = (deaths + 1) * MaxConcurrent
  BY <1>5
<1>7. deaths * MaxConcurrent \in Nat
  BY <1>5
<1>8. Cardinality(Stranded) <= deaths * MaxConcurrent
  BY DEF LossPerDeath
<1>9. Cardinality(Stranded') <= (deaths + 1) * MaxConcurrent
  BY <1>1, <1>2, <1>3, <1>4, <1>6, <1>7, <1>8, <1>5, StrandedCounted
<1>. QED  BY <1>9 DEF LossPerDeath

\* A loop that takes a job keeps it until the row is no longer RUNNING, unless
\* its process dies.
LEMMA LossStep ==
    ASSUME TypeOK, DownTogether, LossPerDeath, [Next]_vars
    PROVE  LossPerDeath'
<1>. USE DEF TypeOK, DownTogether, Stranded, Holds, Running
<1>a. ASSUME Stranded' \subseteq Stranded, deaths' = deaths PROVE LossPerDeath'
  BY <1>a, NoneStranded
<1>1. ASSUME NEW j \in Jobs, Submit(j) PROVE LossPerDeath'
  <2>1. Stranded' \subseteq Stranded /\ deaths' = deaths
    BY <1>1 DEF Submit
  <2>. QED  BY <1>a, <2>1
<1>2. ASSUME NEW j \in Jobs, BoxEnds(j) PROVE LossPerDeath'
  <2>1. Stranded' \subseteq Stranded /\ deaths' = deaths
    BY <1>2 DEF BoxEnds
  <2>. QED  BY <1>a, <2>1
<1>3. ASSUME NEW j \in Jobs, CutoffPasses(j) PROVE LossPerDeath'
  <2>1. Stranded' \subseteq Stranded /\ deaths' = deaths
    BY <1>3 DEF CutoffPasses
  <2>. QED  BY <1>a, <2>1
<1>4. ASSUME NEW l \in Loops, Gate(l) PROVE LossPerDeath'
  <2>1. Stranded' \subseteq Stranded /\ deaths' = deaths
    BY <1>4 DEF Gate
  <2>. QED  BY <1>a, <2>1
<1>5. ASSUME NEW l \in Loops, Select(l) PROVE LossPerDeath'
  <2>1. Stranded' \subseteq Stranded /\ deaths' = deaths
    BY <1>5 DEF Select, Queued
  <2>. QED  BY <1>a, <2>1
<1>6. ASSUME NEW l \in Loops, Claim(l) PROVE LossPerDeath'
  <2>1. CASE Claimable(held[l])
    <3>1. /\ pc' = [pc EXCEPT ![l] = "claimed"] /\ pc[l] = "chosen"
          /\ status' = [status EXCEPT ![held[l]] = "running"]
          /\ UNCHANGED <<held, proc, deaths>>
      BY <1>6, <2>1 DEF Claim
    <3>2. ASSUME NEW j \in Stranded' PROVE j \in Stranded
      <4>1. proc[Home[l]] # "dying"
        BY <3>1
      <4>2. j # held[l]
        BY <3>1, <3>2, <4>1
      <4>. QED  BY <3>1, <3>2, <4>2
    <3>. QED  BY <1>a, <3>1, <3>2
  <2>2. CASE ~Claimable(held[l])
    <3>1. Stranded' \subseteq Stranded /\ deaths' = deaths
      BY <1>6, <2>2 DEF Claim, Release
    <3>. QED  BY <1>a, <3>1
  <2>. QED  BY <2>1, <2>2
<1>7. ASSUME NEW l \in Loops, Fetch(l) PROVE LossPerDeath'
  <2>1. Stranded' \subseteq Stranded /\ deaths' = deaths
    BY <1>7 DEF Fetch, Release
  <2>. QED  BY <1>a, <2>1
<1>8. ASSUME NEW l \in Loops, Launch(l) PROVE LossPerDeath'
  <2>1. Stranded' \subseteq Stranded /\ deaths' = deaths
    BY <1>8 DEF Launch, Release
  <2>. QED  BY <1>a, <2>1
<1>9. ASSUME NEW l \in Loops, Collect(l) PROVE LossPerDeath'
  <2>1. Stranded' \subseteq Stranded /\ deaths' = deaths
    BY <1>9 DEF Collect
  <2>. QED  BY <1>a, <2>1
<1>10. ASSUME NEW l \in Loops, Mark(l) PROVE LossPerDeath'
  <2>1. Stranded' \subseteq Stranded /\ deaths' = deaths
    BY <1>10 DEF Mark, Release, Outcome, Markable
  <2>. QED  BY <1>a, <2>1
<1>11. ASSUME NEW l \in Loops, Leave(l) PROVE LossPerDeath'
  <2>1. Stranded' \subseteq Stranded /\ deaths' = deaths
    BY <1>11 DEF Leave, Drop, LastOut, LoopsOf
  <2>. QED  BY <1>a, <2>1
<1>12. ASSUME NEW w \in Workers, Boot(w) PROVE LossPerDeath'
  <2>1. Stranded' \subseteq Stranded /\ deaths' = deaths
    BY <1>12 DEF Boot, Recoverable
  <2>. QED  BY <1>a, <2>1
<1>13. ASSUME NEW w \in Workers, Stop(w) PROVE LossPerDeath'
  <2>1. Stranded' \subseteq Stranded /\ deaths' = deaths
    BY <1>13 DEF Stop
  <2>. QED  BY <1>a, <2>1
<1>14. ASSUME NEW w \in Workers, Kill(w) PROVE LossPerDeath'
  <2>1. Stranded' \subseteq Stranded \cup {held[m] : m \in LoopsOf(w)}
    BY <1>14 DEF Kill, Drop, LoopsOf
  <2>2. w \in Workers /\ deaths' = deaths + 1
    BY <1>14 DEF Kill
  <2>. QED  BY <2>1, <2>2, DeathStrands
<1>15. ASSUME NEW c \in Clients, NEW j \in Jobs, CancelRead(c, j) PROVE LossPerDeath'
  <2>1. Stranded' \subseteq Stranded /\ deaths' = deaths
    BY <1>15 DEF CancelRead, Answer
  <2>. QED  BY <1>a, <2>1
<1>16. ASSUME NEW c \in Clients, CancelUpdate(c) PROVE LossPerDeath'
  <2>1. target[c] \in Jobs /\ UNCHANGED <<pc, held, proc, deaths>>
    BY <1>16 DEF CancelUpdate
  <2>2. \A j \in Jobs : status'[j] \in {status[j], "cancelled"}
    BY <1>16, <2>1 DEF CancelUpdate
  <2>3. Stranded' \subseteq Stranded /\ deaths' = deaths
    BY <2>1, <2>2
  <2>. QED  BY <1>a, <2>3
<1>17. ASSUME NEW c \in Clients, CancelKill(c) PROVE LossPerDeath'
  <2>1. Stranded' \subseteq Stranded /\ deaths' = deaths
    BY <1>17 DEF CancelKill
  <2>. QED  BY <1>a, <2>1
<1>18. ASSUME DeleteCheck PROVE LossPerDeath'
  <2>1. Stranded' \subseteq Stranded /\ deaths' = deaths
    BY <1>18 DEF DeleteCheck
  <2>. QED  BY <1>a, <2>1
<1>19. ASSUME DeleteCommit PROVE LossPerDeath'
  <2>1. Stranded' \subseteq Stranded /\ deaths' = deaths
    BY <1>19 DEF DeleteCommit
  <2>. QED  BY <1>a, <2>1
<1>20. ASSUME NEW l \in Loops, RecordFails(l) PROVE LossPerDeath'
  <2>1. Stranded' \subseteq Stranded \cup {held[m] : m \in LoopsOf(Home[l])}
    BY <1>20 DEF RecordFails, Drop, LoopsOf
  <2>2. Home[l] \in Workers /\ deaths' = deaths + 1
    BY <1>20 DEF RecordFails
  <2>. QED  BY <2>1, <2>2, DeathStrands
<1>21. ASSUME NEW l \in Loops, ThreadEnds(l) PROVE LossPerDeath'
  <2>1. Stranded' \subseteq Stranded /\ deaths' = deaths
    BY <1>21 DEF ThreadEnds, Drop, LastOut, LoopsOf
  <2>. QED  BY <1>a, <2>1
<1>22. ASSUME UNCHANGED vars PROVE LossPerDeath'
  <2>1. Stranded' \subseteq Stranded /\ deaths' = deaths
    BY <1>22 DEF vars
  <2>. QED  BY <1>a, <2>1
<1>. QED
  BY <1>1, <1>2, <1>3, <1>4, <1>5, <1>6, <1>7, <1>8, <1>9, <1>10, <1>11,
     <1>12, <1>13, <1>14, <1>15, <1>16, <1>17, <1>18, <1>19, <1>20, <1>21, <1>22
     DEF Next, LoopStep

-----------------------------------------------------------------------------
(* What requests were answered and how jobs end.                           *)

\* The row still says what every answered request was told.
LEMMA AnswerStep ==
    ASSUME TypeOK, AnswerOnce, CancelAnswer, [Next]_vars
    PROVE  AnswerOnce' /\ CancelAnswer'
<1>. USE DEF TypeOK, AnswerOnce, CancelAnswer
<1>1. ASSUME NEW j \in Jobs, Submit(j) PROVE AnswerOnce' /\ CancelAnswer'
  BY <1>1 DEF Submit
<1>2. ASSUME NEW j \in Jobs, BoxEnds(j) PROVE AnswerOnce' /\ CancelAnswer'
  BY <1>2 DEF BoxEnds
<1>3. ASSUME NEW j \in Jobs, CutoffPasses(j) PROVE AnswerOnce' /\ CancelAnswer'
  BY <1>3 DEF CutoffPasses
<1>4. ASSUME NEW l \in Loops, Gate(l) PROVE AnswerOnce' /\ CancelAnswer'
  BY <1>4 DEF Gate
<1>5. ASSUME NEW l \in Loops, Select(l) PROVE AnswerOnce' /\ CancelAnswer'
  BY <1>5 DEF Select, Queued
<1>6. ASSUME NEW l \in Loops, Claim(l) PROVE AnswerOnce' /\ CancelAnswer'
  <2>1. UNCHANGED <<call, target, reply>>
    BY <1>6 DEF Claim
  <2>2. CASE Claimable(held[l])
    <3>1. /\ held[l] \in Jobs /\ status[held[l]] = "queued"
          /\ status' = [status EXCEPT ![held[l]] = "running"]
      BY <1>6, <2>2 DEF Claim, Claimable
    <3>. QED  BY <2>1, <3>1
  <2>3. CASE ~Claimable(held[l])
    BY <1>6, <2>1, <2>3 DEF Claim
  <2>. QED  BY <2>2, <2>3
<1>7. ASSUME NEW l \in Loops, Fetch(l) PROVE AnswerOnce' /\ CancelAnswer'
  BY <1>7 DEF Fetch, Release
<1>8. ASSUME NEW l \in Loops, Launch(l) PROVE AnswerOnce' /\ CancelAnswer'
  BY <1>8 DEF Launch, Release
<1>9. ASSUME NEW l \in Loops, Collect(l) PROVE AnswerOnce' /\ CancelAnswer'
  BY <1>9 DEF Collect
<1>10. ASSUME NEW l \in Loops, Mark(l) PROVE AnswerOnce' /\ CancelAnswer'
  BY <1>10 DEF Mark, Release, Outcome, Markable
<1>11. ASSUME NEW l \in Loops, Leave(l) PROVE AnswerOnce' /\ CancelAnswer'
  BY <1>11 DEF Leave, Drop, LastOut, LoopsOf
<1>12. ASSUME NEW w \in Workers, Boot(w) PROVE AnswerOnce' /\ CancelAnswer'
  BY <1>12 DEF Boot, Recoverable
<1>13. ASSUME NEW w \in Workers, Stop(w) PROVE AnswerOnce' /\ CancelAnswer'
  BY <1>13 DEF Stop
<1>14. ASSUME NEW w \in Workers, Kill(w) PROVE AnswerOnce' /\ CancelAnswer'
  BY <1>14 DEF Kill, Drop, LoopsOf
<1>15. ASSUME NEW c \in Clients, NEW j \in Jobs, CancelRead(c, j)
       PROVE  AnswerOnce' /\ CancelAnswer'
  BY <1>15 DEF CancelRead, Answer
<1>16. ASSUME NEW c \in Clients, CancelUpdate(c) PROVE AnswerOnce' /\ CancelAnswer'
  <2>1. /\ target[c] \in Jobs /\ status[target[c]] # "none"
        /\ reply[c] = "none" /\ call[c] = "read" /\ UNCHANGED target
    BY <1>16 DEF CancelUpdate
  <2>2. \A d \in Clients : call[d] # "none" => target[d] \in Jobs
    OBVIOUS
  <2>3. CASE Cancellable(target[c])
    <3>1. PICK where \in {"kill", "done"} : call' = [call EXCEPT ![c] = where]
      BY <1>16, <2>3 DEF CancelUpdate
    <3>2. /\ status' = [status EXCEPT ![target[c]] = "cancelled"]
          /\ reply' = [reply EXCEPT ![c] = "ok"]
          /\ status[target[c]] \in Live
      BY <1>16, <2>3 DEF CancelUpdate, Cancellable
    <3>3. AnswerOnce'
      BY <2>1, <2>2, <3>1, <3>2
    <3>4. CancelAnswer'
      BY <2>1, <2>2, <3>1, <3>2
    <3>. QED  BY <3>3, <3>4
  <2>4. CASE ~Cancellable(target[c])
    <3>1. /\ status' = status
          /\ reply' = [reply EXCEPT ![c] = "conflict"]
          /\ call' = [call EXCEPT ![c] = "done"]
      BY <1>16, <2>4 DEF CancelUpdate, Answer
    <3>2. status[target[c]] \in Settled \cup {"gone"}
      <4>1. status[target[c]] \in Live \cup Settled \cup {"none", "gone"}
        BY <2>1, JobTyped
      <4>. QED  BY <2>1, <2>4, <4>1 DEF Cancellable
    <3>3. AnswerOnce'
      BY <2>1, <2>2, <3>1
    <3>4. CancelAnswer'
      BY <2>1, <2>2, <3>1, <3>2
    <3>. QED  BY <3>3, <3>4
  <2>. QED  BY <2>3, <2>4
<1>17. ASSUME NEW c \in Clients, CancelKill(c) PROVE AnswerOnce' /\ CancelAnswer'
  BY <1>17 DEF CancelKill
<1>18. ASSUME DeleteCheck PROVE AnswerOnce' /\ CancelAnswer'
  BY <1>18 DEF DeleteCheck
<1>19. ASSUME DeleteCommit PROVE AnswerOnce' /\ CancelAnswer'
  BY <1>19 DEF DeleteCommit
<1>20. ASSUME NEW l \in Loops, RecordFails(l) PROVE AnswerOnce' /\ CancelAnswer'
  BY <1>20 DEF RecordFails
<1>21. ASSUME NEW l \in Loops, ThreadEnds(l) PROVE AnswerOnce' /\ CancelAnswer'
  BY <1>21 DEF ThreadEnds
<1>22. ASSUME UNCHANGED vars PROVE AnswerOnce' /\ CancelAnswer'
  BY <1>22 DEF vars
<1>. QED
  BY <1>1, <1>2, <1>3, <1>4, <1>5, <1>6, <1>7, <1>8, <1>9, <1>10, <1>11,
     <1>12, <1>13, <1>14, <1>15, <1>16, <1>17, <1>18, <1>19, <1>20, <1>21, <1>22
     DEF Next, LoopStep

\* The inductive invariant holds: types, one holder per job below the cutoff,
\* no row stranded but by a death, truthful answers.
THEOREM InvariantHolds == Spec => []IInv
<1>1. Init => IInv
  BY InitHolds
<1>2. IInv /\ [Next]_vars => IInv'
  BY TypeStep, TakenStep, LossStep, AnswerStep DEF IInv
<1>. QED  BY <1>1, <1>2, PTL DEF Spec

\* claim_next and requeue_stale never let two loops run one job whose time limit
\* is below the stale cutoff, whatever crashes and restarts happen.
THEOREM NoJobRunsTwice == Spec => []NoDuplicateRun
<1>1. IInv => NoDuplicateRun
  BY DEF IInv
<1>. QED  BY <1>1, InvariantHolds, PTL

\* A slot is lost only to the death of a process, whether it was killed or died
\* of an exception in _record, and each death loses max_concurrent at most: every
\* other path of run_once brings the row of the job it claimed to an end.
THEOREM OnlyDeathsStrand == Spec => []LossPerDeath
<1>1. IInv => LossPerDeath
  BY DEF IInv
<1>. QED  BY <1>1, InvariantHolds, PTL

\* The answer of POST /jobs/{id}/cancel stays true, and one request at most is
\* told that it stopped the job.
THEOREM AnswersAreTrue == Spec => []CancelAnswer
<1>1. IInv => CancelAnswer
  BY DEF IInv
<1>. QED  BY <1>1, InvariantHolds, PTL

\* A finished job keeps its outcome against every other step.
LEMMA OutcomeStep ==
    ASSUME TypeOK, [Next]_vars, NEW i \in Jobs, status[i] \in Settled
    PROVE  status'[i] \in {status[i], "gone"}
<1>. USE DEF TypeOK
<1>1. ASSUME NEW j \in Jobs, Submit(j) PROVE status'[i] \in {status[i], "gone"}
  BY <1>1 DEF Submit
<1>2. ASSUME NEW j \in Jobs, BoxEnds(j) PROVE status'[i] \in {status[i], "gone"}
  BY <1>2 DEF BoxEnds
<1>3. ASSUME NEW j \in Jobs, CutoffPasses(j) PROVE status'[i] \in {status[i], "gone"}
  BY <1>3 DEF CutoffPasses
<1>4. ASSUME NEW l \in Loops, Gate(l) PROVE status'[i] \in {status[i], "gone"}
  BY <1>4 DEF Gate
<1>5. ASSUME NEW l \in Loops, Select(l) PROVE status'[i] \in {status[i], "gone"}
  BY <1>5 DEF Select, Queued
<1>6. ASSUME NEW l \in Loops, Claim(l) PROVE status'[i] \in {status[i], "gone"}
  BY <1>6 DEF Claim, Release, Claimable
<1>7. ASSUME NEW l \in Loops, Fetch(l) PROVE status'[i] \in {status[i], "gone"}
  BY <1>7 DEF Fetch, Release
<1>8. ASSUME NEW l \in Loops, Launch(l) PROVE status'[i] \in {status[i], "gone"}
  BY <1>8 DEF Launch, Release
<1>9. ASSUME NEW l \in Loops, Collect(l) PROVE status'[i] \in {status[i], "gone"}
  BY <1>9 DEF Collect
<1>10. ASSUME NEW l \in Loops, Mark(l) PROVE status'[i] \in {status[i], "gone"}
  BY <1>10 DEF Mark, Release, Outcome, Markable
<1>11. ASSUME NEW l \in Loops, Leave(l) PROVE status'[i] \in {status[i], "gone"}
  BY <1>11 DEF Leave, Drop, LastOut, LoopsOf
<1>12. ASSUME NEW w \in Workers, Boot(w) PROVE status'[i] \in {status[i], "gone"}
  BY <1>12 DEF Boot, Recoverable
<1>13. ASSUME NEW w \in Workers, Stop(w) PROVE status'[i] \in {status[i], "gone"}
  BY <1>13 DEF Stop
<1>14. ASSUME NEW w \in Workers, Kill(w) PROVE status'[i] \in {status[i], "gone"}
  BY <1>14 DEF Kill, Drop, LoopsOf
<1>15. ASSUME NEW c \in Clients, NEW j \in Jobs, CancelRead(c, j)
       PROVE  status'[i] \in {status[i], "gone"}
  BY <1>15 DEF CancelRead, Answer
<1>16. ASSUME NEW c \in Clients, CancelUpdate(c) PROVE status'[i] \in {status[i], "gone"}
  <2>1. target[c] \in Jobs
    BY <1>16 DEF CancelUpdate
  <2>. QED  BY <1>16, <2>1 DEF CancelUpdate, Cancellable
<1>17. ASSUME NEW c \in Clients, CancelKill(c) PROVE status'[i] \in {status[i], "gone"}
  BY <1>17 DEF CancelKill
<1>18. ASSUME DeleteCheck PROVE status'[i] \in {status[i], "gone"}
  BY <1>18 DEF DeleteCheck
<1>19. ASSUME DeleteCommit PROVE status'[i] \in {status[i], "gone"}
  BY <1>19 DEF DeleteCommit
<1>20. ASSUME NEW l \in Loops, RecordFails(l) PROVE status'[i] \in {status[i], "gone"}
  BY <1>20 DEF RecordFails
<1>21. ASSUME NEW l \in Loops, ThreadEnds(l) PROVE status'[i] \in {status[i], "gone"}
  BY <1>21 DEF ThreadEnds
<1>22. ASSUME UNCHANGED vars PROVE status'[i] \in {status[i], "gone"}
  BY <1>22 DEF vars
<1>. QED
  BY <1>1, <1>2, <1>3, <1>4, <1>5, <1>6, <1>7, <1>8, <1>9, <1>10, <1>11,
     <1>12, <1>13, <1>14, <1>15, <1>16, <1>17, <1>18, <1>19, <1>20, <1>21, <1>22
     DEF Next, LoopStep

\* mark_finished, cancel and requeue_stale guard their UPDATEs well enough that
\* no interleaving of theirs overwrites the outcome of a job.
THEOREM OutcomesAreFinal == Spec => OutcomeIsFinal
<1>1. TypeOK /\ [Next]_vars =>
        [\A j \in Jobs : status[j] \in Settled => status'[j] \in {status[j], "gone"}]_vars
  BY OutcomeStep
<1>. QED  BY <1>1, TypesHold, PTL DEF Spec, OutcomeIsFinal

-----------------------------------------------------------------------------
(* The cap.                                                                *)

\* Cardinalities of the two sets of OvershootBound are numbers.
LEMMA Counted ==
    /\ IsFiniteSet(Running) /\ Cardinality(Running) \in Nat
    /\ IsFiniteSet(Racers) /\ Cardinality(Racers) \in Nat
    /\ Cardinality(Racers) <= Cardinality(Loops) /\ Cardinality(Loops) \in Nat
<1>1. Running \in SUBSET Jobs /\ Racers \in SUBSET Loops
  BY DEF Running, Racers
<1>. QED  BY <1>1, FS_Subset, FS_CardinalityType

\* A step that starts no job and lets no loop past the count cannot break the
\* bound.
LEMMA FewerRacers ==
    ASSUME OvershootBound, Running' \subseteq Running, Racers' \subseteq Racers
    PROVE  OvershootBound'
<1>1. /\ Cardinality(Running') \in Nat /\ Cardinality(Running') <= Cardinality(Running)
      /\ Cardinality(Racers') \in Nat /\ Cardinality(Racers') <= Cardinality(Racers)
  BY Counted, FS_Subset, FS_CardinalityType
<1>. QED  BY <1>1, Counted DEF OvershootBound

\* A loop passes the count only while there is room.
LEMMA OpenGate ==
    ASSUME TypeOK, NEW l \in Loops, Gate(l)
    PROVE  OvershootBound'
<1>1. Running' = Running /\ Racers' \in SUBSET Loops
  BY DEF Gate, Running, Racers
<1>2. Cardinality(Running) < MaxConcurrent
  BY DEF Gate, HasRoom
<1>3. Cardinality(Racers') \in Nat /\ Cardinality(Racers') <= Cardinality(Loops)
  BY <1>1, FS_Subset, FS_CardinalityType
<1>. QED  BY <1>1, <1>2, <1>3, Counted DEF OvershootBound

\* A claim turns one racing loop into one running job.
LEMMA WonClaim ==
    ASSUME TypeOK, OvershootBound, NEW l \in Loops, Claim(l), Claimable(held[l])
    PROVE  OvershootBound'
<1>1. /\ held[l] \in Jobs /\ status[held[l]] = "queued" /\ pc[l] = "chosen"
      /\ status' = [status EXCEPT ![held[l]] = "running"]
      /\ pc' = [pc EXCEPT ![l] = "claimed"]
  BY DEF TypeOK, Claim, Claimable
<1>2. Running' = Running \cup {held[l]} /\ held[l] \notin Running
  BY <1>1 DEF TypeOK, Running
<1>3. Racers' = Racers \ {l} /\ l \in Racers
  BY <1>1 DEF TypeOK, Racers
<1>4. Cardinality(Running') = Cardinality(Running) + 1
  BY <1>2, Counted, FS_AddElement
<1>5. Cardinality(Racers') = Cardinality(Racers) - 1
  BY <1>3, Counted, FS_RemoveElement
<1>. QED  BY <1>4, <1>5, Counted DEF OvershootBound

\* Every step keeps the bound.
LEMMA OvershootStep ==
    ASSUME TypeOK, OvershootBound, [Next]_vars
    PROVE  OvershootBound'
<1>1. ASSUME NEW j \in Jobs, Submit(j) PROVE OvershootBound'
  <2>1. Running' \subseteq Running /\ Racers' \subseteq Racers
    BY <1>1 DEF TypeOK, Running, Racers, Submit
  <2>. QED  BY <2>1, FewerRacers
<1>2. ASSUME NEW j \in Jobs, BoxEnds(j) PROVE OvershootBound'
  <2>1. Running' \subseteq Running /\ Racers' \subseteq Racers
    BY <1>2 DEF TypeOK, Running, Racers, BoxEnds
  <2>. QED  BY <2>1, FewerRacers
<1>3. ASSUME NEW j \in Jobs, CutoffPasses(j) PROVE OvershootBound'
  <2>1. Running' \subseteq Running /\ Racers' \subseteq Racers
    BY <1>3 DEF TypeOK, Running, Racers, CutoffPasses
  <2>. QED  BY <2>1, FewerRacers
<1>4. ASSUME NEW l \in Loops, Gate(l) PROVE OvershootBound'
  BY <1>4, OpenGate
<1>5. ASSUME NEW l \in Loops, Select(l) PROVE OvershootBound'
  <2>1. Running' \subseteq Running /\ Racers' \subseteq Racers
    BY <1>5 DEF TypeOK, Running, Racers, Select, Queued
  <2>. QED  BY <2>1, FewerRacers
<1>6. ASSUME NEW l \in Loops, Claim(l) PROVE OvershootBound'
  <2>1. CASE Claimable(held[l])
    BY <1>6, <2>1, WonClaim
  <2>2. CASE ~Claimable(held[l])
    <3>1. Running' \subseteq Running /\ Racers' \subseteq Racers
      BY <1>6, <2>2 DEF TypeOK, Claim, Release, Running, Racers
    <3>. QED  BY <3>1, FewerRacers
  <2>. QED  BY <2>1, <2>2
<1>7. ASSUME NEW l \in Loops, Fetch(l) PROVE OvershootBound'
  <2>1. Running' \subseteq Running /\ Racers' \subseteq Racers
    BY <1>7 DEF TypeOK, Running, Racers, Fetch, Release
  <2>. QED  BY <2>1, FewerRacers
<1>8. ASSUME NEW l \in Loops, Launch(l) PROVE OvershootBound'
  <2>1. Running' \subseteq Running /\ Racers' \subseteq Racers
    BY <1>8 DEF TypeOK, Running, Racers, Launch, Release
  <2>. QED  BY <2>1, FewerRacers
<1>9. ASSUME NEW l \in Loops, Collect(l) PROVE OvershootBound'
  <2>1. Running' \subseteq Running /\ Racers' \subseteq Racers
    BY <1>9 DEF TypeOK, Running, Racers, Collect
  <2>. QED  BY <2>1, FewerRacers
<1>10. ASSUME NEW l \in Loops, Mark(l) PROVE OvershootBound'
  <2>1. Running' \subseteq Running /\ Racers' \subseteq Racers
    BY <1>10 DEF TypeOK, Running, Racers, Mark, Release, Outcome, Markable
  <2>. QED  BY <2>1, FewerRacers
<1>11. ASSUME NEW l \in Loops, Leave(l) PROVE OvershootBound'
  <2>1. Running' \subseteq Running /\ Racers' \subseteq Racers
    BY <1>11 DEF TypeOK, Running, Racers, Leave, Drop
  <2>. QED  BY <2>1, FewerRacers
<1>12. ASSUME NEW w \in Workers, Boot(w) PROVE OvershootBound'
  <2>1. Running' \subseteq Running /\ Racers' \subseteq Racers
    BY <1>12 DEF TypeOK, Running, Racers, Boot, Recoverable
  <2>. QED  BY <2>1, FewerRacers
<1>13. ASSUME NEW w \in Workers, Stop(w) PROVE OvershootBound'
  <2>1. Running' \subseteq Running /\ Racers' \subseteq Racers
    BY <1>13 DEF TypeOK, Running, Racers, Stop
  <2>. QED  BY <2>1, FewerRacers
<1>14. ASSUME NEW w \in Workers, Kill(w) PROVE OvershootBound'
  <2>1. Running' \subseteq Running /\ Racers' \subseteq Racers
    BY <1>14 DEF TypeOK, Running, Racers, Kill, Drop, LoopsOf
  <2>. QED  BY <2>1, FewerRacers
<1>15. ASSUME NEW c \in Clients, NEW j \in Jobs, CancelRead(c, j) PROVE OvershootBound'
  <2>1. Running' \subseteq Running /\ Racers' \subseteq Racers
    BY <1>15 DEF TypeOK, Running, Racers, CancelRead, Answer
  <2>. QED  BY <2>1, FewerRacers
<1>16. ASSUME NEW c \in Clients, CancelUpdate(c) PROVE OvershootBound'
  <2>1. target[c] \in Jobs
    BY <1>16 DEF TypeOK, CancelUpdate
  <2>2. \A j \in Jobs : status'[j] \in {status[j], "cancelled"}
    BY <1>16, <2>1 DEF TypeOK, CancelUpdate
  <2>3. Running' \subseteq Running /\ Racers' \subseteq Racers
    BY <1>16, <2>2 DEF Running, Racers, CancelUpdate
  <2>. QED  BY <2>3, FewerRacers
<1>17. ASSUME NEW c \in Clients, CancelKill(c) PROVE OvershootBound'
  <2>1. Running' \subseteq Running /\ Racers' \subseteq Racers
    BY <1>17 DEF TypeOK, Running, Racers, CancelKill
  <2>. QED  BY <2>1, FewerRacers
<1>18. ASSUME DeleteCheck PROVE OvershootBound'
  <2>1. Running' \subseteq Running /\ Racers' \subseteq Racers
    BY <1>18 DEF TypeOK, Running, Racers, DeleteCheck
  <2>. QED  BY <2>1, FewerRacers
<1>19. ASSUME DeleteCommit PROVE OvershootBound'
  <2>1. Running' \subseteq Running /\ Racers' \subseteq Racers
    BY <1>19 DEF TypeOK, Running, Racers, DeleteCommit
  <2>. QED  BY <2>1, FewerRacers
<1>20. ASSUME NEW l \in Loops, RecordFails(l) PROVE OvershootBound'
  <2>1. Running' \subseteq Running /\ Racers' \subseteq Racers
    BY <1>20 DEF TypeOK, Running, Racers, RecordFails, Drop
  <2>. QED  BY <2>1, FewerRacers
<1>21. ASSUME NEW l \in Loops, ThreadEnds(l) PROVE OvershootBound'
  <2>1. Running' \subseteq Running /\ Racers' \subseteq Racers
    BY <1>21 DEF TypeOK, Running, Racers, ThreadEnds, Drop
  <2>. QED  BY <2>1, FewerRacers
<1>22. ASSUME UNCHANGED vars PROVE OvershootBound'
  <2>1. Running' \subseteq Running /\ Racers' \subseteq Racers
    BY <1>22 DEF TypeOK, Running, Racers, vars
  <2>. QED  BY <2>1, FewerRacers
<1>. QED
  BY <1>1, <1>2, <1>3, <1>4, <1>5, <1>6, <1>7, <1>8, <1>9, <1>10, <1>11,
     <1>12, <1>13, <1>14, <1>15, <1>16, <1>17, <1>18, <1>19, <1>20, <1>21, <1>22
     DEF Next, LoopStep

\* The number of RUNNING rows exceeds the cap by less than the number of loops
\* (queue.py claim_next: count and UPDATE are separate statements).
THEOREM OvershootIsBounded == Spec => []OvershootBound
<1>1. Init => OvershootBound
  <2>. SUFFICES ASSUME Init PROVE OvershootBound
    OBVIOUS
  <2>1. Running = {} /\ Racers = {}
    BY DEF Init, Running, Racers
  <2>. QED  BY <2>1, FS_EmptySet, Counted DEF OvershootBound
<1>2. TypeOK /\ OvershootBound /\ [Next]_vars => OvershootBound'
  BY OvershootStep
<1>. QED  BY <1>1, <1>2, TypesHold, PTL DEF Spec

\* Enough loops held to cover the running jobs.
LEMMA HoldersCoverRunning ==
    ASSUME TypeOK, LossPerDeath, deaths = 0
    PROVE  Cardinality(Running) <= Cardinality(Loops)
<1>. DEFINE L == {l \in Loops : pc[l] \in Executing /\ held[l] \in Running}
            f == [l \in L |-> held[l]]
<1>0. Stranded = {}
  <2>1. deaths * MaxConcurrent = 0
    OBVIOUS
  <2>2. Cardinality(Stranded) = 0
    BY <2>1, StrandedCounted DEF LossPerDeath
  <2>. QED  BY <2>2, StrandedCounted, FS_EmptySet
<1>1. \A j \in Running : \E l \in L : f[l] = j
  <2>. SUFFICES ASSUME NEW j \in Running PROVE \E l \in L : f[l] = j
    OBVIOUS
  <2>1. PICK l \in Loops : Holds(l, j)
    BY <1>0 DEF Stranded
  <2>. QED  BY <2>1 DEF Holds
<1>2. f \in Surjection(L, Running)
  BY <1>1 DEF Surjection
<1>3. L \in SUBSET Loops
  OBVIOUS
<1>4. IsFiniteSet(L) /\ Cardinality(L) <= Cardinality(Loops)
      /\ Cardinality(L) \in Nat /\ Cardinality(Loops) \in Nat
  BY <1>3, FS_Subset, FS_CardinalityType
<1>5. Cardinality(Running) <= Cardinality(L)
  BY <1>2, <1>4, FS_Surjection
<1>. QED  BY <1>4, <1>5, Counted

\* What jobs/main.py says of the cap is true of a single unit: when there are no
\* more loops than max_concurrent_jobs and no process has died, no more jobs than
\* that are RUNNING.
THEOREM OneUnitKeepsTheCap ==
    ASSUME Cardinality(Loops) <= MaxConcurrent
    PROVE  Spec => []CapHolds
<1>1. IInv => CapHolds
  BY HoldersCoverRunning, Counted DEF IInv, CapHolds
<1>. QED  BY <1>1, InvariantHolds, PTL

-----------------------------------------------------------------------------
(* The queue implements the atomic life of a job.                          *)

\* One step of the queue is one step of the life of some jobs, or none.  A
\* claim is Start, mark_finished is Settle, the recovery at boot is Requeue, and
\* of the two steps of a cancel the one that answers is Cancel.
LEMMA LifecycleStep ==
    ASSUME TypeOK, AnswerOnce, [Next]_vars
    PROVE  [Lifecycle!Next]_Lifecycle!vars
<1>. USE DEF Lifecycle!Next
<1>1. ASSUME NEW j \in Jobs, Submit(j) PROVE [Lifecycle!Next]_Lifecycle!vars
  BY <1>1 DEF TypeOK, Submit, Lifecycle!Submit
<1>2. ASSUME NEW j \in Jobs, BoxEnds(j) PROVE [Lifecycle!Next]_Lifecycle!vars
  BY <1>2 DEF BoxEnds, Lifecycle!vars
<1>3. ASSUME NEW j \in Jobs, CutoffPasses(j) PROVE [Lifecycle!Next]_Lifecycle!vars
  BY <1>3 DEF CutoffPasses, Lifecycle!vars
<1>4. ASSUME NEW l \in Loops, Gate(l) PROVE [Lifecycle!Next]_Lifecycle!vars
  BY <1>4 DEF Gate, Lifecycle!vars
<1>5. ASSUME NEW l \in Loops, Select(l) PROVE [Lifecycle!Next]_Lifecycle!vars
  BY <1>5 DEF Select, Lifecycle!vars
<1>6. ASSUME NEW l \in Loops, Claim(l) PROVE [Lifecycle!Next]_Lifecycle!vars
  <2>1. CASE Claimable(held[l])
    <3>1. held[l] \in Jobs /\ Lifecycle!Start(held[l])
      BY <1>6, <2>1 DEF TypeOK, Claim, Claimable, Lifecycle!Start
    <3>. QED  BY <3>1
  <2>2. CASE ~Claimable(held[l])
    BY <1>6, <2>2 DEF Claim, Lifecycle!vars
  <2>. QED  BY <2>1, <2>2
<1>7. ASSUME NEW l \in Loops, Fetch(l) PROVE [Lifecycle!Next]_Lifecycle!vars
  BY <1>7 DEF Fetch, Lifecycle!vars
<1>8. ASSUME NEW l \in Loops, Launch(l) PROVE [Lifecycle!Next]_Lifecycle!vars
  BY <1>8 DEF Launch, Lifecycle!vars
<1>9. ASSUME NEW l \in Loops, Collect(l) PROVE [Lifecycle!Next]_Lifecycle!vars
  BY <1>9 DEF Collect, Lifecycle!vars
<1>10. ASSUME NEW l \in Loops, Mark(l) PROVE [Lifecycle!Next]_Lifecycle!vars
  <2>1. CASE Markable(held[l])
    <3>1. held[l] \in Jobs /\ verdict[l] \in Lifecycle!Verdicts
      BY <1>10 DEF TypeOK, Mark, Lifecycle!Verdicts, Lifecycle!Settled
    <3>2. Lifecycle!Settle(held[l])
      BY <1>10, <2>1, <3>1 DEF Mark, Markable, Outcome, Lifecycle!Settle
    <3>. QED  BY <3>1, <3>2
  <2>2. CASE ~Markable(held[l])
    BY <1>10, <2>2 DEF Mark, Lifecycle!vars
  <2>. QED  BY <2>1, <2>2
<1>11. ASSUME NEW l \in Loops, Leave(l) PROVE [Lifecycle!Next]_Lifecycle!vars
  BY <1>11 DEF Leave, Lifecycle!vars
<1>12. ASSUME NEW w \in Workers, Boot(w) PROVE [Lifecycle!Next]_Lifecycle!vars
  <2>. DEFINE back == {j \in Jobs : Recoverable(j)}
  <2>1. CASE back = {}
    BY <1>12, <2>1 DEF TypeOK, Boot, Lifecycle!vars
  <2>2. CASE back # {}
    <3>1. Lifecycle!Requeue(back)
      BY <1>12, <2>2 DEF Boot, Recoverable, Lifecycle!Requeue
    <3>2. back \in SUBSET Jobs
      OBVIOUS
    <3>. QED  BY <3>1, <3>2
  <2>. QED  BY <2>1, <2>2
<1>13. ASSUME NEW w \in Workers, Stop(w) PROVE [Lifecycle!Next]_Lifecycle!vars
  BY <1>13 DEF Stop, Lifecycle!vars
<1>14. ASSUME NEW w \in Workers, Kill(w) PROVE [Lifecycle!Next]_Lifecycle!vars
  BY <1>14 DEF Kill, Lifecycle!vars
<1>15. ASSUME NEW c \in Clients, NEW j \in Jobs, CancelRead(c, j)
       PROVE  [Lifecycle!Next]_Lifecycle!vars
  <2>1. CASE status[j] \in Settled
    <3>1. reply[c] = "none" /\ reply' = [reply EXCEPT ![c] = "conflict"] /\ status' = status
      BY <1>15, <2>1 DEF CancelRead, Answer, AnswerOnce
    <3>2. Lifecycle!Cancel(c, j)
      BY <2>1, <3>1 DEF Lifecycle!Cancel, Lifecycle!Settled
    <3>. QED  BY <3>2
  <2>2. CASE status[j] \notin Settled
    BY <1>15, <2>2 DEF CancelRead, Lifecycle!vars
  <2>. QED  BY <2>1, <2>2
<1>16. ASSUME NEW c \in Clients, CancelUpdate(c) PROVE [Lifecycle!Next]_Lifecycle!vars
  <2>1. target[c] \in Jobs /\ reply[c] = "none"
    BY <1>16 DEF TypeOK, CancelUpdate, AnswerOnce
  <2>2. status[target[c]] \in Live \cup Settled \cup {"gone"}
    <3>1. status[target[c]] # "none"
      BY <1>16 DEF CancelUpdate, AnswerOnce
    <3>. QED  BY <2>1, <3>1, JobTyped
  <2>3. CASE Cancellable(target[c])
    <3>1. /\ status[target[c]] \in Live
          /\ status' = [status EXCEPT ![target[c]] = "cancelled"]
          /\ reply' = [reply EXCEPT ![c] = "ok"]
      BY <1>16, <2>3 DEF CancelUpdate, Cancellable
    <3>2. Lifecycle!Cancel(c, target[c])
      BY <2>1, <3>1 DEF Lifecycle!Cancel, Lifecycle!Live
    <3>. QED  BY <2>1, <3>2
  <2>4. CASE ~Cancellable(target[c])
    <3>1. status[target[c]] \in Settled \cup {"gone"}
      BY <2>2, <2>4 DEF Cancellable
    <3>2. status' = status /\ reply' = [reply EXCEPT ![c] = "conflict"]
      BY <1>16, <2>4 DEF CancelUpdate, Answer
    <3>3. Lifecycle!Cancel(c, target[c])
      BY <2>1, <3>1, <3>2 DEF Lifecycle!Cancel, Lifecycle!Settled
    <3>. QED  BY <2>1, <3>3
  <2>. QED  BY <2>3, <2>4
<1>17. ASSUME NEW c \in Clients, CancelKill(c) PROVE [Lifecycle!Next]_Lifecycle!vars
  BY <1>17 DEF CancelKill, Lifecycle!vars
<1>18. ASSUME DeleteCheck PROVE [Lifecycle!Next]_Lifecycle!vars
  BY <1>18 DEF DeleteCheck, Lifecycle!vars
<1>19. ASSUME DeleteCommit PROVE [Lifecycle!Next]_Lifecycle!vars
  <2>. DEFINE S == {j \in Owned : status[j] \notin {"none", "gone"}}
  <2>1. /\ status' = [j \in Jobs |-> IF j \in S THEN "gone" ELSE status[j]]
        /\ UNCHANGED reply
    <3>1. status' = [j \in Jobs |-> IF j \in Owned /\ status[j] # "none"
                                   THEN "gone" ELSE status[j]]
      BY <1>19 DEF DeleteCommit
    <3>2. \A j \in Jobs : (IF j \in Owned /\ status[j] # "none" THEN "gone" ELSE status[j])
                           = (IF j \in S THEN "gone" ELSE status[j])
      OBVIOUS
    <3>. QED  BY <1>19, <3>1, <3>2 DEF DeleteCommit
  <2>2. CASE S = {}
    <3>1. status' = status
      BY <2>1, <2>2 DEF TypeOK
    <3>. QED  BY <2>1, <3>1 DEF Lifecycle!vars
  <2>3. CASE S # {}
    <3>1. S \subseteq Jobs /\ \A j \in S : status[j] \in Live \cup Settled
      <4>1. ASSUME NEW j \in S PROVE j \in Jobs /\ status[j] \in Live \cup Settled
        BY JobTyped
      <4>. QED  BY <4>1
    <3>2. Lifecycle!Delete(S)
      BY <2>1, <2>3, <3>1 DEF Lifecycle!Delete, Lifecycle!Live, Lifecycle!Settled
    <3>. QED  BY <3>1, <3>2
  <2>. QED  BY <2>2, <2>3
<1>20. ASSUME NEW l \in Loops, RecordFails(l) PROVE [Lifecycle!Next]_Lifecycle!vars
  BY <1>20 DEF RecordFails, Lifecycle!vars
<1>21. ASSUME NEW l \in Loops, ThreadEnds(l) PROVE [Lifecycle!Next]_Lifecycle!vars
  BY <1>21 DEF ThreadEnds, Lifecycle!vars
<1>22. ASSUME UNCHANGED vars PROVE [Lifecycle!Next]_Lifecycle!vars
  BY <1>22 DEF vars, Lifecycle!vars
<1>. QED
  BY <1>1, <1>2, <1>3, <1>4, <1>5, <1>6, <1>7, <1>8, <1>9, <1>10, <1>11,
     <1>12, <1>13, <1>14, <1>15, <1>16, <1>17, <1>18, <1>19, <1>20, <1>21, <1>22
     DEF Next, LoopStep

\* The separate SELECTs and UPDATEs of the queue, the worker, the cancel route
\* and the deletion of a project are together as good as the atomic steps of
\* JobLifecycle.
THEOREM QueueImplementsLifecycle == Spec => RefinesLifecycle
<1>1. Init => Lifecycle!Init
  BY DEF Init, Lifecycle!Init
<1>2. IInv /\ [Next]_vars => [Lifecycle!Next]_Lifecycle!vars
  BY LifecycleStep DEF IInv
<1>. QED
  BY <1>1, <1>2, InvariantHolds, PTL DEF Spec, RefinesLifecycle, Lifecycle!Spec
=============================================================================
