-------------------------- MODULE ContainerProofs --------------------------
(***************************************************************************)
(* Proofs about the two programs that run in a container, SUPREM-IV in     *)
(* Runner and the bias sweep of DevSim in BiasSweep.                       *)
(*                                                                         *)
(* Runner, for any number of steps, any names and any number of lives of   *)
(* the job.  Until an attempt strays, every file is what one of the saves  *)
(* of its name has written, and no file is missing before one that is      *)
(* there, so whatever resumes or exits with code 0 has skipped nothing.    *)
(* An attempt strays only where two saves share a name.  That no saved     *)
(* step is repeated needs none of this.                                    *)
(*                                                                         *)
(* BiasSweep, for any plan run.py accepts.  The walk visits every value of *)
(* the sweep once, in two legs that go outwards from the middle.  So the   *)
(* walk never stands on or beyond a value that is still to come (Behind),  *)
(* every point is ramped to over at least one solve, and a row is written  *)
(* after the last of them, which was for its voltages (Solved \/ Pending). *)
(* To the start of a curve the same holds as long as no two curves step to *)
(* the same voltages (OnRoute).  What is in iv.jsonl is counted along.     *)
(***************************************************************************)
EXTENDS Runner, BiasSweep, FiniteSetTheorems, FunctionTheorems, SequenceTheorems, TLAPS

\* A step of the system keeps every variable in its type.
LEMMA TypeStep == TypeOK /\ [Next]_vars => TypeOK'
<1> SUFFICES ASSUME TypeOK, [Next]_vars PROVE TypeOK'
    OBVIOUS
<1> USE RunnerAssumption DEF TypeOK, vars, threadVars, boxVars, diskVars, logVars, lifeVars
<1>1. CASE Launch
  <2>1. start.first \in 1..N /\ start.load \in Contents
      OBVIOUS
  <2>2. todo' \in 1..(N + 1) /\ made' \in Contents
      BY <1>1, <2>1 DEF Launch
  <2>3. dog' \in [Kinds -> {"off", "watching", "measuring", "killing"}]
      BY <1>1 DEF Launch
  <2>4. box' \in {"none", "up"} /\ code' \in Codes /\ marked' \in BOOLEAN
      BY <1>1 DEF Launch, Codes
  <2> QED
      BY <1>1, <2>2, <2>3, <2>4 DEF Launch
<1>2. CASE Return
  <2>1. timedOut' \in BOOLEAN /\ code' \in Codes
      BY <1>2 DEF Return, Codes
  <2>2. /\ phase' = "leave"
        /\ UNCHANGED <<kind, tripped, errors, box, todo, made, diskVars, logVars, dog, lifeVars>>
      BY <1>2 DEF Return
  <2> QED
      BY <2>1, <2>2
<1>3. CASE Leave
    BY <1>3 DEF Leave, TripFlag
<1>4. CASE Judge
    BY <1>4 DEF Judge
<1>5. CASE Repair
    BY <1>5 DEF Repair, Kinds
<1>6. CASE Triage
  <2>1. CASE \E p \in 1..N : /\ ResumesAt(p)
                             /\ phase' = "launch" /\ kind' = "resume"
                             /\ start' = After(p)
                             /\ strayed' = (strayed \/ disk[Out[p]] # Through(p))
                             /\ big' \in {big, FALSE}
    <3>1. PICK p \in 1..N : ResumesAt(p) /\ phase' = "launch" /\ kind' = "resume"
                            /\ start' = After(p) /\ big' \in {big, FALSE}
                            /\ strayed' = (strayed \/ disk[Out[p]] # Through(p))
        BY <2>1
    <3>2. start' \in [first : 1..N, load : Contents]
        BY <3>1 DEF ResumesAt, After
    <3>3. strayed' \in BOOLEAN /\ big' \in BOOLEAN
        BY <3>1
    <3> QED
        BY <1>6, <3>1, <3>2, <3>3 DEF Triage, Kinds
  <2>2. CASE phase' = "finish" /\ UNCHANGED <<kind, start, big, strayed>>
      BY <1>6, <2>2 DEF Triage
  <2> QED
      BY <1>6, <2>1, <2>2 DEF Triage
<1>7. CASE Finish
    BY <1>7 DEF Finish
<1>8. CASE SimStep
  <2>1. todo \in 1..N /\ made' = made \cup {todo}
      BY <1>8 DEF SimStep
  <2>2. made' \in Contents
      BY <2>1 DEF Contents, Broken
  <2>3. disk' \in [Names -> Contents]
      BY <1>8, <2>1, <2>2 DEF SimStep
  <2>4. todo' \in 1..(N + 1) /\ fresh' \subseteq 1..N
      BY <1>8, <2>1 DEF SimStep
  <2>5. UNCHANGED <<threadVars, box, code, start, big, logVars, dog, lifeVars>>
      BY <1>8 DEF SimStep
  <2> QED
      BY <2>2, <2>3, <2>4, <2>5
<1>9. CASE SimPrints
  <2>1. printed' \subseteq {"head", "later"} /\ long' \in BOOLEAN /\ big' \in BOOLEAN
      BY <1>9 DEF SimPrints
  <2>2. UNCHANGED <<threadVars, boxVars, start, disk, fresh, panicked, marked, dog, lifeVars>>
      BY <1>9 DEF SimPrints
  <2> QED
      BY <2>1, <2>2
<1>10. CASE SimExits
    BY <1>10 DEF SimExits, Ends, Codes
<1>11. CASE SimPanics
  <2>1. made \cup {Broken} \in Contents
      BY DEF Contents, Broken
  <2>2. disk' \in [Names -> Contents]
      BY <1>11, <2>1 DEF SimPanics
  <2> QED
      BY <1>11, <2>2 DEF SimPanics, Ends, Codes
<1>12. CASE SimCrashes
    BY <1>12 DEF SimCrashes, Ends, Codes
<1>13. CASE BoxExpires
    BY <1>13 DEF BoxExpires, Ends, Codes
<1>14. CASE CancelKill
    BY <1>14 DEF CancelKill, Ends, Codes
<1>15. ASSUME NEW k \in Kinds, DogLooks(k) PROVE TypeOK'
    BY <1>15 DEF DogLooks
<1>16. ASSUME NEW k \in Kinds, DogCounts(k) PROVE TypeOK'
    BY <1>16 DEF DogCounts
<1>17. ASSUME NEW k \in Kinds, DogKills(k) PROVE TypeOK'
    BY <1>17 DEF DogKills, Ends, Codes
<1>18. CASE UNCHANGED vars
    BY <1>18
<1>19. CASE Requeue
  <2>1. start' \in [first : 1..N, load : Contents] /\ todo' \in 1..(N + 1) /\ made' \in Contents
      BY <1>19 DEF Requeue, Contents, Broken
  <2>2. dog' \in [Kinds -> {"off", "watching", "measuring", "killing"}]
      BY <1>19 DEF Requeue
  <2>3. requeued' \in 0..MaxRequeues
      BY <1>19 DEF Requeue
  <2> QED
      BY <1>19, <2>1, <2>2, <2>3 DEF Requeue, Kinds, Codes
<1> QED
    BY <1>1, <1>2, <1>3, <1>4, <1>5, <1>6, <1>7, <1>8, <1>9, <1>10, <1>11, <1>12,
       <1>13, <1>14, <1>15, <1>16, <1>17, <1>18, <1>19 DEF Next, Thread

LEMMA TypeInit == Init => TypeOK
<1> SUFFICES ASSUME Init PROVE TypeOK
    OBVIOUS
<1> USE RunnerAssumption DEF Init
<1>1. {0} \in Contents /\ {} \in Contents
    BY DEF Contents, Broken
<1>2. disk \in [Names -> Contents]
    BY <1>1
<1>3. start \in [first : 1..N, load : Contents] /\ todo \in 1..(N + 1) /\ made \in Contents
    BY <1>1
<1>4. /\ dog \in [Kinds -> {"off", "watching", "measuring", "killing"}]
      /\ kind \in Kinds /\ code \in Codes
    BY DEF Kinds, Codes
<1>5. requeued \in 0..MaxRequeues /\ errors = {} /\ fresh = {} /\ printed = {}
    OBVIOUS
<1>6. /\ phase = "launch" /\ box = "none"
      /\ timedOut \in BOOLEAN /\ tripped \in BOOLEAN /\ big \in BOOLEAN /\ panicked \in BOOLEAN
      /\ marked \in BOOLEAN /\ long \in BOOLEAN /\ cancelled \in BOOLEAN /\ strayed \in BOOLEAN
    OBVIOUS
<1> HIDE RunnerAssumption DEF Init
<1> QED
    BY <1>2, <1>3, <1>4, <1>5, <1>6 DEF TypeOK

\* Every variable of a run keeps its type: in particular the resumed script
\* always starts at a step the source has.
THEOREM RunnerTypes == Spec => []TypeOK
<1> QED
    BY TypeInit, TypeStep, PTL DEF Spec
-----------------------------------------------------------------------------
\* At the start there is no file and nothing has run.
LEMMA RunInit == Init => IInv
<1> SUFFICES ASSUME Init PROVE IInv
    OBVIOUS
<1> USE RunnerAssumption DEF Init
<1>1. \A p \in Kept : ~There(p) /\ p >= 1
    BY DEF There, Kept
<1>2. \A q \in 1..N : 0 \in Through(q)
    BY DEF Through
<1>3. DiskRight
  <2>1. \A q \in Kept : disk[Out[q]] # Through(q)
      BY <1>1, <1>2 DEF There, Kept
  <2> QED
      BY <1>1, <2>1 DEF DiskRight
<1>4. StartRight
    BY <1>1 DEF StartRight, Through, Kept
<1>5. BoxRight /\ StrayedByName /\ NothingRan /\ ZeroIsAll
    BY DEF BoxRight, StrayedByName, NothingRan, ZeroIsAll
<1> QED
    BY <1>3, <1>4, <1>5, TypeInit DEF IInv

\* Saving the next step keeps the files whole and without gaps.
LEMMA SaveStep ==
    ASSUME IInv, SimStep
    PROVE  /\ \A p \in Kept : There(p) \/ p = todo => There(p)'
           /\ DiskRight' /\ (~strayed => made' = Through(todo' - 1))
<1> USE RunnerAssumption DEF SimStep
<1>1. /\ TypeOK /\ todo \in 1..N /\ box = "up"
      /\ ~strayed => made = Through(todo - 1) /\ \A p \in Kept : p < todo => There(p)
    BY DEF IInv, TypeOK, BoxRight
<1>2. /\ made' # {} /\ todo' = todo + 1 /\ fresh' = fresh \cup {todo} /\ strayed' = strayed
      /\ ~strayed => made' = Through(todo)
    BY <1>1 DEF Through, lifeVars
<1>3. \A p \in 1..N : disk'[Out[p]] = IF Out[p] = Out[todo] THEN made' ELSE disk[Out[p]]
    BY <1>1 DEF TypeOK
<1>4. \A p \in Kept : There(p) \/ p = todo => There(p)'
    BY <1>2, <1>3 DEF There, Kept
<1>5. DiskRight'
  <2>1. DiskRight
      BY DEF IInv
  <2>2. \A p \in fresh' \cap Kept : There(p)'
      BY <1>2, <1>4, <2>1 DEF DiskRight, Kept
  <2>3. ASSUME ~strayed, NEW p \in Kept, There(p)'
        PROVE  \E q \in 1..N : Out[q] = Out[p] /\ disk'[Out[p]] = Through(q)
    <3>1. CASE Out[p] = Out[todo]
        BY <1>1, <1>2, <1>3, <2>3, <3>1 DEF Kept
    <3>2. CASE Out[p] # Out[todo]
        BY <1>3, <2>1, <2>3, <3>2 DEF DiskRight, There, Kept
    <3> QED
        BY <3>1, <3>2
  <2>4. ASSUME ~strayed, NEW p \in Kept, NEW q \in Kept, p < q, disk'[Out[q]] = Through(q)
        PROVE  There(p)'
    <3>1. CASE Out[q] = Out[todo]
      <4>1. Through(q) = Through(todo)
          BY <1>2, <1>3, <2>4, <3>1 DEF Kept
      <4>2. q \in Through(q)
          BY DEF Through, Kept
      <4>3. q <= todo
        <5>1. q \in Through(todo)
            BY <4>1, <4>2
        <5> HIDE RunnerAssumption
        <5> QED
            BY <5>1 DEF Through
      <4> QED
          BY <1>1, <1>4, <2>4, <4>3 DEF Kept
    <3>2. CASE Out[q] # Out[todo]
        BY <1>3, <1>4, <2>1, <2>4, <3>2 DEF DiskRight, Kept
    <3> QED
        BY <3>1, <3>2
  <2> QED
      BY <1>2, <2>2, <2>3, <2>4 DEF DiskRight
<1> QED
  <2>1. todo' - 1 = todo
      BY <1>1, <1>2
  <2> QED
      BY <1>2, <1>4, <1>5, <2>1

-----------------------------------------------------------------------------
\* Steps that leave the files and the script alone.
Untouched == UNCHANGED <<start, disk, fresh, todo, made, strayed>>

LEMMA UntouchedFiles ==
    ASSUME IInv, Untouched
    PROVE  DiskRight' /\ StrayedByName' /\ (\A p \in Kept : There(p)' <=> There(p))
BY DEF IInv, DiskRight, StrayedByName, Untouched, There

\* A resume goes on behind the last save whose file is there.
LEMMA ResumeStep ==
    ASSUME IInv, NEW p \in 1..N, ResumesAt(p),
           phase' = "launch", kind' = "resume", start' = After(p),
           strayed' = (strayed \/ disk[Out[p]] # Through(p)),
           UNCHANGED <<disk, fresh, todo, made, box, code, timedOut>>, phase = "triage"
    PROVE  DiskRight' /\ StartRight' /\ BoxRight' /\ StrayedByName' /\ NothingRan' /\ ZeroIsAll'
<1> USE RunnerAssumption
<1>0. TypeOK /\ DiskRight /\ StartRight /\ BoxRight /\ StrayedByName /\ NothingRan /\ ZeroIsAll
    BY DEF IInv
<1>1. p \in Kept /\ There(p) /\ (\A q \in Kept : There(q) => q <= p) /\ ~timedOut /\ code # "zero"
    BY DEF ResumesAt, Checkpoint, Resumable, Kept, There, WorthResuming
<1>2. start'.first = p + 1 /\ start'.load = disk[Out[p]]
    BY DEF After
<1>3. \A q \in Kept : There(q)' <=> There(q)
    BY DEF There
<1>4. DiskRight'
    BY <1>0, <1>3 DEF DiskRight
<1>5. StartRight'
  <2>1. \A q \in fresh' \cap Kept : q < p + 1
      BY <1>0, <1>1 DEF DiskRight, Kept
  <2>2. ASSUME ~strayed'
        PROVE  start'.load = Through(p) /\ \A q \in Kept : q < p + 1 => There(q)'
    <3>1. ~strayed /\ disk[Out[p]] = Through(p)
        BY <2>2
    <3>2. ASSUME NEW q \in Kept, q < p + 1 PROVE There(q)
      <4>1. CASE q = p
          BY <1>1, <4>1
      <4>2. CASE q # p
          BY <1>0, <1>1, <3>1, <3>2, <4>2 DEF DiskRight, Kept
      <4> QED
          BY <4>1, <4>2
    <3> QED
        BY <1>2, <1>3, <3>1, <3>2
  <2>3. start'.first - 1 = p
      BY <1>2
  <2> QED
      BY <1>2, <2>1, <2>2, <2>3 DEF StartRight
<1>6. StrayedByName'
  <2>1. CASE strayed
      BY <1>0, <2>1 DEF StrayedByName
  <2>2. ASSUME ~strayed, strayed' PROVE ~Distinct
    <3>1. PICK q \in 1..N : Out[q] = Out[p] /\ disk[Out[p]] = Through(q)
        BY <1>0, <1>1, <2>2 DEF DiskRight
    <3>2. q # p /\ q \in Kept
        BY <1>1, <2>2, <3>1 DEF Kept
    <3> QED
        BY <1>1, <3>1, <3>2 DEF Distinct
  <2> QED
      BY <2>1, <2>2 DEF StrayedByName, Distinct, Kept
<1>7. box = "none"
    BY <1>0, <1>1 DEF BoxRight, TypeOK
<1>8. BoxRight' /\ NothingRan' /\ ZeroIsAll'
    BY <1>0, <1>1, <1>7 DEF BoxRight, NothingRan, ZeroIsAll
<1> QED
    BY <1>4, <1>5, <1>6, <1>8

\* Every step preserves the invariant.
LEMMA RunStep == IInv /\ [Next]_vars => IInv'
<1> SUFFICES ASSUME IInv, [Next]_vars PROVE IInv'
    OBVIOUS
<1>0. /\ TypeOK /\ TypeOK' /\ DiskRight /\ StartRight /\ BoxRight /\ StrayedByName
      /\ NothingRan /\ ZeroIsAll
    BY TypeStep DEF IInv
<1> USE RunnerAssumption DEF vars, threadVars, boxVars, diskVars, logVars, lifeVars
<1>1. CASE Launch
  <2>1. UNCHANGED <<start, disk, fresh, strayed>> /\ todo' = start.first /\ made' = start.load
      BY <1>1 DEF Launch
  <2>2. DiskRight' /\ StrayedByName' /\ (\A p \in Kept : There(p)' <=> There(p))
    <3>1. StrayedByName' /\ (\A p \in Kept : There(p)' <=> There(p))
        BY <1>0, <2>1 DEF StrayedByName, There
    <3> QED
        BY <1>0, <2>1, <3>1 DEF DiskRight
  <2>3. box = "none" /\ timedOut = FALSE
      BY <1>0, <1>1 DEF Launch, BoxRight, TypeOK
  <2>4. StartRight'
      BY <1>0, <1>1, <2>1, <2>2 DEF Launch, StartRight
  <2>5. BoxRight'
      BY <1>0, <1>1, <2>1, <2>2, <2>3 DEF Launch, BoxRight, StartRight
  <2>6. NothingRan'
    <3>1. phase' = "wait" /\ UNCHANGED <<kind, fresh>>
        BY <1>1 DEF Launch
    <3>2. (box' = "up" /\ code' = code) \/ box' = box
        BY <1>1 DEF Launch
    <3>3. kind = "first" => fresh = {} /\ code # "podman"
        BY <1>0, <1>1 DEF Launch, NothingRan, BoxRight, TypeOK
    <3> QED
        BY <2>3, <3>1, <3>2, <3>3 DEF NothingRan
  <2>7. ZeroIsAll'
      BY <1>1 DEF Launch, ZeroIsAll
  <2> QED
      BY <1>0, <2>2, <2>4, <2>5, <2>6, <2>7 DEF IInv
<1>2. CASE Return \/ Leave \/ Judge \/ Repair \/ Finish
  <2>1. Untouched /\ UNCHANGED <<box>>
      BY <1>2 DEF Return, Leave, Judge, Repair, Finish, Untouched
  <2>2. DiskRight' /\ StrayedByName' /\ (\A p \in Kept : There(p)' <=> There(p))
      BY <2>1, UntouchedFiles
  <2>3. BoxRight'
      BY <1>0, <1>2, <2>1, <2>2 DEF Return, Leave, Judge, Repair, Finish, BoxRight, Untouched,
         WorthRetrying, InfraFailure, TypeOK
  <2>4. NothingRan'
    <3>1. UNCHANGED <<box, fresh>>
        BY <2>1 DEF Untouched
    <3>2. CASE Return
      <4>1. phase = "wait" /\ phase' = "leave" /\ kind' = kind
            /\ (code' = code \/ code' = "late")
          BY <3>2 DEF Return
      <4> QED
          BY <1>0, <3>1, <4>1 DEF NothingRan
    <3>3. CASE Leave
      <4>1. phase = "leave" /\ phase' = "judge" /\ UNCHANGED <<kind, code>>
          BY <3>3 DEF Leave
      <4> QED
          BY <1>0, <3>1, <4>1 DEF NothingRan
    <3>4. CASE Judge
      <4>1. phase = "judge" /\ UNCHANGED <<kind, code>>
            /\ ((phase' = "repair" /\ code = "podman" /\ kind = "first") \/ phase' = "triage")
          BY <3>4 DEF Judge, WorthRetrying, InfraFailure
      <4> QED
          BY <1>0, <3>1, <4>1 DEF NothingRan
    <3>5. CASE Repair
      <4>1. phase = "repair" /\ code' = code
            /\ ((phase' = "launch" /\ kind' = "retry") \/ (phase' = "triage" /\ kind' = kind))
          BY <3>5 DEF Repair
      <4> QED
          BY <1>0, <3>1, <4>1 DEF NothingRan, TypeOK, Kinds
    <3>6. CASE Finish
      <4>1. phase = "finish" /\ phase' = "over" /\ UNCHANGED <<kind, code>>
          BY <3>6 DEF Finish
      <4> QED
          BY <1>0, <3>1, <4>1 DEF NothingRan
    <3> QED
        BY <1>2, <3>2, <3>3, <3>4, <3>5, <3>6
  <2>5. StartRight'
      BY <1>0, <1>2, <2>1, <2>2, <2>4 DEF Return, Leave, Judge, Repair, Finish, StartRight,
         NothingRan, Untouched
  <2>6. ZeroIsAll'
      BY <1>0, <1>2, <2>1, <2>2 DEF Return, Leave, Judge, Repair, Finish, ZeroIsAll, Untouched
  <2> QED
      BY <1>0, <2>2, <2>3, <2>4, <2>5, <2>6 DEF IInv
<1>3. CASE Triage
  <2>1. UNCHANGED <<disk, fresh, todo, made, box, code, timedOut>> /\ phase = "triage"
      BY <1>3 DEF Triage
  <2>2. CASE phase' = "finish" /\ UNCHANGED <<kind, start, big, strayed>>
    <3>1. Untouched
        BY <2>1, <2>2 DEF Untouched
    <3>2. DiskRight' /\ StrayedByName' /\ (\A p \in Kept : There(p)' <=> There(p))
        BY <3>1, UntouchedFiles
    <3>3. BoxRight' /\ StartRight' /\ NothingRan' /\ ZeroIsAll'
        BY <1>0, <2>1, <2>2, <3>2 DEF BoxRight, StartRight, NothingRan, ZeroIsAll
    <3> QED
        BY <1>0, <3>2, <3>3 DEF IInv
  <2>3. ASSUME NEW p \in 1..N, ResumesAt(p), phase' = "launch", kind' = "resume", start' = After(p),
               strayed' = (strayed \/ disk[Out[p]] # Through(p))
        PROVE  IInv'
      BY <1>0, <2>1, <2>3, ResumeStep DEF IInv
  <2> QED
      BY <1>3, <2>2, <2>3 DEF Triage
<1>4. CASE SimStep
  <2>1. /\ \A p \in Kept : There(p) \/ p = todo => There(p)'
        /\ DiskRight' /\ (~strayed => made' = Through(todo' - 1))
      BY <1>4, SaveStep
  <2>2. /\ todo \in 1..N /\ todo' = todo + 1 /\ fresh' = fresh \cup {todo} /\ box = "up"
        /\ UNCHANGED <<phase, kind, timedOut, box, code, start, strayed>>
      BY <1>0, <1>4 DEF SimStep, TypeOK
  <2>3. phase # "launch"
      BY <1>0, <2>2 DEF BoxRight
  <2>4. StartRight' /\ StrayedByName'
      BY <1>0, <2>1, <2>2, <2>3 DEF StartRight, StrayedByName, Kept
  <2>5. BoxRight'
      BY <1>0, <2>1, <2>2, <2>3 DEF BoxRight, Kept
  <2>6. NothingRan'
      BY <1>0, <2>2, <2>3 DEF NothingRan, BoxRight
  <2>7. ZeroIsAll'
      BY <1>0, <2>1, <2>2 DEF ZeroIsAll
  <2> QED
      BY <1>0, <2>1, <2>4, <2>5, <2>6, <2>7 DEF IInv
<1>5. CASE SimPrints
  <2>1. Untouched /\ UNCHANGED <<phase, kind, timedOut, box, code>>
      BY <1>5 DEF SimPrints, Untouched
  <2>2. DiskRight' /\ StrayedByName' /\ (\A p \in Kept : There(p)' <=> There(p))
      BY <2>1, UntouchedFiles
  <2> QED
      BY <1>0, <2>1, <2>2 DEF IInv, StartRight, BoxRight, NothingRan, ZeroIsAll, Untouched
<1>6. CASE SimExits
  <2>1. /\ Untouched /\ UNCHANGED <<phase, kind, timedOut>>
        /\ box = "up" /\ box' = "none" /\ todo = N + 1
        /\ code' = IF phase = "wait" THEN "zero" ELSE code
      BY <1>6 DEF SimExits, Ends, Untouched
  <2>2. DiskRight' /\ StrayedByName' /\ (\A p \in Kept : There(p)' <=> There(p))
      BY <2>1, UntouchedFiles
  <2>3. ~strayed => \A p \in Kept : There(p)
      BY <1>0, <2>1 DEF BoxRight, Kept
  <2>4. BoxRight' /\ StartRight'
      BY <1>0, <2>1, <2>2 DEF BoxRight, StartRight, Untouched
  <2>5. NothingRan' /\ ZeroIsAll'
      BY <1>0, <2>1, <2>2, <2>3 DEF NothingRan, ZeroIsAll, Untouched
  <2> QED
      BY <1>0, <2>2, <2>4, <2>5 DEF IInv
<1>7. CASE SimPanics
  <2>1. /\ UNCHANGED <<start, fresh, todo, made, phase, kind, timedOut, strayed>>
        /\ box = "up" /\ box' = "none"
        /\ code' = IF phase = "wait" THEN "panic" ELSE code
        /\ disk' = [disk EXCEPT ![Dump] = made \cup {Broken}]
      BY <1>7 DEF SimPanics, Ends
  <2>2. \A p \in Kept : disk'[Out[p]] = disk[Out[p]]
      BY <1>0, <2>1 DEF Kept, TypeOK
  <2>3. \A p \in Kept : There(p)' <=> There(p)
      BY <2>2 DEF There
  <2>4. StrayedByName'
      BY <1>0, <2>1 DEF StrayedByName
  <2>5. DiskRight'
    <3>1. \A p \in fresh' \cap Kept : There(p)'
        BY <1>0, <2>1, <2>3 DEF DiskRight
    <3>2. ASSUME ~strayed', NEW p \in Kept, There(p)'
          PROVE  \E q \in 1..N : Out[q] = Out[p] /\ disk'[Out[p]] = Through(q)
        BY <1>0, <2>1, <2>2, <2>3, <3>2 DEF DiskRight
    <3>3. ASSUME ~strayed', NEW p \in Kept, NEW q \in Kept, p < q, disk'[Out[q]] = Through(q)
          PROVE  There(p)'
        BY <1>0, <2>1, <2>2, <2>3, <3>3 DEF DiskRight
    <3> QED
        BY <3>1, <3>2, <3>3 DEF DiskRight
  <2>6. BoxRight' /\ StartRight'
      BY <1>0, <2>1, <2>3 DEF BoxRight, StartRight
  <2>7. NothingRan' /\ ZeroIsAll'
      BY <1>0, <2>1, <2>3 DEF NothingRan, ZeroIsAll
  <2> QED
      BY <1>0, <2>4, <2>5, <2>6, <2>7 DEF IInv
<1>8. ASSUME NEW how \in Codes \ {"zero", "podman", "late"},
             Ends(how) \/ UNCHANGED <<box, code>>,
             Untouched, UNCHANGED <<phase, kind, timedOut>>
      PROVE  IInv'
  <2>1. DiskRight' /\ StrayedByName' /\ (\A p \in Kept : There(p)' <=> There(p))
      BY <1>8, UntouchedFiles
  <2>2. BoxRight' /\ StartRight'
      BY <1>0, <1>8, <2>1 DEF BoxRight, StartRight, Untouched, Ends
  <2>3. NothingRan' /\ ZeroIsAll'
      BY <1>0, <1>8, <2>1 DEF NothingRan, ZeroIsAll, Untouched, Ends, BoxRight
  <2> QED
      BY <1>0, <2>1, <2>2, <2>3 DEF IInv
<1>9. CASE SimCrashes \/ BoxExpires \/ CancelKill \/ (\E k \in Kinds : DogKills(k))
      \/ (\E k \in Kinds : DogLooks(k) \/ DogCounts(k)) \/ UNCHANGED vars
  <2>1. \E how \in {"crash", "other", "expired", "stopped", "shot"} :
            Ends(how) \/ UNCHANGED <<box, code>>
      BY <1>9 DEF SimCrashes, BoxExpires, CancelKill, DogKills, DogLooks, DogCounts
  <2>2. Untouched /\ UNCHANGED <<phase, kind, timedOut>>
      BY <1>9 DEF SimCrashes, BoxExpires, CancelKill, DogKills, DogLooks, DogCounts, Untouched
  <2> QED
      BY <1>8, <2>1, <2>2 DEF Codes
<1>10. CASE Requeue
  <2>1. /\ phase' = "launch" /\ kind' = "first" /\ timedOut' = FALSE
        /\ box' = "none" /\ code' = "zero" /\ fresh' = {}
        /\ start' = [first |-> 1, load |-> {0}]
        /\ UNCHANGED <<disk, strayed>>
      BY <1>10 DEF Requeue
  <2>2. \A p \in Kept : (There(p)' <=> There(p)) /\ ~(p < 1)
      BY <2>1 DEF There, Kept
  <2>3. DiskRight' /\ StrayedByName'
      BY <1>0, <2>1, <2>2 DEF DiskRight, StrayedByName
  <2>4. StartRight'
      BY <2>1, <2>2 DEF StartRight, Through
  <2>5. BoxRight' /\ NothingRan' /\ ZeroIsAll'
      BY <2>1 DEF BoxRight, NothingRan, ZeroIsAll
  <2> QED
      BY <1>0, <2>3, <2>4, <2>5 DEF IInv
<1> QED
    BY <1>1, <1>2, <1>3, <1>4, <1>5, <1>6, <1>7, <1>9, <1>10 DEF Next, Thread

\* A run that counts as a success has every file its source saves, written by a
\* save of that name after all the steps before it: whatever crashed, panicked, was
\* killed, retried, resumed or left over, unless it was resumed behind a save that
\* had not happened.
THEOREM RunSkipsNothing == Spec => []NothingSkipped
<1>1. IInv => NothingSkipped
    BY DEF IInv, DiskRight, ZeroIsAll, NothingSkipped, Succeeded, Kept
<1> QED
    BY <1>1, RunInit, RunStep, PTL DEF Spec

\* find_checkpoint mistakes one save for another only where two have a name in
\* common.
THEOREM OnlySharedNamesStray == Spec => [](strayed => ~Distinct)
<1>1. IInv => (strayed => ~Distinct)
    BY DEF IInv, StrayedByName
<1> QED
    BY <1>1, RunInit, RunStep, PTL DEF Spec

\* No saved step runs twice in one run, whatever the names.
THEOREM RunRepeatsNothing == Spec => []NoStepRepeated
<1>1. IInv => NoStepRepeated
    BY DEF IInv, BoxRight, NoStepRepeated, Kept, TypeOK
<1> QED
    BY <1>1, RunInit, RunStep, PTL DEF Spec
-----------------------------------------------------------------------------
(* What the reader is told, for any names: no resume has to find its file. *)

\* While nothing was resumed the directory has never become smaller, so whoever
\* kills for its size, or has killed, leaves it over the limit for Finish to see.
Blame ==
    /\ phase # "wait" /\ box = "up" => timedOut
    /\ timedOut => code = "late" /\ phase \notin {"launch", "wait", "repair"}
    /\ phase = "repair" => kind = "first"
    /\ kind # "resume" =>
          /\ \A k \in Kinds : dog[k] = "killing" => big
          /\ code = "shot" => big
    /\ phase = "over" /\ errors = {} => printed = {} \/ (long /\ "head" \notin printed)
    /\ KillIsExplained

LEMMA BlameInit == Init => Blame
BY DEF Init, Blame, KillIsExplained

\* A container that ends while nobody waits for it changes no code, and the
\* watchdog that shoots it has found the directory too big.
LEMMA BoxEndsBlame ==
    ASSUME Blame, NEW how \in Codes, Ends(how), how = "shot" /\ kind # "resume" => big,
           UNCHANGED <<phase, kind, timedOut, errors, big, printed, long>>,
           \A k \in Kinds : dog'[k] = "killing" => dog[k] = "killing"
    PROVE  Blame'
<1>1. box' = "none" /\ code' = IF phase = "wait" THEN how ELSE code
  BY DEF Ends
<1>2. phase = "over" => code' = code
  BY <1>1
<1> QED
  BY <1>1, <1>2 DEF Blame, KillIsExplained

LEMMA BlameStep == TypeOK /\ Blame /\ [Next]_vars => Blame'
<1> SUFFICES ASSUME TypeOK, Blame, [Next]_vars PROVE Blame'
  OBVIOUS
<1> USE DEF vars, threadVars, boxVars, diskVars, logVars, lifeVars
<1>1. CASE Launch
  <2>1. /\ phase = "launch" /\ phase' = "wait"
        /\ code' = code \/ code' = "podman"
        /\ UNCHANGED <<kind, timedOut, big>>
    BY <1>1 DEF Launch
  <2>2. \A k \in Kinds : dog'[k] = "killing" => dog[k] = "killing"
    BY <1>1 DEF Launch, TypeOK
  <2>3. ~timedOut
    BY <2>1 DEF Blame
  <2> QED
    BY <2>1, <2>2, <2>3 DEF Blame, KillIsExplained
<1>2. CASE Return
  <2>1. /\ phase' = "leave"
        /\ (box = "none" /\ UNCHANGED <<timedOut, code>>)
           \/ (timedOut' = TRUE /\ code' = "late")
        /\ UNCHANGED <<kind, box, big, dog>>
    BY <1>2 DEF Return
  <2>2. phase = "wait"
    BY <1>2 DEF Return
  <2> QED
    BY <2>1, <2>2 DEF Blame, KillIsExplained
<1>3. CASE Leave
  <2>1. \A k \in Kinds : dog'[k] = "killing" => dog[k] = "killing"
    BY <1>3 DEF Leave, TypeOK
  <2>2. phase = "leave" /\ phase' = "judge" /\ UNCHANGED <<kind, timedOut, box, code, big>>
    BY <1>3 DEF Leave
  <2> QED
    BY <2>1, <2>2 DEF Blame, KillIsExplained
<1>4. CASE Judge
  <2>1. /\ phase = "judge"
        /\ (phase' = "repair" /\ code = "podman" /\ kind = "first") \/ phase' = "triage"
        /\ UNCHANGED <<kind, timedOut, box, code, big, dog>>
    BY <1>4 DEF Judge, WorthRetrying, InfraFailure
  <2> QED
    BY <2>1 DEF Blame, KillIsExplained
<1>5. CASE Repair
  <2>1. /\ phase = "repair"
        /\ (phase' = "launch" /\ kind' = "retry") \/ (phase' = "triage" /\ kind' = kind)
        /\ UNCHANGED <<timedOut, box, code, big, dog>>
    BY <1>5 DEF Repair
  <2>2. kind = "first"
    BY <2>1 DEF Blame
  <2> QED
    BY <2>1, <2>2 DEF Blame, KillIsExplained
<1>6. CASE Triage
  <2>1. /\ phase = "triage"
        /\ \/ phase' = "launch" /\ kind' = "resume" /\ ~timedOut
           \/ phase' = "finish" /\ UNCHANGED <<kind, big>>
        /\ UNCHANGED <<timedOut, box, code, dog>>
    BY <1>6 DEF Triage, ResumesAt, WorthResuming
  <2> QED
    BY <2>1 DEF Blame, KillIsExplained
<1>7. CASE Finish
  <2>1. PICK shown \in Shown :
           errors' = (IF shown # {} THEN {"log"} ELSE {})
                \cup (IF Overflow THEN {"overflow"} ELSE {})
                \cup (IF code \in Signals THEN {"abnormal"} ELSE {})
                \cup (IF InfraFailure THEN {"advice"} ELSE {})
    BY <1>7 DEF Finish
  <2>2. /\ phase' = "over" /\ phase = "finish"
        /\ UNCHANGED <<kind, timedOut, box, code, big, dog, printed, long>>
    BY <1>7 DEF Finish
  <2>3. code = "shot" => "abnormal" \in errors' /\ (big => "overflow" \in errors')
    BY <2>1 DEF Signals, Overflow
  <2>4. KillIsExplained'
    BY <2>2, <2>3 DEF Blame, KillIsExplained
  <2>5. errors' = {} => shown = {}
    BY <2>1
  <2>6. errors' = {} => printed = {} \/ (long /\ "head" \notin printed)
    BY <2>5 DEF Shown
  <2> QED
    BY <2>2, <2>4, <2>6 DEF Blame
<1>8. CASE SimStep
  BY <1>8 DEF SimStep, Blame, KillIsExplained
<1>9. CASE SimPrints
  <2>1. /\ box = "up"
        /\ phase = "wait" \/ (big' = TRUE /\ UNCHANGED <<printed, long>>)
        /\ big' = big \/ big' = TRUE
        /\ UNCHANGED <<phase, kind, timedOut, errors, box, code, dog>>
    BY <1>9 DEF SimPrints
  <2>2. phase = "over" => code = "late"
    BY <2>1 DEF Blame
  <2> QED
    BY <2>1, <2>2 DEF Blame, KillIsExplained
<1>10. CASE SimExits
  BY <1>10, BoxEndsBlame DEF SimExits, Codes
<1>11. CASE SimPanics
  BY <1>11, BoxEndsBlame DEF SimPanics, Codes
<1>12. CASE SimCrashes
  BY <1>12, BoxEndsBlame DEF SimCrashes, Codes
<1>13. CASE BoxExpires
  BY <1>13, BoxEndsBlame DEF BoxExpires, Codes
<1>14. CASE CancelKill
  <2>1. CASE Ends("stopped")
    BY <1>14, <2>1, BoxEndsBlame DEF CancelKill, Codes
  <2>2. CASE UNCHANGED <<box, code>>
    BY <1>14, <2>2 DEF CancelKill, Blame, KillIsExplained
  <2> QED
    BY <1>14, <2>1, <2>2 DEF CancelKill
<1>15. ASSUME NEW k \in Kinds, DogLooks(k) PROVE Blame'
  <2>1. \A i \in Kinds : dog'[i] = "killing" => dog[i] = "killing"
    BY <1>15 DEF DogLooks, TypeOK
  <2> QED
    BY <1>15, <2>1 DEF DogLooks, Blame, KillIsExplained
<1>16. ASSUME NEW k \in Kinds, DogCounts(k) PROVE Blame'
  <2>1. \A i \in Kinds : dog'[i] = "killing" => dog[i] = "killing" \/ big
    BY <1>16 DEF DogCounts, TypeOK
  <2>2. UNCHANGED <<phase, kind, timedOut, errors, box, code, big, printed, long>>
    BY <1>16 DEF DogCounts
  <2> QED
    BY <2>1, <2>2 DEF Blame, KillIsExplained
<1>17. ASSUME NEW k \in Kinds, DogKills(k) PROVE Blame'
  <2>1. dog[k] = "killing" /\ \A i \in Kinds : dog'[i] = "killing" => dog[i] = "killing"
    BY <1>17 DEF DogKills, TypeOK
  <2>2. UNCHANGED <<phase, kind, timedOut, errors, big, printed, long>>
    BY <1>17 DEF DogKills
  <2>3. CASE Ends("shot")
    <3>1. kind # "resume" => big
      BY <2>1 DEF Blame
    <3> QED
      BY <2>1, <2>2, <2>3, <3>1, BoxEndsBlame DEF Codes
  <2>4. CASE UNCHANGED <<box, code>>
    BY <2>1, <2>2, <2>4 DEF Blame, KillIsExplained
  <2> QED
    BY <1>17, <2>3, <2>4 DEF DogKills
<1>18. CASE UNCHANGED vars
  BY <1>18 DEF Blame, KillIsExplained
<1>19. CASE Requeue
  <2>1. /\ phase' = "launch" /\ kind' = "first" /\ timedOut' = FALSE
        /\ box' = "none" /\ code' = "zero" /\ dog' = [k \in Kinds |-> "off"]
    BY <1>19 DEF Requeue
  <2> QED
    BY <2>1 DEF Blame, KillIsExplained
<1> QED
  BY <1>1, <1>2, <1>3, <1>4, <1>5, <1>6, <1>7, <1>8, <1>9, <1>10, <1>11, <1>12,
     <1>13, <1>14, <1>15, <1>16, <1>17, <1>18, <1>19 DEF Next, Thread

\* results.py: a run that counts as a success has printed no error line that the
\* cut of the log could not have swallowed, in whichever attempt.
THEOREM SuccessPrintedNothing == Spec => []SuccessIsClean
<1>1. Blame => SuccessIsClean
  BY DEF Blame, SuccessIsClean, Succeeded
<1> QED
  BY <1>1, BlameInit, BlameStep, RunnerTypes, PTL DEF Spec

\* watchdog.py: whoever it shoots, and whenever, the reader is told.
THEOREM EveryKillIsExplained == Spec => []KillIsExplained
<1>1. Blame => KillIsExplained
  BY DEF Blame
<1> QED
  BY <1>1, BlameInit, BlameStep, RunnerTypes, PTL DEF Spec

(* ------------------------------------------- the bias sweep: the walk --- *)

\* What a total order of a finite set, given by the elements up to each one, numbers
\* from 1 on.
LEMMA Ranking ==
    ASSUME NEW I, IsFiniteSet(I), NEW upTo \in [I -> SUBSET I],
           \A i \in I : i \in upTo[i],
           \A i, k \in I : i # k => \/ k \notin upTo[i] /\ upTo[i] \subseteq upTo[k]
                                    \/ i \notin upTo[k] /\ upTo[k] \subseteq upTo[i]
    PROVE  LET size == Cardinality(I)
           IN  /\ size \in Nat
               /\ \A i \in I : Cardinality(upTo[i]) \in 1..size
               /\ \A m \in 1..size : \E i \in I : Cardinality(upTo[i]) = m
               /\ \A i, k \in I : Cardinality(upTo[i]) <= Cardinality(upTo[k]) => i \in upTo[k]
               /\ \A i, k \in I : Cardinality(upTo[i]) = Cardinality(upTo[k]) => i = k
<1> DEFINE size    == Cardinality(I)
           rank == [i \in I |-> Cardinality(upTo[i])]
<1>1. size \in Nat
  BY FS_CardinalityType
<1>2. \A i \in I : /\ IsFiniteSet(upTo[i]) /\ Cardinality(upTo[i]) \in Nat
                   /\ Cardinality(upTo[i]) <= size
  BY FS_Subset, FS_CardinalityType
<1>3. \A i \in I : Cardinality(upTo[i]) # 0
  BY <1>2, FS_EmptySet
<1>4. rank \in [I -> 1..size]
  BY <1>1, <1>2, <1>3
<1>5. \A i, k \in I : k \notin upTo[i] /\ upTo[i] \subseteq upTo[k]
                      => Cardinality(upTo[i]) < Cardinality(upTo[k])
  <2> SUFFICES ASSUME NEW i \in I, NEW k \in I, k \notin upTo[i], upTo[i] \subseteq upTo[k]
               PROVE  Cardinality(upTo[i]) < Cardinality(upTo[k])
    OBVIOUS
  <2>1. upTo[i] # upTo[k] /\ IsFiniteSet(upTo[k])
    BY <1>2
  <2>2. /\ Cardinality(upTo[i]) <= Cardinality(upTo[k])
        /\ Cardinality(upTo[i]) # Cardinality(upTo[k])
    BY <2>1, FS_Subset
  <2> QED
    BY <1>2, <2>2
<1>6. \A i, k \in I : rank[i] = rank[k] => i = k
  BY <1>2, <1>5
<1>7. \A i, k \in I : rank[i] <= rank[k] => i \in upTo[k]
  <2> SUFFICES ASSUME NEW i \in I, NEW k \in I, rank[i] <= rank[k], i \notin upTo[k] PROVE FALSE
    OBVIOUS
  <2>1. i # k
    OBVIOUS
  <2>2. CASE i \notin upTo[k] /\ upTo[k] \subseteq upTo[i]
    BY <1>2, <1>5, <2>2
  <2>3. CASE k \notin upTo[i] /\ upTo[i] \subseteq upTo[k]
    BY <2>3
  <2> QED
    BY <2>1, <2>2, <2>3
<1> HIDE DEF rank
<1>8. rank \in Injection(I, 1..size)
  BY <1>4, <1>6 DEF Injection, IsInjective
<1>9. IsFiniteSet(1..size) /\ Cardinality(1..size) = size
  BY <1>1, FS_Interval
<1>10. rank \in Surjection(I, 1..size)
  BY <1>8, <1>9, FS_Injection
<1>11. \A m \in 1..size : \E i \in I : rank[i] = m
  <2> HIDE DEF size
  <2> QED
    BY <1>10 DEF Surjection
<1>12. \A i \in I : rank[i] = Cardinality(upTo[i])
  BY DEF rank
<1> HIDE DEF size
<1> QED
  BY <1>1, <1>4, <1>6, <1>7, <1>11, <1>12 DEF size

\* So do the positions of a sequence, ordered by a number each of them has and then
\* by place.
Ordered(n, I, key, upTo) ==
    /\ n \in Nat /\ I \subseteq 1..n /\ key \in [1..n -> Int]
    /\ upTo \in [I -> SUBSET I]
    /\ \A i, j \in I : j \in upTo[i] <=> key[j] < key[i] \/ (key[j] = key[i] /\ j <= i)

\* What being numbered by that order means.
Numbered(I, key, upTo) ==
    LET size == Cardinality(I)
    IN  /\ IsFiniteSet(I) /\ size \in Nat
        /\ \A i \in I : Cardinality(upTo[i]) \in 1..size
        /\ \A m \in 1..size : \E i \in I : Cardinality(upTo[i]) = m
        /\ \A i, k \in I : Cardinality(upTo[i]) <= Cardinality(upTo[k]) => key[i] <= key[k]
        /\ \A i, k \in I : Cardinality(upTo[i]) = Cardinality(upTo[k]) => i = k

\* Such an order numbers the positions from 1 on, without a gap or a repetition.
LEMMA Sorting ==
    ASSUME NEW n, NEW I, NEW key, NEW upTo, Ordered(n, I, key, upTo)
    PROVE  Numbered(I, key, upTo)
<1> USE DEF Ordered
<1>1. IsFiniteSet(I)
  <2>1. IsFiniteSet(1..n)
    BY FS_Interval
  <2> QED
    BY <2>1, FS_Subset
<1>2. \A i \in I : i \in Int /\ key[i] \in Int
  OBVIOUS
<1>3. \A i \in I : i \in upTo[i]
  BY <1>2
<1>4. \A i, k \in I : i # k => \/ k \notin upTo[i] /\ upTo[i] \subseteq upTo[k]
                               \/ i \notin upTo[k] /\ upTo[k] \subseteq upTo[i]
  <2> SUFFICES ASSUME NEW i \in I, NEW k \in I, i # k
               PROVE  \/ k \notin upTo[i] /\ upTo[i] \subseteq upTo[k]
                      \/ i \notin upTo[k] /\ upTo[k] \subseteq upTo[i]
    OBVIOUS
  <2> DEFINE notAfter(x, y) == key[x] < key[y] \/ (key[x] = key[y] /\ x <= y)
  <2>1. \/ ~notAfter(k, i) /\ \A j \in I : notAfter(j, i) => notAfter(j, k)
        \/ ~notAfter(i, k) /\ \A j \in I : notAfter(j, k) => notAfter(j, i)
    BY <1>2
  <2>2. \A x, y \in I : x \in upTo[y] <=> notAfter(x, y)
    OBVIOUS
  <2> HIDE DEF notAfter
  <2> QED
    BY <2>1, <2>2
<1>5. \A i, k \in I : i \in upTo[k] => key[i] <= key[k]
  BY <1>2
<1>6. LET size == Cardinality(I)
      IN  /\ size \in Nat
          /\ \A i \in I : Cardinality(upTo[i]) \in 1..size
          /\ \A m \in 1..size : \E i \in I : Cardinality(upTo[i]) = m
          /\ \A i, k \in I : Cardinality(upTo[i]) <= Cardinality(upTo[k]) => i \in upTo[k]
          /\ \A i, k \in I : Cardinality(upTo[i]) = Cardinality(upTo[k]) => i = k
  BY <1>1, <1>3, <1>4, Ranking
<1> QED
  BY <1>1, <1>5, <1>6 DEF Numbered

\* The smallest and the largest value of a sweep exist.
LEMMA Extremes ==
    ASSUME NEW s \in Seq(Int), s # <<>>
    PROVE  Lowest(s) \in Int /\ Highest(s) \in Int
<1> DEFINE n == Len(s)
           I == 1..n
           upTo == [i \in I |-> {j \in I : s[j] < s[i] \/ (s[j] = s[i] /\ j <= i)}]
<1>1. n \in Nat \ {0} /\ s \in [1..n -> Int]
  BY EmptySeq, LenProperties
<1>2. Cardinality(I) = n
  BY <1>1, FS_Interval
<1>3. /\ upTo \in [I -> SUBSET I]
      /\ \A i, j \in I : j \in upTo[i] <=> s[j] < s[i] \/ (s[j] = s[i] /\ j <= i)
  OBVIOUS
<1> HIDE DEF upTo
<1>3b. Ordered(n, I, s, upTo)
  BY <1>1, <1>3 DEF Ordered
<1>3a. 1 \in 1..n /\ n \in 1..n /\ n = Cardinality(I) /\ I = 1..n
  BY <1>1, <1>2
<1> HIDE DEF I, n
<1>4. Numbered(I, s, upTo)
  BY <1>3b, Sorting
<1>5. PICK i \in I : Cardinality(upTo[i]) = 1
  BY <1>3a, <1>4 DEF Numbered
<1>6. PICK k \in I : Cardinality(upTo[k]) = n
  BY <1>3a, <1>4 DEF Numbered
<1>7. \A j \in I : s[i] <= s[j] /\ s[j] <= s[k]
  BY <1>1, <1>3a, <1>4, <1>5, <1>6 DEF Numbered
<1> USE DEF I, n
<1>8. s[i] \in Values(s) /\ s[k] \in Values(s) /\ Values(s) \subseteq Int
  BY <1>1 DEF Values
<1>9. \A w \in Values(s) : s[i] <= w /\ s[k] >= w
  BY <1>1, <1>7, <1>8 DEF Values
<1> QED
  BY <1>8, <1>9 DEF Lowest, Highest

\* The positions of a sweep, ordered by their distance from the middle.
LEMMA RanksNumber ==
    ASSUME NEW s, NEW n \in Nat, NEW I \in SUBSET (1..n), \A i \in 1..n : Farness(s, i) \in Int
    PROVE  /\ IsFiniteSet(I) /\ Cardinality(I) \in Nat
           /\ \A i \in I : Rank(s, I, i) \in 1..Cardinality(I)
           /\ \A m \in 1..Cardinality(I) : \E i \in I : Rank(s, I, i) = m
           /\ \A i, k \in I : Rank(s, I, i) <= Rank(s, I, k) => Farness(s, i) <= Farness(s, k)
           /\ \A i, k \in I : Rank(s, I, i) = Rank(s, I, k) => i = k
<1>0. PICK key, upTo : /\ key = [i \in 1..n |-> Farness(s, i)]
                       /\ upTo = [i \in I |-> {j \in I : NotAfter(s, j, i)}]
  OBVIOUS
<1>1. key \in [1..n -> Int] /\ \A i \in I : key[i] = Farness(s, i)
  BY <1>0
<1>2. /\ upTo \in [I -> SUBSET I]
      /\ \A i, j \in I : j \in upTo[i] <=> NotAfter(s, j, i)
      /\ \A i \in I : Rank(s, I, i) = Cardinality(upTo[i])
  BY <1>0 DEF Rank
<1>3. \A i, j \in I : j \in upTo[i] <=> key[j] < key[i] \/ (key[j] = key[i] /\ j <= i)
  BY <1>1, <1>2 DEF NotAfter
<1>3a. Ordered(n, I, key, upTo)
  BY <1>1, <1>2, <1>3 DEF Ordered
<1>4. Numbered(I, key, upTo)
  BY <1>3a, Sorting
<1>5. \A i, k \in I : Rank(s, I, i) <= Rank(s, I, k) => Farness(s, i) <= Farness(s, k)
  <2> SUFFICES ASSUME NEW i \in I, NEW k \in I, Rank(s, I, i) <= Rank(s, I, k)
               PROVE  Farness(s, i) <= Farness(s, k)
    OBVIOUS
  <2>1. Cardinality(upTo[i]) <= Cardinality(upTo[k])
    BY <1>2
  <2>2. key[i] <= key[k]
    BY <1>4, <2>1 DEF Numbered
  <2> QED
    BY <1>1, <2>2
<1> QED
  BY <1>2, <1>4, <1>5 DEF Numbered

\* A leg of the walk visits each of its positions once, none nearer to the middle than
\* one before it.
Visits(s, I, leg) ==
    LET size == Cardinality(I)
    IN  /\ IsFiniteSet(I) /\ size \in Nat
        /\ leg \in Seq(Int) /\ Len(leg) = size
        /\ \E pos \in [1..size -> I] :
              /\ \A m \in 1..size : leg[m] = s[pos[m]]
              /\ \A i \in I : \E m \in 1..size : pos[m] = i
              /\ \A m, k \in 1..size : pos[m] = pos[k] => m = k
              /\ \A m, k \in 1..size : m <= k => Farness(s, pos[m]) <= Farness(s, pos[k])

\* What sorted() makes of one side of the middle is such a leg.
LEMMA OutwardsVisits ==
    ASSUME NEW s \in Seq(Int), Middle(s) \in Int, NEW I \in SUBSET (1..Len(s))
    PROVE  Visits(s, I, Outwards(s, I))
<1> DEFINE n == Len(s)
           size == Cardinality(I)
           at(m) == CHOOSE i \in I : Rank(s, I, i) = m
           pos == [m \in 1..size |-> at(m)]
<1>1. n \in Nat /\ \A i \in 1..n : s[i] \in Int
  BY ElementOfSeq
<1>2. \A i \in 1..n : Farness(s, i) \in Int
  BY <1>1 DEF Farness, Size
<1>3. /\ IsFiniteSet(I) /\ size \in Nat
      /\ \A i \in I : Rank(s, I, i) \in 1..size
      /\ \A m \in 1..size : \E i \in I : Rank(s, I, i) = m
      /\ \A i, k \in I : Rank(s, I, i) <= Rank(s, I, k) => Farness(s, i) <= Farness(s, k)
      /\ \A i, k \in I : Rank(s, I, i) = Rank(s, I, k) => i = k
  BY <1>1, <1>2, RanksNumber
<1>4. \A m \in 1..size : at(m) \in I /\ Rank(s, I, at(m)) = m
  BY <1>3
<1>5. Outwards(s, I) = [m \in 1..size |-> s[at(m)]]
  BY DEF Outwards
<1> HIDE DEF at, size
<1>6. /\ pos \in [1..size -> I]
      /\ \A m \in 1..size : pos[m] = at(m)
  BY <1>4
<1>7. /\ Outwards(s, I) \in Seq(Int) /\ Len(Outwards(s, I)) = size
      /\ \A m \in 1..size : Outwards(s, I)[m] = s[at(m)]
  <2>1. \A m \in 1..size : s[at(m)] \in Int
    BY <1>1, <1>4
  <2> QED
    BY <1>3, <1>5, <2>1
<1> HIDE DEF pos
<1>8. \A m \in 1..size : Outwards(s, I)[m] = s[pos[m]]
  BY <1>6, <1>7
<1>9. \A i \in I : \E m \in 1..size : pos[m] = i
  <2> SUFFICES ASSUME NEW i \in I PROVE pos[Rank(s, I, i)] = i /\ Rank(s, I, i) \in 1..size
    OBVIOUS
  <2> QED
    BY <1>3, <1>4, <1>6
<1>10. \A m, k \in 1..size : pos[m] = pos[k] => m = k
  BY <1>4, <1>6
<1>11. \A m, k \in 1..size : m <= k => Farness(s, pos[m]) <= Farness(s, pos[k])
  BY <1>3, <1>4, <1>6
<1> QED
  BY <1>3, <1>6, <1>7, <1>8, <1>9, <1>10, <1>11 DEF size, Visits

\* What the plan of device.json is made of.
LEMMA PlanFacts ==
    ASSUME plan \in Plans
    PROVE  /\ plan.sweep \in Seq(Int) /\ Len(plan.sweep) \in Nat \ {0}
           /\ \A i \in 1..Len(plan.sweep) : plan.sweep[i] \in Int
           /\ plan.constants \in Seq(Biases \X Int)
           /\ Len(plan.steps) \in Nat \ {0}
           /\ \A c \in 1..Len(plan.steps) :
                 /\ plan.steps[c] \in Seq(Biases \X Int)
                 /\ Len(plan.steps[c]) = Len(plan.steps[1])
                 /\ \A i, j \in 1..Len(plan.steps[1]) : plan.steps[c][i][1] = plan.steps[1][j][1] <=> i = j
           /\ plan.floating \in BOOLEAN /\ warm \in Int
           /\ Sweep \in Biases /\ Garbage \notin Points
<1> DEFINE Moves == Seq(BiasesOf(plan) \X Int)
<1>1. /\ plan.sweep \in Seq(Int) \ {<<>>} /\ plan.constants \in Moves
      /\ plan.steps \in Seq(Moves) \ {<<>>}
      /\ \A c \in 1..Len(plan.steps) :
            /\ Len(plan.steps[c]) = Len(plan.steps[1])
            /\ \A i, j \in 1..Len(plan.steps[1]) :
                  plan.steps[c][i][1] = plan.steps[1][j][1] <=> i = j
      /\ plan.floating \in BOOLEAN
      /\ Garbage \notin [BiasesOf(plan) -> Int]
  BY SweepAssumption
<1> HIDE DEF Moves
<1>2. Lowest(plan.sweep) \in Int /\ Highest(plan.sweep) \in Int
  BY <1>1, Extremes
<1>3. warm \in Int
  BY <1>2 DEF warm, Middle
<1>4. Len(plan.sweep) \in Nat \ {0} /\ Len(plan.steps) \in Nat \ {0}
  BY <1>1, EmptySeq
<1>5. \A i \in 1..Len(plan.sweep) : plan.sweep[i] \in Int
  BY <1>1, ElementOfSeq
<1>6. \A c \in 1..Len(plan.steps) : plan.steps[c] \in Moves
  BY <1>1, ElementOfSeq
<1>7. Sweep \in Biases /\ Garbage \notin Points
  BY <1>1 DEF Biases, BiasesOf, Points
<1> QED
  BY <1>1, <1>3, <1>4, <1>5, <1>6, <1>7 DEF Moves, Biases

\* Two sets that make up the positions of the sweep have as many elements as it has.
LEMMA TwoHalves ==
    ASSUME NEW n \in Nat, NEW U \in SUBSET (1..n)
    PROVE  LET D == (1..n) \ U
           IN  /\ Cardinality(U) \in Nat /\ Cardinality(D) \in Nat
               /\ Cardinality(U) + Cardinality(D) = n
<1>1. IsFiniteSet(1..n) /\ Cardinality(1..n) = n
  BY FS_Interval
<1>2. IsFiniteSet(U) /\ IsFiniteSet((1..n) \ U)
  BY <1>1, FS_Subset
<1>3. U \cup ((1..n) \ U) = 1..n /\ U \cap ((1..n) \ U) = {}
  OBVIOUS
<1>4. Cardinality(1..n) = Cardinality(U) + Cardinality((1..n) \ U) - Cardinality({})
  BY <1>2, <1>3, FS_Union
<1>5. Cardinality({}) = 0
  BY FS_EmptySet
<1>6. Cardinality(U) \in Nat /\ Cardinality((1..n) \ U) \in Nat
  BY <1>2, FS_CardinalityType
<1> QED
  BY <1>1, <1>4, <1>5, <1>6

\* Between m and k the walk does not turn.
OneLeg(m, k) == m <= turn <=> k <= turn

\* The walk visits every position of the sweep once; around a floating node first those
\* above the middle and then those below it, each half outwards.
LEMMA WalkVisits ==
    ASSUME plan \in Plans
    PROVE  LET n == Len(plan.sweep)
           IN  /\ walk \in Seq(Int) /\ Len(walk) = n /\ turn \in 0..n
               /\ ~plan.floating => turn = 0
               /\ \E pos \in [1..n -> 1..n] :
                     /\ \A m \in 1..n : walk[m] = plan.sweep[pos[m]]
                     /\ \A i \in 1..n : \E m \in 1..n : pos[m] = i
                     /\ \A m, k \in 1..n : pos[m] = pos[k] => m = k
                     /\ ~plan.floating => \A m \in 1..n : pos[m] = m
                     /\ plan.floating =>
                           \A m, k \in 1..n :
                              /\ m <= turn <=> plan.sweep[pos[m]] >= warm
                              /\ m <= k /\ OneLeg(m, k) => Farness(plan.sweep, pos[m]) <= Farness(plan.sweep, pos[k])
<1> DEFINE n == Len(plan.sweep)
<1>0. /\ plan.sweep \in Seq(Int) /\ n \in Nat \ {0} /\ warm \in Int
      /\ \A i \in 1..n : plan.sweep[i] \in Int
  BY PlanFacts
<1>1. CASE ~plan.floating
  <2> DEFINE pos == [m \in 1..n |-> m]
  <2>1. /\ walk \in Seq(Int) /\ Len(walk) = n /\ turn = 0 /\ turn \in 0..n
        /\ pos \in [1..n -> 1..n]
        /\ \A m \in 1..n : walk[m] = plan.sweep[pos[m]] /\ pos[m] = m
    BY <1>0, <1>1 DEF walk, turn
  <2> HIDE DEF pos, n
  <2> QED
    BY <1>1, <2>1 DEF n
<1>2. CASE plan.floating
  <2> DEFINE U == {i \in 1..n : plan.sweep[i] >= warm}
             D == {i \in 1..n : plan.sweep[i] < warm}
             a == Cardinality(U)
             b == Cardinality(D)
  <2>1. D = (1..n) \ U
    BY <1>0
  <2>2. a \in Nat /\ b \in Nat /\ a + b = n
    BY <1>0, <2>1, TwoHalves
  <2>3. upper = Outwards(plan.sweep, U) /\ lower = Outwards(plan.sweep, D)
    BY DEF upper, lower
  <2>4. U \in SUBSET (1..n) /\ D \in SUBSET (1..n)
    OBVIOUS
  <2>4a. /\ \A i \in U : i \in 1..n /\ plan.sweep[i] >= warm
         /\ \A i \in D : i \in 1..n /\ ~(plan.sweep[i] >= warm)
         /\ \A i \in 1..n : i \in U \/ i \in D
    BY <1>0
  <2> HIDE DEF U, D
  <2>4b. plan.sweep \in Seq(Int) /\ Middle(plan.sweep) \in Int
    BY <1>0 DEF warm
  <2>4c. Visits(plan.sweep, U, Outwards(plan.sweep, U)) /\ Visits(plan.sweep, D, Outwards(plan.sweep, D))
    BY <2>4, <2>4b, OutwardsVisits
  <2>5. /\ upper \in Seq(Int) /\ Len(upper) = a
        /\ \E pos \in [1..a -> U] :
              /\ \A m \in 1..a : upper[m] = plan.sweep[pos[m]]
              /\ \A i \in U : \E m \in 1..a : pos[m] = i
              /\ \A m, k \in 1..a : pos[m] = pos[k] => m = k
              /\ \A m, k \in 1..a : m <= k => Farness(plan.sweep, pos[m]) <= Farness(plan.sweep, pos[k])
    BY <2>3, <2>4c DEF Visits
  <2>6. /\ lower \in Seq(Int) /\ Len(lower) = b
        /\ \E pos \in [1..b -> D] :
              /\ \A m \in 1..b : lower[m] = plan.sweep[pos[m]]
              /\ \A i \in D : \E m \in 1..b : pos[m] = i
              /\ \A m, k \in 1..b : pos[m] = pos[k] => m = k
              /\ \A m, k \in 1..b : m <= k => Farness(plan.sweep, pos[m]) <= Farness(plan.sweep, pos[k])
    BY <2>3, <2>4c DEF Visits
  <2> HIDE DEF a, b
  <2>7. PICK up \in [1..a -> U] :
           /\ \A m \in 1..a : upper[m] = plan.sweep[up[m]]
           /\ \A i \in U : \E m \in 1..a : up[m] = i
           /\ \A m, k \in 1..a : up[m] = up[k] => m = k
           /\ \A m, k \in 1..a : m <= k => Farness(plan.sweep, up[m]) <= Farness(plan.sweep, up[k])
    BY <2>5
  <2>8. PICK down \in [1..b -> D] :
           /\ \A m \in 1..b : lower[m] = plan.sweep[down[m]]
           /\ \A i \in D : \E m \in 1..b : down[m] = i
           /\ \A m, k \in 1..b : down[m] = down[k] => m = k
           /\ \A m, k \in 1..b : m <= k => Farness(plan.sweep, down[m]) <= Farness(plan.sweep, down[k])
    BY <2>6
  <2> DEFINE pos == [m \in 1..n |-> IF m <= a THEN up[m] ELSE down[m - a]]
  <2>9. /\ walk \in Seq(Int) /\ Len(walk) = n /\ turn = a /\ turn \in 0..n
        /\ \A m \in 1..n : walk[m] = IF m <= a THEN upper[m] ELSE lower[m - a]
    <3>1. walk = upper \o lower /\ turn = a
      BY <1>2, <2>5 DEF walk, turn
    <3>2. /\ walk \in Seq(Int) /\ Len(walk) = Len(upper) + Len(lower)
          /\ \A m \in 1..(Len(upper) + Len(lower)) :
                walk[m] = IF m <= Len(upper) THEN upper[m] ELSE lower[m - Len(upper)]
      BY <2>5, <2>6, <3>1, ConcatProperties
    <3>3. Len(upper) = a /\ Len(lower) = b
      BY <2>5, <2>6
    <3>4. \A m \in 1..n : walk[m] = IF m <= a THEN upper[m] ELSE lower[m - a]
      BY <2>2, <3>2, <3>3
    <3> QED
      BY <2>2, <3>1, <3>2, <3>3, <3>4
  <2>10. \A m \in 1..n : IF m <= a THEN m \in 1..a /\ pos[m] = up[m] /\ pos[m] \in U
                                   ELSE m - a \in 1..b /\ pos[m] = down[m - a] /\ pos[m] \in D
    <3> HIDE DEF n
    <3> QED
      BY <2>2, <2>7, <2>8
  <2>11. pos \in [1..n -> 1..n]
    <3>1. \A m \in 1..n : pos[m] \in 1..n
      BY <2>10, <2>4a
    <3> QED
      BY <3>1
  <2> HIDE DEF pos, n
  <2>12. \A m \in 1..n : walk[m] = plan.sweep[pos[m]]
    <3> SUFFICES ASSUME NEW m \in 1..n PROVE walk[m] = plan.sweep[pos[m]]
      OBVIOUS
    <3>1. CASE m <= a
      BY <2>7, <2>9, <2>10, <3>1
    <3>2. CASE ~(m <= a)
      <4>1. m - a \in 1..b /\ pos[m] = down[m - a]
        BY <2>10, <3>2
      <4>2. walk[m] = lower[m - a]
        BY <2>9, <3>2
      <4> QED
        BY <2>8, <4>1, <4>2
    <3> QED
      BY <3>1, <3>2
  <2>13. \A i \in 1..n : \E m \in 1..n : pos[m] = i
    <3> SUFFICES ASSUME NEW i \in 1..n PROVE \E m \in 1..n : pos[m] = i
      OBVIOUS
    <3>1. CASE i \in U
      <4>1. PICK m \in 1..a : up[m] = i
        BY <2>7, <3>1
      <4>2. m \in 1..n /\ m <= a
        BY <2>2
      <4> QED
        BY <2>10, <4>1, <4>2
    <3>2. CASE i \in D
      <4>1. PICK m \in 1..b : down[m] = i
        BY <2>8, <3>2
      <4>2. m + a \in 1..n /\ ~(m + a <= a) /\ (m + a) - a = m
        BY <2>2
      <4> QED
        BY <2>10, <4>1, <4>2
    <3> QED
      BY <2>4a, <3>1, <3>2
  <2>14. \A m \in 1..n : m <= turn <=> plan.sweep[pos[m]] >= warm
    BY <2>9, <2>10, <2>4a
  <2>15. \A m, k \in 1..n : (m <= a <=> k <= a) => /\ pos[m] = pos[k] => m = k
                                                   /\ m <= k => Farness(plan.sweep, pos[m]) <= Farness(plan.sweep, pos[k])
    <3> SUFFICES ASSUME NEW m \in 1..n, NEW k \in 1..n, m <= a <=> k <= a
                 PROVE  /\ pos[m] = pos[k] => m = k
                        /\ m <= k => Farness(plan.sweep, pos[m]) <= Farness(plan.sweep, pos[k])
      OBVIOUS
    <3>1. CASE m <= a /\ k <= a
      BY <2>7, <2>10, <3>1
    <3>2. CASE ~(m <= a) /\ ~(k <= a)
      <4> DEFINE x == m - a
                 y == k - a
      <4>1. x \in 1..b /\ y \in 1..b /\ pos[m] = down[x] /\ pos[k] = down[y]
        BY <2>10, <3>2
      <4>2. (x = y => m = k) /\ (m <= k => x <= y)
        BY <2>2
      <4> HIDE DEF x, y
      <4> QED
        BY <2>8, <4>1, <4>2
    <3> QED
      BY <3>1, <3>2
  <2>16. \A m, k \in 1..n : pos[m] = pos[k] => m = k
    BY <2>9, <2>14, <2>15
  <2>17. \A m, k \in 1..n : m <= k /\ OneLeg(m, k) => Farness(plan.sweep, pos[m]) <= Farness(plan.sweep, pos[k])
    BY <2>9, <2>15 DEF OneLeg
  <2> QED
    BY <1>2, <2>9, <2>11, <2>12, <2>13, <2>14, <2>16, <2>17 DEF n
<1> QED
  BY <1>1, <1>2, PlanFacts

(* -------------------------------------- the bias sweep: the invariant --- *)

\* A saved state holds the node values of the voltages saved with it.
SavedStates == {s \in [nodes : Points, applied : Points] : s.nodes = s.applied}
\* The lines of iv.jsonl.
Marks == [curve : 1..Len(plan.steps), value : Int, kind : {"moving", "failed", "row"}, solved : BOOLEAN]

\* The types of the parts of the state.
Stages == Ended \cup {"start", "lead_in", "to_curve", "fallen", "giving_up", "aim", "walk"}
SolverTyped ==
    /\ applied \in Points /\ device = applied
    /\ nodes \in Points \cup {Garbage} /\ circuit \in Points \cup {Garbage}
RampTyped ==
    /\ moves \in Seq(Biases \X Int)
    /\ step \in 1..MAX_BIAS_STEP /\ shrinks \in 0..MAX_BISECTIONS
SavedTyped == baseline \in SavedStates \cup {NoStart} /\ curve_start \in SavedStates \cup {NoStart}
PlaceTyped == curve \in 0..Len(plan.steps) /\ index \in 0..(Len(plan.sweep) + 1)
StreamTyped == stream \in Seq(Marks)
Typed ==
    /\ plan \in Plans /\ stage \in Stages
    /\ SolverTyped /\ RampTyped /\ SavedTyped /\ PlaceTyped /\ StreamTyped

\* Where the run is, stage by stage.
Whereabouts ==
    /\ stage \in {"start", "lead_in"} => curve = 0 /\ index = 0 /\ stream = <<>>
    /\ stage = "start" => applied = [b \in Biases |-> 0]
    /\ stage \in {"to_curve", "fallen"} => index = 0
    /\ stage \in {"to_curve", "fallen", "giving_up", "aim", "walk"} => curve # 0 /\ baseline \in SavedStates
    /\ stage \in {"giving_up", "aim", "walk"} => index # 0
    /\ stage \in {"aim", "walk"} => curve_start \in SavedStates
    /\ stage = "giving_up" => curve_start = NoStart
    /\ stage = "walk" => index <= Len(plan.sweep) /\ moves = << <<Sweep, walk[index]>> >>
    /\ stage \in {"start", "fallen", "giving_up", "aim"} => moves = <<>>

\* A bias that is still to be moved before its target counts: the point that is going to
\* be reported is not the one where the solver stands.
Pending == \E k \in 1..Len(moves) :
              /\ applied[moves[k][1]] # moves[k][2]
              /\ \A j \in 1..(k - 1) : moves[j][1] # moves[k][1]

\* A curve with a row; and whether no curve before this one was given up, when it matters.
HasRow(c) == \E i \in 1..Len(stream) : stream[i].curve = c /\ stream[i].kind = "row"
Clean == Straight /\ (plan.floating => \A c \in 1..(curve - 1) : HasRow(c))

\* The way to the start of a curve, and how much of it lies behind.
Route(c) == plan.steps[c] \o << <<Sweep, walk[1]>> >>
Apart == Sweep \notin NamesIn(plan.steps[1])
OnRoute ==
    /\ Len(moves) <= Len(Route(curve))
    /\ \A i \in 1..Len(moves) : moves[i] = Route(curve)[Len(Route(curve)) - Len(moves) + i]
    /\ \A j \in 1..(Len(Route(curve)) - Len(moves)) :
          j = Len(Route(curve)) \/ Apart => applied[Route(curve)[j][1]] = Route(curve)[j][2]
AtStart(point, c) ==
    /\ point[Sweep] = walk[1]
    /\ Apart => \A i \in 1..Len(plan.steps[c]) : point[plan.steps[c][i][1]] = plan.steps[c][i][2]

\* The sweep voltage lies on walk[i]'s side of every later value of its leg.
Behind(i) == \A k \in (i + 1)..Len(plan.sweep) : OneLeg(i, k) =>
                /\ walk[i] < walk[k] => applied[Sweep] < walk[k]
                /\ walk[i] > walk[k] => applied[Sweep] > walk[k]

\* What each stage of the run rests on.
Ramping ==
    /\ stage = "lead_in" => Solved \/ Pending
    /\ stage = "giving_up" => nodes = applied
    /\ stage = "to_curve" =>
          /\ OnRoute
          /\ nodes = applied \/ Pending
          /\ Clean => Solved \/ Pending
    /\ stage \in {"aim", "walk"} => AtStart(curve_start.applied, curve)
    /\ stage = "walk" =>
          /\ Straight => Behind(index)
          /\ Clean => Solved \/ Pending
    /\ stage = "aim" =>
          IF index = 1 THEN applied[Sweep] = walk[1] /\ (Clean => Solved)
                       ELSE Straight => Behind(index - 1)

\* What has been written: rows of solved points, none of a curve that is not walked yet.
Rows ==
    /\ \A i \in 1..Len(stream) : stream[i].curve <= curve
    /\ stage \in {"to_curve", "fallen", "giving_up"} => ~HasRow(curve)
    /\ \A i \in 1..Len(stream) :
          stream[i].kind = "row" /\ Straight /\ (plan.floating => \A c \in 1..(stream[i].curve - 1) : HasRow(c))
             => stream[i].solved

\* How often the entries of K occur in a sequence.
Times(s, K) == Cardinality({i \in 1..Len(s) : s[i] \in K})
PointMarks == {l \in Marks : l.kind # "moving"}
PointsAt(c, v) == {l \in PointMarks : l.curve = c /\ l.value = v}

\* The points that are dealt with: all of the curves before, and of this one those that
\* its walk, or giving it up, has passed.
Gone == IF curve = 0 THEN 0
        ELSE (curve - 1) * Len(plan.sweep) + (IF index = 0 THEN 0 ELSE index - 1)
Way == IF stage = "giving_up" THEN plan.sweep ELSE walk
Dealt(c, v) == c < curve \/ (c = curve /\ \E m \in 1..(index - 1) : Way[m] = v)
CountInv ==
    /\ stage \notin Ended =>
          /\ Times(stream, PointMarks) = Gone
          /\ Straight => \A c \in 1..Len(plan.steps), v \in Values(plan.sweep) :
                Times(stream, PointsAt(c, v)) = IF Dealt(c, v) THEN 1 ELSE 0
    /\ stage \in Ended => EveryPointOnce

\* The operators of the plan do not change, because the plan does not.
LEMMA PlanStays ==
    ASSUME plan' = plan
    PROVE  /\ Biases' = Biases /\ Points' = Points /\ SavedStates' = SavedStates /\ Marks' = Marks
           /\ total' = total /\ warm' = warm /\ walk' = walk /\ turn' = turn
           /\ (Straight' <=> Straight) /\ (Apart' <=> Apart)
           /\ PointMarks' = PointMarks
<1>1. Biases' = Biases /\ Points' = Points /\ total' = total /\ (Straight' <=> Straight) /\ (Apart' <=> Apart)
  BY DEF Biases, Points, total, Straight, Apart
<1>2. warm' = warm
  BY DEF warm
<1>7. upper' = upper /\ lower' = lower
  BY <1>2 DEF upper, lower
<1>8. walk' = walk /\ turn' = turn
  BY <1>7 DEF walk, turn
<1>9. SavedStates' = SavedStates /\ Marks' = Marks /\ PointMarks' = PointMarks
  BY <1>1 DEF SavedStates, Marks, PointMarks
<1> QED
  BY <1>1, <1>2, <1>8, <1>9

\* On one side of the middle, what is farther from it is farther out.
LEMMA FartherOut ==
    \A x, y, w \in Int : x # y /\ Size(x - w) <= Size(y - w) =>
       /\ x >= w /\ y >= w => x < y
       /\ ~(x >= w) /\ ~(y >= w) => x > y
BY DEF Size

\* A sweep that is straight never has a later value of a leg behind an earlier one, and
\* below the middle nothing is above.
LEMMA StraightWalk ==
    ASSUME plan \in Plans, Straight
    PROVE  LET n == Len(plan.sweep)
           IN  /\ \A i, k \in 1..n : i # k => walk[i] # walk[k]
               /\ \A i, j, k \in 1..n : i <= j /\ j < k /\ OneLeg(i, k) =>
                     /\ walk[j] < walk[k] => walk[i] < walk[k]
                     /\ walk[j] > walk[k] => walk[i] > walk[k]
               /\ turn # 0 => \A j, k \in 1..n : turn < j /\ j < k => walk[j] > walk[k]
               /\ turn # 0 => \A k \in 1..n : turn < k => walk[1] > walk[k]
<1> DEFINE n == Len(plan.sweep)
           s == plan.sweep
<1>1. /\ n \in Nat \ {0} /\ \A i \in 1..n : s[i] \in Int
      /\ plan.floating \in BOOLEAN /\ warm \in Int
  BY PlanFacts
<1>2. /\ turn \in 0..n /\ (~plan.floating => turn = 0)
      /\ \E pos \in [1..n -> 1..n] :
            /\ \A m \in 1..n : walk[m] = s[pos[m]]
            /\ \A m, k \in 1..n : pos[m] = pos[k] => m = k
            /\ ~plan.floating => \A m \in 1..n : pos[m] = m
            /\ plan.floating => \A m, k \in 1..n :
                  /\ m <= turn <=> s[pos[m]] >= warm
                  /\ m <= k /\ OneLeg(m, k) => Farness(s, pos[m]) <= Farness(s, pos[k])
  BY WalkVisits
<1>3. PICK pos \in [1..n -> 1..n] :
            /\ \A m \in 1..n : walk[m] = s[pos[m]]
            /\ \A m, k \in 1..n : pos[m] = pos[k] => m = k
            /\ ~plan.floating => \A m \in 1..n : pos[m] = m
            /\ plan.floating => \A m, k \in 1..n :
                  /\ m <= turn <=> s[pos[m]] >= warm
                  /\ m <= k /\ OneLeg(m, k) => Farness(s, pos[m]) <= Farness(s, pos[k])
  BY <1>2
<1>4. /\ \/ \A i, j \in 1..n : i < j => s[i] < s[j]
         \/ \A i, j \in 1..n : i < j => s[i] > s[j]
         \/ plan.floating /\ \A i, j \in 1..n : i # j => s[i] # s[j]
  BY DEF Straight
<1>5. \A i, j \in 1..n : i # j => s[i] # s[j]
  <2> SUFFICES ASSUME NEW i \in 1..n, NEW j \in 1..n, i < j PROVE s[i] # s[j] /\ s[j] # s[i]
    BY <1>1
  <2> QED
    BY <1>1, <1>4
<1> HIDE DEF n, s
<1>6. \A i, k \in 1..n : i # k => walk[i] # walk[k]
  BY <1>3, <1>5
<1>7. CASE ~plan.floating
  <2>1. \A m \in 1..n : walk[m] = s[m]
    BY <1>3, <1>7
  <2>2. \A i, j, k \in 1..n : i <= j /\ j < k =>
                     /\ walk[j] < walk[k] => walk[i] < walk[k]
                     /\ walk[j] > walk[k] => walk[i] > walk[k]
    <3> SUFFICES ASSUME NEW i \in 1..n, NEW j \in 1..n, NEW k \in 1..n, i <= j, j < k
                 PROVE  /\ s[j] < s[k] => s[i] < s[k]
                        /\ s[j] > s[k] => s[i] > s[k]
      BY <2>1
    <3>0. i < k
      BY <1>1
    <3>1. s[i] \in Int /\ s[j] \in Int /\ s[k] \in Int /\ i < k
      <4>1. \A m \in 1..n : s[m] \in Int
        BY <1>1
      <4> QED
        BY <3>0, <4>1, Zenon
    <3>2. \/ s[i] < s[k] /\ s[j] < s[k]
          \/ s[i] > s[k] /\ s[j] > s[k]
      BY <1>4, <1>7, <3>1
    <3> QED
      BY <3>1, <3>2
  <2> QED
    BY <1>2, <1>6, <1>7, <2>2 DEF n
<1>8. CASE plan.floating
  <2>1. \A m \in 1..n : walk[m] \in Int
    BY <1>1, <1>3
  <2>2. \A m \in 1..n : m <= turn <=> walk[m] >= warm
    BY <1>3, <1>8
  <2>3. \A m, k \in 1..n : m <= k /\ OneLeg(m, k) => Size(walk[m] - warm) <= Size(walk[k] - warm)
    <3>1. \A m \in 1..n : Farness(s, pos[m]) = Size(walk[m] - warm)
      BY <1>3 DEF Farness, warm, s
    <3> QED
      BY <1>3, <1>8, <3>1
  <2>4. \A m, k \in 1..n : m < k /\ OneLeg(m, k) =>
           IF m <= turn THEN walk[m] < walk[k] ELSE walk[m] > walk[k]
    <3> SUFFICES ASSUME NEW m \in 1..n, NEW k \in 1..n, m < k, OneLeg(m, k)
                 PROVE  IF m <= turn THEN walk[m] < walk[k] ELSE walk[m] > walk[k]
      OBVIOUS
    <3>1. walk[m] # walk[k] /\ walk[m] \in Int /\ walk[k] \in Int /\ m <= k
      BY <1>1, <1>6, <2>1
    <3>2. Size(walk[m] - warm) <= Size(walk[k] - warm)
      BY <2>3, <3>1
    <3>3. m <= turn <=> walk[m] >= warm
      BY <2>2
    <3>4. k <= turn <=> walk[k] >= warm
      BY <2>2
    <3>5. m <= turn <=> k <= turn
      BY DEF OneLeg
    <3>6. CASE m <= turn
      BY <1>1, <3>1, <3>2, <3>3, <3>4, <3>5, <3>6, FartherOut
    <3>7. CASE ~(m <= turn)
      BY <1>1, <3>1, <3>2, <3>3, <3>4, <3>5, <3>7, FartherOut
    <3> QED
      BY <3>6, <3>7
  <2>5. \A i, j, k \in 1..n : i <= j /\ j < k /\ OneLeg(i, k) =>
                     /\ walk[j] < walk[k] => walk[i] < walk[k]
                     /\ walk[j] > walk[k] => walk[i] > walk[k]
    <3> SUFFICES ASSUME NEW i \in 1..n, NEW j \in 1..n, NEW k \in 1..n, i <= j, j < k, OneLeg(i, k)
                 PROVE  /\ walk[j] < walk[k] => walk[i] < walk[k]
                        /\ walk[j] > walk[k] => walk[i] > walk[k]
      OBVIOUS
    <3>0. i \in Int /\ j \in Int /\ k \in Int /\ turn \in Int
      BY <1>1, <1>2
    <3>1. OneLeg(j, k) /\ i < k /\ (i <= turn <=> j <= turn)
      BY <3>0 DEF OneLeg
    <3> QED
      BY <2>1, <2>4, <3>1
  <2>6. turn # 0 => \A j, k \in 1..n : turn < j /\ j < k => walk[j] > walk[k]
    <3> SUFFICES ASSUME NEW j \in 1..n, NEW k \in 1..n, turn < j, j < k PROVE walk[j] > walk[k]
      OBVIOUS
    <3>1. OneLeg(j, k) /\ ~(j <= turn)
      BY <1>1, <1>2 DEF OneLeg
    <3> QED
      BY <2>4, <3>1
  <2>7. turn # 0 => \A k \in 1..n : turn < k => walk[1] > walk[k]
    <3> SUFFICES ASSUME turn # 0, NEW k \in 1..n, turn < k PROVE walk[1] > walk[k]
      OBVIOUS
    <3>1. 1 \in 1..n /\ 1 <= turn /\ ~(k <= turn)
      BY <1>1, <1>2
    <3>2. walk[1] >= warm /\ ~(walk[k] >= warm)
      BY <2>2, <3>1
    <3>3. walk[1] \in Int /\ walk[k] \in Int /\ warm \in Int
      BY <1>1, <2>1, <3>1
    <3> QED
      BY <3>2, <3>3
  <2> QED
    BY <1>6, <2>5, <2>6, <2>7 DEF n
<1> QED
  BY <1>1, <1>7, <1>8

(* ------------------------------------------ the bias sweep: its types --- *)

\* The types used here are finer than the ones the runs check.
LEMMA TypedMeansSweepTypes == Typed => SweepTypes
BY DEF Typed, SolverTyped, RampTyped, PlaceTyped, SweepTypes, Stages

\* The ramp to the head of moves: a step ends nearer to the target, never past it.
LEMMA Driving ==
    ASSUME Typed, moves # <<>>
    PROVE  /\ Len(moves) \in Nat \ {0}
           /\ Head(moves) = moves[1] /\ Driven = moves[1][1] /\ Goal = moves[1][2]
           /\ Driven \in Biases /\ Goal \in Int /\ applied[Driven] \in Int
           /\ Remaining \in Int /\ (Remaining = 0 <=> applied[Driven] = Goal)
           /\ Footing \in Int
           /\ Remaining # 0 =>
                 \/ applied[Driven] < Footing /\ Footing <= Goal
                 \/ applied[Driven] > Footing /\ Footing >= Goal
           /\ Tail(moves) \in Seq(Biases \X Int) /\ Len(Tail(moves)) = Len(moves) - 1
           /\ \A i \in 1..Len(Tail(moves)) : Tail(moves)[i] = moves[i + 1]
<1>1. moves \in Seq(Biases \X Int) /\ applied \in [Biases -> Int] /\ step \in 1..MAX_BIAS_STEP
  BY DEF Typed, RampTyped, SolverTyped, Points
<1>2. /\ Len(moves) \in Nat \ {0} /\ moves[1] \in Biases \X Int
      /\ Tail(moves) \in Seq(Biases \X Int) /\ Len(Tail(moves)) = Len(moves) - 1
      /\ \A i \in 1..Len(Tail(moves)) : Tail(moves)[i] = moves[i + 1]
  <2>1. Len(moves) \in Nat \ {0}
    BY <1>1, EmptySeq
  <2>2. 1 \in 1..Len(moves)
    BY <2>1
  <2>3. moves[1] \in Biases \X Int
    BY <1>1, <2>2, ElementOfSeq
  <2> QED
    BY <1>1, <2>1, <2>3, HeadTailProperties
<1>3. Head(moves) = moves[1]
  OBVIOUS
<1>4. /\ Driven = moves[1][1] /\ Goal = moves[1][2]
      /\ Driven \in Biases /\ Goal \in Int
  BY <1>2, <1>3 DEF Driven, Goal
<1>5. applied[Driven] \in Int /\ step \in Int /\ step > 0
  <2>1. MAX_BIAS_STEP \in Nat
    BY SweepAssumption
  <2> QED
    BY <1>1, <1>4, <2>1
<1>6. Remaining = Goal - applied[Driven]
  BY DEF Remaining
<1>7. Remaining \in Int /\ (Remaining = 0 <=> applied[Driven] = Goal)
  BY <1>4, <1>5, <1>6
<1>8. /\ Reach \in Int
      /\ Remaining > 0 => Reach > 0 /\ Reach <= Remaining
      /\ Remaining < 0 => Reach > 0 /\ Reach <= -Remaining
  BY <1>5, <1>7 DEF Reach, Size
<1>9. CASE Remaining > 0
  <2>1. Footing = applied[Driven] + Reach
    BY <1>9 DEF Footing
  <2>2. Footing \in Int /\ applied[Driven] < Footing /\ Footing <= Goal
    BY <1>4, <1>5, <1>6, <1>8, <1>9, <2>1
  <2> QED
    BY <1>2, <1>3, <1>4, <1>5, <1>7, <2>2
<1>10. CASE ~(Remaining > 0)
  <2>1. Footing = applied[Driven] + (-Reach)
    BY <1>10 DEF Footing
  <2>2. Footing \in Int
    BY <1>5, <1>8, <2>1
  <2>3. Remaining # 0 => applied[Driven] > Footing /\ Footing >= Goal
    BY <1>4, <1>5, <1>6, <1>7, <1>8, <1>10, <2>1
  <2> QED
    BY <1>2, <1>3, <1>4, <1>5, <1>7, <2>2, <2>3
<1> QED
  BY <1>9, <1>10

\* A voltage is set to what the step reached, and nothing else.
LEMMA Stepping ==
    ASSUME Typed, moves # <<>>
    PROVE  /\ [applied EXCEPT ![Driven] = Footing] \in Points
           /\ [device EXCEPT ![Driven] = Footing] = [applied EXCEPT ![Driven] = Footing]
           /\ [applied EXCEPT ![Driven] = Footing][Driven] = Footing
           /\ \A b \in Biases : b # Driven => [applied EXCEPT ![Driven] = Footing][b] = applied[b]
<1>1. Driven \in Biases /\ Footing \in Int
  BY Driving
<1>2. applied \in [Biases -> Int] /\ device = applied
  BY DEF Typed, SolverTyped, Points
<1> QED
  BY <1>1, <1>2 DEF Points

\* Going back to a saved state leaves node values that solve the voltages applied.
LEMMA BackToTyped ==
    ASSUME NEW s \in SavedStates, BackTo(s), Typed, plan' = plan
    PROVE  SolverTyped' /\ nodes' = applied'
BY PlanStays DEF SavedStates, BackTo, SolverTyped, Typed

\* The walk starts with a value of the sweep.
LEMMA WalkTyped ==
    ASSUME plan \in Plans
    PROVE  /\ \A i \in 1..Len(plan.sweep) : walk[i] \in Int
           /\ Len(walk) = Len(plan.sweep) /\ Len(plan.sweep) \in Nat \ {0}
           /\ walk[1] \in Int /\ turn \in 0..Len(plan.sweep)
<1>1. walk \in Seq(Int) /\ Len(walk) = Len(plan.sweep) /\ turn \in 0..Len(plan.sweep)
  BY WalkVisits
<1>2. Len(plan.sweep) \in Nat \ {0}
  BY PlanFacts
<1>3. \A i \in 1..Len(plan.sweep) : walk[i] \in Int
  BY <1>1, ElementOfSeq
<1> QED
  BY <1>1, <1>2, <1>3

\* A line that is written is the last one, and those before stay as they are.
LEMMA LineTyped ==
    ASSUME StreamTyped, NEW c \in 1..Len(plan.steps), NEW v \in Int,
           NEW k \in {"moving", "failed", "row"}, NEW b \in BOOLEAN, plan' = plan,
           stream' = Append(stream, Line(c, v, k, b))
    PROVE  /\ StreamTyped' /\ Line(c, v, k, b) \in Marks
           /\ Len(stream) \in Nat /\ Len(stream') = Len(stream) + 1
           /\ \A i \in 1..Len(stream) : stream'[i] = stream[i]
           /\ stream'[Len(stream) + 1] = Line(c, v, k, b)
<1>1. Line(c, v, k, b) \in Marks
  BY DEF Line, Marks
<1>2. stream \in Seq(Marks) /\ Marks' = Marks
  BY PlanStays DEF StreamTyped
<1> QED
  BY <1>1, <1>2, AppendProperties, LenProperties DEF StreamTyped

\* Groups of variables that a step leaves as they are stay well-formed.
LEMMA Keeps ==
    ASSUME Typed, plan' = plan
    PROVE  /\ plan' \in Plans
           /\ UNCHANGED solver => SolverTyped'
           /\ UNCHANGED <<moves, step, shrinks>> => RampTyped'
           /\ UNCHANGED saved => SavedTyped'
           /\ UNCHANGED place => PlaceTyped'
           /\ UNCHANGED stream => StreamTyped'
BY PlanStays DEF Typed, SolverTyped, RampTyped, SavedTyped, PlaceTyped, StreamTyped, solver, saved, place

\* A new ramp starts with a whole step and nothing bisected.
LEMMA TowardsTyped ==
    ASSUME plan' = plan, NEW ahead \in Seq(Biases \X Int), Towards(ahead)
    PROVE  RampTyped' /\ moves' = ahead
<1>1. MAX_BIAS_STEP \in Nat \ {0} /\ MAX_BISECTIONS \in Nat
  BY SweepAssumption
<1> QED
  BY <1>1, PlanStays DEF Towards, RampTyped

\* A solve that does not converge leaves node values of the types they have.
LEMMA FailsTyped ==
    ASSUME Typed, plan' = plan, Fails, applied' = applied, device' = applied
    PROVE  SolverTyped'
BY PlanStays DEF Typed, SolverTyped, Fails

\* The way to a curve is a list of moves.
LEMMA RouteTyped ==
    ASSUME plan \in Plans, NEW c \in 1..Len(plan.steps)
    PROVE  LET size == Len(plan.steps[c])
           IN  /\ size \in Nat /\ plan.steps[c] \in Seq(Biases \X Int)
               /\ Route(c) \in Seq(Biases \X Int) /\ Len(Route(c)) = size + 1
               /\ \A i \in 1..size : Route(c)[i] = plan.steps[c][i]
               /\ Route(c)[size + 1] = <<Sweep, walk[1]>>
<1>1. plan.steps[c] \in Seq(Biases \X Int) /\ Sweep \in Biases /\ walk[1] \in Int
  BY PlanFacts, WalkTyped
<1>2. <<Sweep, walk[1]>> \in Biases \X Int
  BY <1>1
<1> DEFINE m == <<Sweep, walk[1]>>
<1> HIDE DEF m
<1>3. Route(c) = Append(plan.steps[c], m)
  BY <1>1, <1>2, AppendIsConcat DEF Route, m
<1>4. m \in Biases \X Int /\ Len(plan.steps[c]) \in Nat
  BY <1>1, <1>2, LenProperties DEF m
<1>5. /\ Route(c) \in Seq(Biases \X Int) /\ Len(Route(c)) = Len(plan.steps[c]) + 1
      /\ \A i \in 1..Len(plan.steps[c]) : Route(c)[i] = plan.steps[c][i]
      /\ Route(c)[Len(plan.steps[c]) + 1] = m
  BY <1>1, <1>3, <1>4, AppendProperties
<1> QED
  BY <1>1, <1>4, <1>5 DEF m

\* "No state" is none of the states that are saved.
LEMMA NoStartIsNotSaved ==
    ASSUME plan \in Plans
    PROVE  NoStart \notin SavedStates /\ (\A s \in SavedStates : s # NoStart)
BY PlanFacts DEF NoStart, SavedStates

\* The move to a curve keeps the types, from whichever state it sets out.
LEMMA GoToCurveTyped ==
    ASSUME Typed, NEW base \in SavedStates, NEW from \in SavedStates \cup {NoStart},
           NEW c \in 1..Len(plan.steps), GoToCurve(base, from, c)
    PROVE  Typed' /\ Whereabouts'
<1>1. plan' = plan /\ plan \in Plans
  BY DEF GoToCurve, Typed
<1>2. Len(plan.steps) \in Nat /\ Len(plan.sweep) \in Nat
  BY <1>1, PlanFacts
<1>3. SolverTyped'
  <2>1. CASE from = NoStart
    BY <1>1, <2>1, Keeps DEF GoToCurve
  <2>2. CASE from # NoStart
    <3>1. from \in SavedStates /\ BackTo(from)
      BY <2>2 DEF GoToCurve
    <3> QED
      BY <1>1, <3>1, BackToTyped
  <2> QED
    BY <2>1, <2>2
<1>4. RampTyped'
  <2>1. Route(c) \in Seq(Biases \X Int)
    BY <1>1, RouteTyped
  <2> QED
    BY <1>1, <2>1, TowardsTyped DEF GoToCurve, Route
<1>5. SavedTyped' /\ PlaceTyped' /\ baseline' \in SavedStates'
  BY <1>1, <1>2, PlanStays DEF GoToCurve, SavedTyped, PlaceTyped
<1>6. StreamTyped'
  <2>1. CASE stream' = Append(stream, Line(c, 0, "moving", TRUE))
    <3>1. StreamTyped /\ "moving" \in {"moving", "failed", "row"} /\ 0 \in Int /\ TRUE \in BOOLEAN
      BY DEF Typed
    <3> QED
      BY <1>1, <2>1, <3>1, LineTyped
  <2>2. CASE stream' = stream
    BY <1>1, <2>2, Keeps
  <2> QED
    BY <2>1, <2>2 DEF GoToCurve
<1>7. stage' = "to_curve" /\ curve' = c /\ index' = 0 /\ c # 0
  BY <1>2 DEF GoToCurve
<1>8. Whereabouts'
  BY <1>5, <1>7 DEF Whereabouts
<1> QED
  BY <1>1, <1>3, <1>4, <1>5, <1>6, <1>7, <1>8 DEF Typed, Stages

\* The part of the invariant that says which values occur where.
TypeInv == Typed /\ Whereabouts

\* A run starts so.
LEMMA SweepTypeInit == SweepInit => TypeInv
<1> SUFFICES ASSUME SweepInit PROVE TypeInv
  OBVIOUS
<1> USE DEF SweepInit
<1>1. /\ Len(plan.steps) \in Nat \ {0} /\ Len(plan.sweep) \in Nat \ {0}
      /\ MAX_BIAS_STEP \in Nat \ {0} /\ MAX_BISECTIONS \in Nat
  BY PlanFacts, SweepAssumption
<1>2. SolverTyped
  BY DEF SolverTyped, Points
<1>3. RampTyped /\ SavedTyped /\ PlaceTyped /\ StreamTyped
  BY <1>1 DEF RampTyped, SavedTyped, PlaceTyped, StreamTyped
<1> QED
  BY <1>2, <1>3 DEF TypeInv, Typed, Whereabouts, Stages

\* A step of the ramp that is solved, or not.
LEMMA StepTyped ==
    ASSUME TypeInv, StepHolds \/ StepFails
    PROVE  TypeInv'
<1>1. plan' = plan /\ Typed /\ moves # <<>> /\ UNCHANGED <<stage, moves, curve, index>>
  BY DEF StepHolds, StepFails, Ramps, TypeInv, place
<1>2. SavedTyped' /\ PlaceTyped' /\ StreamTyped'
  BY <1>1, Keeps DEF StepHolds, StepFails
<1>3. UNCHANGED <<baseline, curve_start, stream>>
  BY DEF StepHolds, StepFails, saved
<1>4. Whereabouts'
  <2>1. stage # "start"
    BY <1>1 DEF TypeInv, Whereabouts
  <2> QED
    BY <1>1, <1>3, <2>1, PlanStays DEF TypeInv, Whereabouts
<1>5. SolverTyped' /\ RampTyped'
  <2>1. CASE StepHolds
    <3>1. SolverTyped'
      BY <1>1, <2>1, Stepping, PlanStays DEF StepHolds, Solves, SolverTyped
    <3> QED
      BY <1>1, <2>1, <3>1, Keeps DEF StepHolds
  <2>2. CASE StepFails
    <3>1. SolverTyped'
      BY <1>1, <2>2, FailsTyped DEF StepFails, PutBack
    <3>2. step \in 1..MAX_BIAS_STEP /\ MAX_BIAS_STEP \in Nat /\ shrinks \in 0..MAX_BISECTIONS
          /\ MAX_BISECTIONS \in Nat /\ shrinks < MAX_BISECTIONS
      BY <1>1, <2>2, SweepAssumption DEF Typed, RampTyped, StepFails, MayShrink
    <3>3. step' \in 1..MAX_BIAS_STEP /\ shrinks' \in 0..MAX_BISECTIONS
      BY <2>2, <3>2 DEF StepFails
    <3>4. RampTyped'
      BY <1>1, <2>2, <3>3, PlanStays DEF Typed, RampTyped, StepFails
    <3> QED
      BY <3>1, <3>4
  <2> QED
    BY <2>1, <2>2
<1>6. plan' \in Plans /\ stage' \in Stages
  BY <1>1 DEF Typed
<1> QED
  BY <1>2, <1>4, <1>5, <1>6 DEF TypeInv, Typed

\* The steps of the program, one lemma each: the first solve,
LEMMA BeginTyped ==
    ASSUME TypeInv, Begin
    PROVE  TypeInv'
<1>1. plan' = plan /\ Typed /\ plan \in Plans
  BY DEF Begin, TypeInv, Typed
<1>2. SolverTyped'
  BY <1>1, PlanStays DEF Begin, Solves, Typed, SolverTyped
<1>3. RampTyped'
  <2> DEFINE head == IF plan.floating THEN << <<Sweep, warm>> >> ELSE <<>>
  <2>0. <<Sweep, warm>> \in Biases \X Int /\ plan.constants \in Seq(Biases \X Int)
    BY <1>1, PlanFacts
  <2>1. head \in Seq(Biases \X Int)
    <3> DEFINE m == <<Sweep, warm>>
    <3>1. m \in Biases \X Int
      BY <2>0
    <3> HIDE DEF m
    <3>2. <<m>> \in Seq(Biases \X Int)
      BY <3>1
    <3> QED
      BY <3>2 DEF m
  <2> HIDE DEF head
  <2>2. head \o plan.constants \in Seq(Biases \X Int)
    BY <2>0, <2>1, ConcatProperties
  <2> QED
    BY <1>1, <2>2, TowardsTyped DEF Begin, head
<1>4. SavedTyped' /\ PlaceTyped' /\ StreamTyped'
  BY <1>1, Keeps DEF Begin
<1>5. Whereabouts'
  BY <1>1, PlanStays DEF Begin, TypeInv, Whereabouts, saved, place
<1>6. stage' \in Stages
  BY DEF Begin, Stages
<1> QED
  BY <1>1, <1>2, <1>3, <1>4, <1>5, <1>6, Keeps DEF TypeInv, Typed

\* The run ends, by itself or not; nothing else changes but what a solve that failed
\* left in the nodes.
LEMMA EndTyped ==
    ASSUME TypeInv, BeginFails \/ LeadInFails \/ Kill
    PROVE  TypeInv'
<1>1. plan' = plan /\ Typed /\ stage' \in {"broken", "killed"}
  BY DEF BeginFails, LeadInFails, Kill, TypeInv
<1>2. SolverTyped'
  <2>1. CASE BeginFails
    BY <1>1, <2>1, FailsTyped DEF BeginFails, Typed, SolverTyped
  <2>2. CASE LeadInFails
    BY <1>1, <2>2, FailsTyped DEF LeadInFails, LastStepFails, PutBack
  <2>3. CASE Kill
    BY <1>1, <2>3, Keeps DEF Kill
  <2> QED
    BY <2>1, <2>2, <2>3
<1>3. RampTyped' /\ SavedTyped' /\ PlaceTyped' /\ StreamTyped'
  BY <1>1, Keeps DEF BeginFails, LeadInFails, Kill
<1>4. stage' \in Stages
  BY <1>1 DEF Stages, Ended
<1>5. Whereabouts'
  BY <1>1 DEF Whereabouts
<1> QED
  BY <1>1, <1>2, <1>3, <1>4, <1>5, Keeps DEF TypeInv, Typed

\* the next bias of a ramp,
LEMMA NextMoveTyped ==
    ASSUME TypeInv, NextMove
    PROVE  TypeInv'
<1>1. plan' = plan /\ Typed /\ moves # <<>> /\ stage' = stage /\ stage \in {"lead_in", "to_curve"}
  BY DEF NextMove, TypeInv, Arrived
<1>2. RampTyped'
  <2>1. Tail(moves) \in Seq(Biases \X Int)
    BY <1>1, Driving
  <2> QED
    BY <1>1, <2>1, TowardsTyped DEF NextMove
<1>3. SolverTyped' /\ SavedTyped' /\ PlaceTyped' /\ StreamTyped'
  BY <1>1, Keeps DEF NextMove
<1>4. stage' \in Stages
  BY <1>1 DEF Stages
<1>5. Whereabouts'
  BY <1>1, PlanStays DEF NextMove, TypeInv, Whereabouts, saved, place
<1> QED
  BY <1>1, <1>2, <1>3, <1>4, <1>5, Keeps DEF TypeInv, Typed

\* the end of the lead-in,
LEMMA FirstCurveTyped ==
    ASSUME TypeInv, FirstCurve, Solved
    PROVE  TypeInv'
<1>1. Typed /\ GoToCurve(Start, NoStart, 1) /\ plan \in Plans
  BY DEF FirstCurve, TypeInv, Typed
<1>2. 1 \in 1..Len(plan.steps)
  BY <1>1, PlanFacts
<1>3. Start \in SavedStates
  BY <1>1 DEF Typed, SolverTyped, Start, SavedStates, Solved
<1> QED
  BY <1>1, <1>2, <1>3, GoToCurveTyped DEF TypeInv

\* a curve whose start is not reached,
LEMMA GivingUpTyped ==
    ASSUME TypeInv, CurveFails \/ FallBack \/ GiveUpCurve
    PROVE  TypeInv'
<1>1. plan' = plan /\ Typed /\ plan \in Plans /\ UNCHANGED <<step, shrinks, baseline, curve>>
  BY DEF CurveFails, FallBack, GiveUpCurve, TypeInv, Typed, saved, place
<1>2. Len(plan.sweep) \in Nat \ {0}
  BY <1>1, PlanFacts
<1>3. CASE CurveFails
  <2>1. SolverTyped'
    BY <1>1, <1>3, FailsTyped DEF CurveFails, LastStepFails, PutBack
  <2>2. RampTyped'
    BY <1>1, <1>3, PlanStays DEF CurveFails, Typed, RampTyped
  <2>3. SavedTyped' /\ PlaceTyped' /\ StreamTyped'
    BY <1>1, <1>3, Keeps DEF CurveFails
  <2>4. Whereabouts' /\ stage' \in Stages
    BY <1>1, <1>3, PlanStays DEF CurveFails, TypeInv, Whereabouts, saved, place, Stages
  <2> QED
    BY <1>1, <2>1, <2>2, <2>3, <2>4, Keeps DEF TypeInv, Typed
<1>4. CASE FallBack
  <2>1. baseline \in SavedStates
    BY <1>4 DEF FallBack, TypeInv, Whereabouts
  <2>2. SolverTyped'
    BY <1>1, <1>4, <2>1, BackToTyped DEF FallBack
  <2>3. RampTyped' /\ StreamTyped'
    BY <1>1, <1>4, Keeps DEF FallBack
  <2>4. SavedTyped' /\ PlaceTyped' /\ baseline' \in SavedStates'
    BY <1>1, <1>2, <1>4, <2>1, PlanStays DEF FallBack, Typed, SavedTyped, PlaceTyped
  <2>5. Whereabouts' /\ stage' \in Stages
    BY <1>1, <1>4, <2>4, PlanStays DEF FallBack, TypeInv, Whereabouts, Stages
  <2> QED
    BY <1>1, <2>2, <2>3, <2>4, <2>5, Keeps DEF TypeInv, Typed
<1>5. CASE GiveUpCurve
  <2>1. SolverTyped' /\ RampTyped' /\ SavedTyped'
    BY <1>1, <1>5, Keeps DEF GiveUpCurve
  <2>2. /\ index \in 0..(Len(plan.sweep) + 1) /\ curve \in 0..Len(plan.steps) /\ index # 0 /\ curve # 0
        /\ StreamTyped
    BY <1>1, <1>5 DEF GiveUpCurve, TypeInv, Typed, PlaceTyped, Whereabouts
  <2>3. index \in 1..Len(plan.sweep) /\ curve \in 1..Len(plan.steps)
    BY <1>1, <1>2, <1>5, <2>2, PlanFacts DEF GiveUpCurve
  <2>4. PlaceTyped' /\ index' # 0
    BY <1>1, <1>2, <1>5, <2>2, <2>3 DEF GiveUpCurve, PlaceTyped
  <2>5. StreamTyped'
    <3>1. plan.sweep[index] \in Int /\ "failed" \in {"moving", "failed", "row"} /\ TRUE \in BOOLEAN
      BY <1>1, <2>3, PlanFacts
    <3> QED
      BY <1>1, <1>5, <2>2, <2>3, <3>1, LineTyped DEF GiveUpCurve
  <2>6. Whereabouts' /\ stage' \in Stages
    BY <1>1, <1>5, <2>4, PlanStays DEF GiveUpCurve, TypeInv, Whereabouts, saved, Stages
  <2> QED
    BY <1>1, <2>1, <2>4, <2>5, <2>6, Keeps DEF TypeInv, Typed
<1> QED
  BY <1>3, <1>4, <1>5

\* the next value of the walk, and the turn,
LEMMA AimTyped ==
    ASSUME TypeInv, Aim
    PROVE  /\ TypeInv' /\ index \in 1..Len(plan.sweep) /\ moves' = << <<Sweep, walk[index]>> >>
           /\ curve_start \in SavedStates
<1>1. plan' = plan /\ Typed /\ plan \in Plans /\ UNCHANGED <<baseline, curve_start, curve, index, stream>>
  BY DEF Aim, TypeInv, Typed, saved, place
<1>2. /\ Len(plan.sweep) \in Nat \ {0} /\ Len(walk) = Len(plan.sweep)
      /\ \A i \in 1..Len(plan.sweep) : walk[i] \in Int
  BY <1>1, WalkTyped
<1>3. index \in 1..Len(plan.sweep) /\ curve_start \in SavedStates /\ curve # 0 /\ baseline \in SavedStates
  BY <1>1, <1>2 DEF Aim, TypeInv, Typed, PlaceTyped, Whereabouts
<1>4. RampTyped' /\ moves' = << <<Sweep, walk[index]>> >>
  <2> DEFINE m == <<Sweep, walk[index]>>
  <2>1. m \in Biases \X Int
    BY <1>1, <1>2, <1>3, PlanFacts
  <2>2. Towards(<<m>>)
    BY DEF Aim
  <2> HIDE DEF m
  <2>3. <<m>> \in Seq(Biases \X Int)
    BY <2>1
  <2>4. RampTyped' /\ moves' = <<m>>
    BY <1>1, <2>2, <2>3, TowardsTyped
  <2> QED
    BY <2>4 DEF m
<1>5. SolverTyped'
  <2>1. CASE BackTo(curve_start)
    BY <1>1, <1>3, <2>1, BackToTyped
  <2>2. CASE UNCHANGED solver
    BY <1>1, <2>2, Keeps
  <2> QED
    BY <2>1, <2>2 DEF Aim
<1>6. SavedTyped' /\ PlaceTyped' /\ StreamTyped'
  BY <1>1, Keeps DEF saved, place
<1>7. stage' = "walk"
  BY DEF Aim
<1>8. Whereabouts'
  <2>1. index' # 0 /\ index' <= Len(plan'.sweep) /\ moves' = << <<Sweep, walk'[index']>> >>
    BY <1>1, <1>2, <1>3, <1>4, PlanStays
  <2>2. curve' # 0 /\ baseline' \in SavedStates' /\ curve_start' \in SavedStates'
    BY <1>1, <1>3, PlanStays
  <2> QED
    BY <1>7, <2>1, <2>2 DEF Whereabouts
<1> QED
  BY <1>1, <1>3, <1>4, <1>5, <1>6, <1>7, <1>8, Keeps DEF TypeInv, Typed, Stages

\* the start of the walk,
LEMMA CurveStartsTyped ==
    ASSUME TypeInv, CurveStarts, nodes = applied
    PROVE  TypeInv' /\ curve_start' \in SavedStates' /\ curve_start'.applied = applied
<1>1. plan' = plan /\ Typed /\ plan \in Plans /\ UNCHANGED <<baseline, curve, moves, step, shrinks, applied>>
  BY DEF CurveStarts, TypeInv, Typed, solver
<1>2. Len(plan.sweep) \in Nat \ {0}
  BY <1>1, PlanFacts
<1>3. curve_start' \in SavedStates /\ curve_start'.applied = applied
  BY <1>1 DEF CurveStarts, Typed, SolverTyped, Start, SavedStates
<1>4. SolverTyped' /\ RampTyped' /\ StreamTyped'
  BY <1>1, Keeps DEF CurveStarts
<1>5. SavedTyped' /\ PlaceTyped'
  BY <1>1, <1>2, <1>3, PlanStays DEF CurveStarts, Typed, SavedTyped, PlaceTyped
<1>6. Whereabouts' /\ stage' \in Stages
  BY <1>1, <1>3, PlanStays DEF CurveStarts, TypeInv, Whereabouts, Stages
<1> QED
  BY <1>1, <1>3, <1>4, <1>5, <1>6, Keeps, PlanStays DEF TypeInv, Typed

\* The walk goes on, with a row or without.
LEMMA PointTyped ==
    ASSUME TypeInv, Record \/ Stuck
    PROVE  TypeInv' /\ index \in 1..Len(plan.sweep) /\ curve \in 1..Len(plan.steps) /\ walk[index] \in Int
<1>1. plan' = plan /\ Typed /\ plan \in Plans /\ UNCHANGED <<baseline, curve_start, curve, step, shrinks>>
      /\ moves' = <<>> /\ stage' = "aim" /\ index' = index + 1 /\ stage = "walk"
  BY DEF Record, Stuck, TypeInv, Typed, saved
<1>2. /\ Len(plan.sweep) \in Nat \ {0} /\ Len(walk) = Len(plan.sweep)
      /\ \A i \in 1..Len(plan.sweep) : walk[i] \in Int
  BY <1>1, WalkTyped
<1>3. index \in 1..Len(plan.sweep) /\ curve_start \in SavedStates /\ curve \in 1..Len(plan.steps) /\ baseline \in SavedStates
  BY <1>1, <1>2, PlanFacts DEF TypeInv, Typed, PlaceTyped, Whereabouts
<1>4. SolverTyped'
  <2>1. CASE Record
    BY <1>1, <2>1, Keeps DEF Record
  <2>2. CASE Stuck
    BY <1>1, <2>2, FailsTyped DEF Stuck, LastStepFails, PutBack
  <2> QED
    BY <2>1, <2>2
<1>5. RampTyped' /\ SavedTyped' /\ PlaceTyped'
  BY <1>1, <1>2, <1>3, PlanStays DEF Typed, RampTyped, SavedTyped, PlaceTyped
<1>6. StreamTyped'
  <2>1. Solved \in BOOLEAN /\ TRUE \in BOOLEAN
        /\ "row" \in {"moving", "failed", "row"} /\ "failed" \in {"moving", "failed", "row"}
    BY DEF Solved
  <2>2. StreamTyped /\ walk[index] \in Int
    BY <1>1, <1>2, <1>3 DEF Typed
  <2>3. CASE Record
    BY <1>1, <1>3, <2>1, <2>2, <2>3, LineTyped DEF Record
  <2>4. CASE Stuck
    BY <1>1, <1>3, <2>1, <2>2, <2>4, LineTyped DEF Stuck
  <2> QED
    BY <2>3, <2>4
<1>7. Whereabouts' /\ stage' \in Stages
  BY <1>1, <1>2, <1>3, PlanStays DEF Whereabouts, Stages
<1> QED
  BY <1>1, <1>2, <1>3, <1>4, <1>5, <1>6, <1>7, Keeps DEF TypeInv, Typed

\* the next curve or the end,
LEMMA NextCurveTyped ==
    ASSUME TypeInv, NextCurve
    PROVE  TypeInv'
<1>1. Typed /\ plan \in Plans /\ stage \in {"aim", "giving_up"}
  BY DEF NextCurve, CurveOver, TypeInv, Typed
<1>2. /\ baseline \in SavedStates /\ curve_start \in SavedStates \cup {NoStart}
      /\ curve \in 0..Len(plan.steps) /\ Len(plan.steps) \in Nat
  BY <1>1, PlanFacts DEF TypeInv, Typed, SavedTyped, PlaceTyped, Whereabouts
<1>3. CASE GoToCurve(baseline, curve_start, curve + 1)
  <2>1. curve + 1 \in 1..Len(plan.steps)
    BY <1>2, <1>3 DEF GoToCurve
  <2> QED
    BY <1>1, <1>2, <1>3, <2>1, GoToCurveTyped DEF TypeInv
<1>4. CASE EndRun(baseline, curve_start, curve + 1)
  <2>1. plan' = plan /\ UNCHANGED saved /\ stage' = "done"
    BY <1>4 DEF EndRun, saved
  <2>2. Whereabouts' /\ stage' \in Stages
    BY <2>1 DEF Whereabouts, Stages, Ended
  <2> QED
    BY <1>1, <1>4, <2>1, <2>2, Keeps DEF TypeInv, Typed, EndRun
<1> QED
  BY <1>3, <1>4 DEF NextCurve

\* and a step of somebody else.
LEMMA StutterTyped ==
    ASSUME TypeInv, UNCHANGED sweepVars
    PROVE  TypeInv'
<1>1. plan' = plan /\ Typed
      /\ UNCHANGED <<stage, moves, step, shrinks, solver, saved, place, stream>>
  BY DEF sweepVars, TypeInv
<1>2. Whereabouts' /\ stage' \in Stages
  BY <1>1, PlanStays DEF TypeInv, Typed, Whereabouts, solver, saved, place
<1> QED
  BY <1>1, <1>2, Keeps DEF TypeInv, Typed

(* ------------------------------ the bias sweep: what the rows rest on --- *)

\* A voltage on its way is pending, and no ramp is at its end while one is.
LEMMA OnTheWay ==
    ASSUME Typed
    PROVE  /\ moves # <<>> /\ Remaining # 0 => Pending
           /\ moves = <<>> => ~Pending
<1>1. moves # <<>> /\ Remaining # 0 => Pending
  <2> SUFFICES ASSUME moves # <<>>, Remaining # 0 PROVE Pending
    OBVIOUS
  <2>1. 1 \in 1..Len(moves) /\ applied[moves[1][1]] # moves[1][2] /\ 1..(1 - 1) = {}
    BY Driving
  <2> QED
    BY <2>1 DEF Pending
<1>2. moves = <<>> => ~Pending
  BY DEF Pending
<1> QED
  BY <1>1, <1>2

\* The head of moves is reached: what is pending is pending still.
LEMMA PendingPasses ==
    ASSUME Typed, moves # <<>>, Remaining = 0, Pending, moves' = Tail(moves), applied' = applied
    PROVE  Pending'
<1>1. /\ Len(moves) \in Nat \ {0} /\ applied[moves[1][1]] = moves[1][2]
      /\ Len(moves') = Len(moves) - 1
      /\ \A i \in 1..Len(moves') : moves'[i] = moves[i + 1]
  BY Driving
<1>2. PICK k \in 1..Len(moves) : /\ applied[moves[k][1]] # moves[k][2]
                                 /\ \A j \in 1..(k - 1) : moves[j][1] # moves[k][1]
  BY DEF Pending
<1>3. k # 1 /\ k - 1 \in 1..Len(moves') /\ moves'[k - 1] = moves[k]
  BY <1>1, <1>2
<1>4. \A j \in 1..((k - 1) - 1) : moves'[j] = moves[j + 1] /\ j + 1 \in 1..(k - 1)
  BY <1>1, <1>2, <1>3
<1>5. \A j \in 1..((k - 1) - 1) : moves'[j][1] # moves'[k - 1][1]
  BY <1>2, <1>3, <1>4
<1> QED
  BY <1>2, <1>3, <1>5 DEF Pending

\* A step that leaves moves and voltages alone leaves what is pending.
LEMMA PendingStays ==
    ASSUME UNCHANGED <<moves, applied>>
    PROVE  Pending' <=> Pending
BY DEF Pending

\* A line is one more row, when it is one.
LEMMA RowsGrow ==
    ASSUME Typed, NEW l \in Marks, stream' = Append(stream, l)
    PROVE  /\ \A c : HasRow(c)' <=> HasRow(c) \/ (l.curve = c /\ l.kind = "row")
           /\ Len(stream) \in Nat /\ Len(stream') = Len(stream) + 1
           /\ stream'[Len(stream) + 1] = l
           /\ \A i \in 1..Len(stream) : stream'[i] = stream[i]
<1>1. stream \in Seq(Marks)
  BY DEF Typed, StreamTyped
<1>2. /\ Len(stream) \in Nat /\ Len(stream') = Len(stream) + 1
      /\ stream'[Len(stream) + 1] = l
      /\ \A i \in 1..Len(stream) : stream'[i] = stream[i]
  BY <1>1, AppendProperties, LenProperties
<1>3. ASSUME NEW c PROVE HasRow(c)' <=> HasRow(c) \/ (l.curve = c /\ l.kind = "row")
  <2>1. ASSUME HasRow(c)' PROVE HasRow(c) \/ (l.curve = c /\ l.kind = "row")
    <3>1. PICK i \in 1..Len(stream') : stream'[i].curve = c /\ stream'[i].kind = "row"
      BY <2>1 DEF HasRow
    <3>2. CASE i = Len(stream) + 1
      BY <1>2, <3>1, <3>2
    <3>3. CASE i \in 1..Len(stream)
      BY <1>2, <3>1, <3>3 DEF HasRow
    <3> QED
      BY <1>2, <3>2, <3>3
  <2>2. ASSUME HasRow(c) PROVE HasRow(c)'
    <3>1. PICK i \in 1..Len(stream) : stream[i].curve = c /\ stream[i].kind = "row"
      BY <2>2 DEF HasRow
    <3>2. i \in 1..Len(stream') /\ stream'[i] = stream[i]
      BY <1>2
    <3> QED
      BY <3>1, <3>2 DEF HasRow
  <2>3. ASSUME l.curve = c, l.kind = "row" PROVE HasRow(c)'
    <3>1. Len(stream) + 1 \in 1..Len(stream')
      BY <1>2
    <3> QED
      BY <1>2, <2>3, <3>1 DEF HasRow
  <2> QED
    BY <2>1, <2>2, <2>3
<1> QED
  BY <1>2, <1>3

\* Nothing that happens within a curve makes the curves before it cleaner or less clean.
LEMMA CleanStays ==
    ASSUME Typed, plan' = plan, curve' = curve,
           stream' = stream \/ \E l \in Marks : l.curve = curve /\ stream' = Append(stream, l)
    PROVE  Clean' <=> Clean
<1>1. curve \in Nat /\ (Straight' <=> Straight)
  BY PlanFacts, PlanStays DEF Typed, PlaceTyped
<1>2. \A c \in 1..(curve - 1) : HasRow(c)' <=> HasRow(c)
  <2>1. CASE stream' = stream
    BY <2>1 DEF HasRow
  <2>2. CASE \E l \in Marks : l.curve = curve /\ stream' = Append(stream, l)
    <3>1. PICK l \in Marks : l.curve = curve /\ stream' = Append(stream, l)
      BY <2>2
    <3>2. \A c \in 1..(curve - 1) : c # curve
      BY <1>1
    <3> QED
      BY <3>1, <3>2, RowsGrow
  <2> QED
    BY <2>1, <2>2
<1>3. 1..(curve' - 1) = 1..(curve - 1)
  OBVIOUS
<1> QED
  BY <1>1, <1>2, <1>3 DEF Clean

\* The step voltages of a curve: a name is one of them or it is not.
LEMMA StepNames ==
    ASSUME plan \in Plans, NEW c \in 1..Len(plan.steps)
    PROVE  /\ \A i, j \in 1..Len(plan.steps[c]) : plan.steps[c][i][1] = plan.steps[c][j][1] => i = j
           /\ Apart => \A i \in 1..Len(plan.steps[c]) : plan.steps[c][i][1] # Sweep
<1>1. /\ Len(plan.steps) \in Nat \ {0} /\ Len(plan.steps[c]) = Len(plan.steps[1])
      /\ \A d \in 1..Len(plan.steps) : \A i, j \in 1..Len(plan.steps[1]) :
            plan.steps[d][i][1] = plan.steps[1][j][1] <=> i = j
  BY PlanFacts
<1>2. \A i \in 1..Len(plan.steps[c]) : plan.steps[c][i][1] = plan.steps[1][i][1]
  BY <1>1
<1>3. \A i \in 1..Len(plan.steps[c]) : plan.steps[c][i][1] \in NamesIn(plan.steps[1])
  BY <1>1, <1>2 DEF NamesIn
<1> QED
  BY <1>1, <1>2, <1>3 DEF Apart

\* What is left of the way to a curve, and what lies behind.
LEMMA OnRouteFacts ==
    ASSUME Typed, OnRoute, curve \in 1..Len(plan.steps)
    PROVE  LET size == Len(plan.steps[curve])
               d == size + 1 - Len(moves)
           IN  /\ size \in Nat /\ Len(moves) \in Nat /\ d \in 0..(size + 1)
               /\ \A i \in 1..Len(moves) : moves[i] = Route(curve)[d + i]
               /\ \A j \in 1..d : j = size + 1 \/ Apart => applied[Route(curve)[j][1]] = Route(curve)[j][2]
               /\ \A j \in 1..size : Route(curve)[j] = plan.steps[curve][j]
               /\ Route(curve)[size + 1] = <<Sweep, walk[1]>>
               /\ Len(Route(curve)) = size + 1
               /\ \A j \in 1..(size + 1) : Route(curve)[j][1] \in Biases
<1> DEFINE size == Len(plan.steps[curve])
<1>1. /\ size \in Nat /\ Len(Route(curve)) = size + 1
      /\ \A j \in 1..size : Route(curve)[j] = plan.steps[curve][j]
      /\ Route(curve)[size + 1] = <<Sweep, walk[1]>>
      /\ Route(curve) \in Seq(Biases \X Int)
  BY RouteTyped DEF Typed
<1>2. Len(moves) \in Nat /\ Len(moves) <= size + 1
  BY <1>1, LenProperties DEF Typed, RampTyped, OnRoute
<1>3. \A j \in 1..(size + 1) : Route(curve)[j][1] \in Biases
  <2>1. \A j \in 1..(size + 1) : Route(curve)[j] \in Biases \X Int
    BY <1>1, ElementOfSeq
  <2> QED
    BY <2>1
<1> HIDE DEF size
<1>4. /\ \A i \in 1..Len(moves) : moves[i] = Route(curve)[size + 1 - Len(moves) + i]
      /\ \A j \in 1..(size + 1 - Len(moves)) :
            j = size + 1 \/ Apart => applied[Route(curve)[j][1]] = Route(curve)[j][2]
  BY <1>1 DEF OnRoute
<1>5. size + 1 - Len(moves) \in 0..(size + 1)
  BY <1>1, <1>2
<1> QED
  BY <1>1, <1>2, <1>3, <1>4, <1>5 DEF size

\* A step of the ramp disturbs nothing that lies behind.
LEMMA OnRouteSteps ==
    ASSUME Typed, OnRoute, curve \in 1..Len(plan.steps), moves # <<>>,
           plan' = plan, curve' = curve, moves' = moves,
           \A b \in Biases : b # Driven => applied'[b] = applied[b]
    PROVE  OnRoute'
<1> DEFINE size == Len(plan.steps[curve])
           d == size + 1 - Len(moves)
           R == Route(curve)
<1>1. /\ size \in Nat /\ Len(moves) \in Nat /\ d \in 0..(size + 1)
      /\ \A i \in 1..Len(moves) : moves[i] = R[d + i]
      /\ \A j \in 1..d : j = size + 1 \/ Apart => applied[R[j][1]] = R[j][2]
      /\ \A j \in 1..size : R[j] = plan.steps[curve][j]
      /\ R[size + 1] = <<Sweep, walk[1]>> /\ Len(R) = size + 1
      /\ \A j \in 1..(size + 1) : R[j][1] \in Biases
  BY OnRouteFacts
<1>2. Len(moves) # 0 /\ Driven = moves[1][1]
  BY Driving
<1>3. /\ \A i, j \in 1..size : plan.steps[curve][i][1] = plan.steps[curve][j][1] => i = j
      /\ Apart => \A i \in 1..size : plan.steps[curve][i][1] # Sweep
  BY StepNames DEF Typed
<1>4. R' = R /\ (Apart' <=> Apart)
  BY PlanStays DEF Route
<1>4a. d \in 0..size /\ d + Len(moves) = size + 1
  BY <1>1, <1>2
<1> HIDE DEF size, R, d
<1>5. Driven = R[d + 1][1] /\ d + 1 \in 1..(size + 1)
  BY <1>1, <1>2, <1>4a
<1>6. \A j \in 1..d : j # size + 1 /\ (Apart => R[j][1] # Driven)
  <2> SUFFICES ASSUME NEW j \in 1..d PROVE j # size + 1 /\ (Apart => R[j][1] # Driven)
    OBVIOUS
  <2>1. j \in 1..size /\ j # d + 1
    BY <1>1, <1>4a
  <2>2. CASE d + 1 = size + 1
    BY <1>1, <1>3, <1>5, <2>1, <2>2
  <2>3. CASE d + 1 # size + 1
    <3>1. d + 1 \in 1..size
      BY <1>1, <1>4a, <2>3
    <3> QED
      BY <1>1, <1>3, <1>5, <2>1, <3>1
  <2> QED
    BY <2>2, <2>3
<1>7. \A j \in 1..d : j = size + 1 \/ Apart => applied'[R[j][1]] = R[j][2]
  <2> SUFFICES ASSUME NEW j \in 1..d, j = size + 1 \/ Apart PROVE applied'[R[j][1]] = R[j][2]
    OBVIOUS
  <2>1. R[j][1] # Driven /\ R[j][1] \in Biases /\ applied[R[j][1]] = R[j][2]
    BY <1>1, <1>6
  <2> QED
    BY <2>1
<1>8. Len(R) - Len(moves) = d /\ Len(moves) <= Len(R)
  BY <1>1, <1>4a
<1>9. /\ Len(moves) <= Len(R)
      /\ \A i \in 1..Len(moves) : moves[i] = R[Len(R) - Len(moves) + i]
      /\ \A j \in 1..(Len(R) - Len(moves)) : j = Len(R) \/ Apart => applied'[R[j][1]] = R[j][2]
  BY <1>1, <1>7, <1>8
<1>10. Route(curve)' = R
  BY <1>4 DEF R
<1> QED
  BY <1>4, <1>9, <1>10 DEF OnRoute

\* A target that is reached lies behind.
LEMMA OnRoutePasses ==
    ASSUME Typed, OnRoute, curve \in 1..Len(plan.steps), moves # <<>>, Remaining = 0,
           plan' = plan, curve' = curve, moves' = Tail(moves), applied' = applied
    PROVE  OnRoute'
<1> DEFINE size == Len(plan.steps[curve])
           d == size + 1 - Len(moves)
           R == Route(curve)
<1>1. /\ size \in Nat /\ Len(moves) \in Nat /\ d \in 0..(size + 1)
      /\ \A i \in 1..Len(moves) : moves[i] = R[d + i]
      /\ \A j \in 1..d : j = size + 1 \/ Apart => applied[R[j][1]] = R[j][2]
      /\ Len(R) = size + 1
  BY OnRouteFacts
<1>2. /\ Len(moves) # 0 /\ applied[moves[1][1]] = moves[1][2]
      /\ Len(moves') = Len(moves) - 1
      /\ \A i \in 1..Len(moves') : moves'[i] = moves[i + 1]
  BY Driving
<1>4. R' = R /\ (Apart' <=> Apart)
  BY PlanStays DEF Route
<1>4a. d \in 0..size /\ d + Len(moves) = size + 1 /\ 1 \in 1..Len(moves)
  BY <1>1, <1>2
<1> HIDE DEF size, R, d
<1>5. applied[R[d + 1][1]] = R[d + 1][2]
  BY <1>1, <1>2, <1>4a
<1>6. Len(R) - Len(moves') = d + 1 /\ Len(moves') <= Len(R)
  BY <1>1, <1>2, <1>4a
<1>7. \A i \in 1..Len(moves') : moves'[i] = R[(d + 1) + i]
  <2> SUFFICES ASSUME NEW i \in 1..Len(moves') PROVE moves'[i] = R[(d + 1) + i]
    OBVIOUS
  <2>1. i + 1 \in 1..Len(moves) /\ d + (i + 1) = (d + 1) + i
    BY <1>1, <1>2
  <2>2. moves'[i] = moves[i + 1] /\ moves[i + 1] = R[d + (i + 1)]
    BY <1>1, <1>2, <2>1
  <2> QED
    BY <2>1, <2>2
<1>8. \A j \in 1..(d + 1) : j = size + 1 \/ Apart => applied[R[j][1]] = R[j][2]
  <2> SUFFICES ASSUME NEW j \in 1..(d + 1), j = size + 1 \/ Apart PROVE applied[R[j][1]] = R[j][2]
    OBVIOUS
  <2>1. j \in 1..d \/ j = d + 1
    BY <1>4a
  <2> QED
    BY <1>1, <1>5, <2>1
<1>9. /\ Len(moves') <= Len(R)
      /\ \A i \in 1..Len(moves') : moves'[i] = R[Len(R) - Len(moves') + i]
      /\ \A j \in 1..(Len(R) - Len(moves')) : j = Len(R) \/ Apart => applied'[R[j][1]] = R[j][2]
  BY <1>1, <1>6, <1>7, <1>8
<1>10. Route(curve)' = R
  BY <1>4 DEF R
<1> QED
  BY <1>4, <1>9, <1>10 DEF OnRoute

\* At the end of the way the curve can start.
LEMMA OnRouteEnds ==
    ASSUME Typed, OnRoute, curve \in 1..Len(plan.steps), moves = <<>>
    PROVE  AtStart(applied, curve)
<1> DEFINE size == Len(plan.steps[curve])
           R == Route(curve)
<1>1. /\ size \in Nat
      /\ \A j \in 1..(size + 1 - Len(moves)) : j = size + 1 \/ Apart => applied[R[j][1]] = R[j][2]
      /\ \A j \in 1..size : R[j] = plan.steps[curve][j]
      /\ R[size + 1] = <<Sweep, walk[1]>>
  BY OnRouteFacts
<1>2. Len(moves) = 0
  OBVIOUS
<1> HIDE DEF size, R
<1>3. \A j \in 1..(size + 1) : j = size + 1 \/ Apart => applied[R[j][1]] = R[j][2]
  BY <1>1, <1>2
<1>4. applied[Sweep] = walk[1]
  BY <1>1, <1>3
<1>5. Apart => \A j \in 1..size : applied[plan.steps[curve][j][1]] = plan.steps[curve][j][2]
  BY <1>1, <1>3
<1> QED
  BY <1>4, <1>5 DEF AtStart, size

\* A new way begins.
LEMMA OnRouteBegins ==
    ASSUME plan \in Plans, plan' = plan, curve' \in 1..Len(plan.steps), moves' = Route(curve')
    PROVE  OnRoute'
<1> DEFINE R == Route(curve')
<1>1. Route(curve)' = R /\ Len(R) \in Nat
  BY RouteTyped, PlanStays DEF Route
<1> HIDE DEF R
<1>2. /\ Len(R) - Len(R) = 0 /\ Len(R) <= Len(R)
      /\ \A i \in 1..Len(R) : Len(R) - Len(R) + i = i
      /\ 1..0 = {}
  BY <1>1
<1> QED
  BY <1>1, <1>2 DEF OnRoute, R

\* The stages in which the curve has no row yet.
NotWalked == {"to_curve", "fallen", "giving_up"}

\* Nothing is written.
LEMMA RowsStay ==
    ASSUME Typed, Rows, plan' = plan, curve' = curve, stream' = stream,
           stage' \in NotWalked => stage \in NotWalked
    PROVE  Rows'
<1>1. \A c : HasRow(c)' <=> HasRow(c)
  BY DEF HasRow
<1>2. Straight' <=> Straight
  BY PlanStays
<1>3. HasRow(curve)' <=> HasRow(curve)
  BY <1>1 DEF HasRow
<1> QED
  BY <1>1, <1>2, <1>3 DEF Rows, NotWalked

\* A point is written: a failure, or a row that is solved if the curves before it have
\* rows.
LEMMA RowsPoint ==
    ASSUME Typed, Rows, plan' = plan, curve' = curve,
           NEW l \in Marks, l.curve = curve, stream' = Append(stream, l),
           IF l.kind = "row" THEN stage' \notin NotWalked /\ (Clean => l.solved)
                             ELSE stage' \in NotWalked => stage \in NotWalked
    PROVE  Rows'
<1> DEFINE n == Len(stream)
<1>1. /\ \A c : HasRow(c)' <=> HasRow(c) \/ (l.curve = c /\ l.kind = "row")
      /\ n \in Nat /\ Len(stream') = n + 1 /\ stream'[n + 1] = l
      /\ \A i \in 1..n : stream'[i] = stream[i]
  BY RowsGrow
<1>2. (Straight' <=> Straight) /\ curve \in Nat
  BY PlanStays, PlanFacts DEF Typed, PlaceTyped
<1>3. \A i \in 1..n : stream[i].curve <= curve /\ stream[i].curve \in Nat
  <2>1. stream \in Seq(Marks) /\ Len(plan.steps) \in Nat
    BY PlanFacts DEF Typed, StreamTyped
  <2>2. \A i \in 1..n : stream[i] \in Marks
    BY <2>1, ElementOfSeq
  <2> QED
    BY <2>1, <2>2 DEF Marks, Rows
<1>4. \A c : c # curve => (HasRow(c)' <=> HasRow(c))
  BY <1>1
<1>5. \A i \in 1..(n + 1) : i \in 1..n \/ i = n + 1
  BY <1>1
<1> HIDE DEF n
<1>6. \A i \in 1..Len(stream') : stream'[i].curve <= curve' /\ stream'[i].curve \in Nat
  BY <1>1, <1>2, <1>3, <1>5
<1>7. ASSUME stage' \in NotWalked PROVE ~HasRow(curve)'
  <2>1. l.kind # "row" /\ ~HasRow(curve)
    BY <1>7 DEF Rows, NotWalked
  <2>2. \A c : c = curve => ~HasRow(c)'
    BY <1>1, <2>1
  <2>3. ~\E i \in 1..Len(stream') : stream'[i].curve = curve /\ stream'[i].kind = "row"
    BY <2>2 DEF HasRow
  <2> QED
    BY <2>3 DEF HasRow
<1>8. ASSUME NEW i \in 1..Len(stream'), stream'[i].kind = "row", Straight',
             plan'.floating => \A c \in 1..(stream'[i].curve - 1) : HasRow(c)'
      PROVE  stream'[i].solved
  <2>1. \A c \in 1..(stream'[i].curve - 1) : c # curve
    BY <1>2, <1>6
  <2>2. ASSUME plan.floating, NEW c \in 1..(stream'[i].curve - 1) PROVE HasRow(c)
    <3>1. HasRow(c)'
      BY <1>8, <2>2
    <3> QED
      BY <1>4, <2>1, <3>1
  <2>3. CASE i = n + 1
    BY <1>1, <1>2, <1>8, <2>2, <2>3 DEF Clean
  <2>4. CASE i \in 1..n
    BY <1>1, <1>2, <1>8, <2>2, <2>4 DEF Rows, n
  <2> QED
    BY <1>1, <1>5, <2>3, <2>4
<1> QED
  BY <1>6, <1>7, <1>8 DEF Rows, NotWalked

\* The mark that the next curve is approached is not a row.
LEMMA RowsGoOn ==
    ASSUME Typed, Rows, plan' = plan, curve \in Nat, curve' = curve + 1,
           stream' = stream \/ \E l \in Marks : l.curve = curve + 1 /\ l.kind = "moving" /\ stream' = Append(stream, l)
    PROVE  Rows' /\ \A c : HasRow(c)' <=> HasRow(c)
<1>1. \A c : HasRow(c)' <=> HasRow(c)
  <2>1. CASE stream' = stream
    BY <2>1 DEF HasRow
  <2>2. CASE \E l \in Marks : l.curve = curve + 1 /\ l.kind = "moving" /\ stream' = Append(stream, l)
    BY <2>2, RowsGrow
  <2> QED
    BY <2>1, <2>2
<1>2. HasRow(curve)' <=> \E i \in 1..Len(stream') : stream'[i].curve = curve + 1 /\ stream'[i].kind = "row"
  BY DEF HasRow
<1>3. \A i \in 1..Len(stream) : stream[i] \in Marks /\ stream[i].curve <= curve /\ stream[i].curve \in Nat
  <2>1. stream \in Seq(Marks) /\ Len(plan.steps) \in Nat
    BY PlanFacts DEF Typed, StreamTyped
  <2>2. \A i \in 1..Len(stream) : stream[i] \in Marks
    BY <2>1, ElementOfSeq
  <2> QED
    BY <2>1, <2>2 DEF Marks, Rows
<1>4. ~HasRow(curve + 1)
  BY <1>3 DEF HasRow
<1>5. ~HasRow(curve)'
  <2>1. \A c : c = curve + 1 => ~HasRow(c)'
    BY <1>1, <1>4
  <2>2. ~\E i \in 1..Len(stream') : stream'[i].curve = curve + 1 /\ stream'[i].kind = "row"
    BY <2>1 DEF HasRow
  <2> QED
    BY <1>2, <2>2
<1>6. \A i \in 1..Len(stream') : \/ i \in 1..Len(stream) /\ stream'[i] = stream[i]
                                 \/ stream'[i].kind = "moving" /\ stream'[i].curve = curve + 1
  <2>1. CASE stream' = stream
    BY <2>1
  <2>2. CASE \E l \in Marks : l.curve = curve + 1 /\ l.kind = "moving" /\ stream' = Append(stream, l)
    <3>1. PICK l \in Marks : l.curve = curve + 1 /\ l.kind = "moving" /\ stream' = Append(stream, l)
      BY <2>2
    <3>2. /\ Len(stream) \in Nat /\ Len(stream') = Len(stream) + 1
          /\ stream'[Len(stream) + 1] = l
          /\ \A i \in 1..Len(stream) : stream'[i] = stream[i]
      BY <3>1, RowsGrow
    <3>3. \A i \in 1..Len(stream') : i \in 1..Len(stream) \/ i = Len(stream) + 1
      BY <3>2
    <3> QED
      BY <3>1, <3>2, <3>3
  <2> QED
    BY <2>1, <2>2
<1>7. \A i \in 1..Len(stream') : stream'[i].curve <= curve'
  BY <1>3, <1>6
<1>8. ASSUME NEW i \in 1..Len(stream'), stream'[i].kind = "row", Straight',
             plan'.floating => \A c \in 1..(stream'[i].curve - 1) : HasRow(c)'
      PROVE  stream'[i].solved
  <2>1. i \in 1..Len(stream) /\ stream'[i] = stream[i]
    BY <1>6, <1>8
  <2>2. Straight
    BY <1>8, PlanStays
  <2> QED
    BY <1>1, <1>8, <2>1, <2>2 DEF Rows
<1> QED
  BY <1>1, <1>2, <1>5, <1>7, <1>8 DEF Rows

\* The invariant without the counts.
SolvedInv == TypeInv /\ Ramping /\ Rows

\* A step towards a value of the walk stays on its side of the later ones.
LEMMA BehindSteps ==
    ASSUME Typed, plan' = plan, index' = index, index \in 1..Len(plan.sweep), Behind(index),
           moves = << <<Sweep, walk[index]>> >>, Remaining # 0, applied'[Sweep] = Footing
    PROVE  Behind(index)'
<1>1. /\ \A k \in 1..Len(plan.sweep) : walk[k] \in Int
      /\ Len(plan.sweep) \in Nat /\ walk' = walk /\ turn' = turn
  BY WalkTyped, PlanStays DEF Typed
<1>2. /\ Driven = Sweep /\ Goal = walk[index] /\ applied[Sweep] \in Int /\ Footing \in Int
      /\ \/ applied[Sweep] < Footing /\ Footing <= walk[index]
         \/ applied[Sweep] > Footing /\ Footing >= walk[index]
  <2>1. moves # <<>> /\ moves[1] = <<Sweep, walk[index]>>
    OBVIOUS
  <2> QED
    BY <2>1, Driving
<1>3. \A k \in (index + 1)..Len(plan.sweep) : OneLeg(index, k)' <=> OneLeg(index, k)
  BY <1>1 DEF OneLeg
<1>4. ASSUME NEW k \in (index + 1)..Len(plan.sweep), OneLeg(index, k)
      PROVE  /\ walk[index] < walk[k] => Footing < walk[k]
             /\ walk[index] > walk[k] => Footing > walk[k]
  <2>1. /\ walk[index] < walk[k] => applied[Sweep] < walk[k]
        /\ walk[index] > walk[k] => applied[Sweep] > walk[k]
    BY <1>4 DEF Behind
  <2>2. walk[k] \in Int /\ walk[index] \in Int
    BY <1>1
  <2> QED
    BY <1>2, <2>1, <2>2
<1> QED
  BY <1>1, <1>3, <1>4 DEF Behind

\* Wherever the walk stands when it goes for its next value, it is not there yet, and on
\* the value's side of the later ones: the values before it were left on the way out,
\* and at the turn the walk starts again above the middle.
LEMMA AimsOut ==
    ASSUME Typed, Straight, index \in 1..Len(plan.sweep), NEW v \in Int,
           IF turn # 0 /\ index = turn + 1 THEN v = walk[1]
           ELSE IF index = 1 THEN v = walk[1]
           ELSE \A k \in index..Len(plan.sweep) : OneLeg(index - 1, k) =>
                   /\ walk[index - 1] < walk[k] => v < walk[k]
                   /\ walk[index - 1] > walk[k] => v > walk[k]
    PROVE  /\ index # 1 => v # walk[index]
           /\ \A k \in (index + 1)..Len(plan.sweep) : OneLeg(index, k) =>
                 /\ walk[index] < walk[k] => v < walk[k]
                 /\ walk[index] > walk[k] => v > walk[k]
<1> DEFINE n == Len(plan.sweep)
<1>1. /\ n \in Nat \ {0} /\ turn \in 0..n /\ \A k \in 1..n : walk[k] \in Int
  BY WalkTyped DEF Typed
<1>2. /\ \A i, k \in 1..n : i # k => walk[i] # walk[k]
      /\ \A i, j, k \in 1..n : i <= j /\ j < k /\ OneLeg(i, k) =>
            /\ walk[j] < walk[k] => walk[i] < walk[k]
            /\ walk[j] > walk[k] => walk[i] > walk[k]
      /\ turn # 0 => \A j, k \in 1..n : turn < j /\ j < k => walk[j] > walk[k]
      /\ turn # 0 => \A k \in 1..n : turn < k => walk[1] > walk[k]
  BY StraightWalk DEF Typed
<1> HIDE DEF n
<1>3. CASE turn # 0 /\ index = turn + 1
  <2>1. v = walk[1] /\ index \in 1..n /\ turn < index
    BY <1>1, <1>3 DEF n
  <2>2. v > walk[index]
    BY <1>1, <1>2, <1>3, <2>1
  <2>3. v # walk[index]
    BY <1>1, <2>1, <2>2
  <2>4. ASSUME NEW k \in (index + 1)..n
        PROVE  v > walk[k] /\ ~(walk[index] < walk[k]) /\ walk[index] > walk[k]
    <3>1. k \in 1..n /\ turn < k /\ index < k /\ 1 \in 1..n
      BY <1>1, <2>1, <2>4
    <3>2. v > walk[k] /\ walk[index] > walk[k]
      BY <1>2, <1>3, <2>1, <3>1
    <3>3. walk[index] \in Int /\ walk[k] \in Int
      BY <1>1, <2>1, <3>1
    <3> QED
      BY <3>2, <3>3
  <2> QED
    BY <2>3, <2>4 DEF n
<1>4. CASE ~(turn # 0 /\ index = turn + 1) /\ index = 1
  BY <1>4
<1>5. CASE ~(turn # 0 /\ index = turn + 1) /\ index # 1
  <2>1. index \in 2..n /\ index - 1 \in 1..n /\ turn \in Int
    BY <1>1, <1>5 DEF n
  <2>2. \A k \in index..n : OneLeg(index - 1, k) =>
           /\ walk[index - 1] < walk[k] => v < walk[k]
           /\ walk[index - 1] > walk[k] => v > walk[k]
    BY <1>5 DEF n
  <2>3. OneLeg(index - 1, index)
    BY <1>1, <1>5, <2>1 DEF OneLeg
  <2>4. v # walk[index]
    <3>1. index \in index..n /\ walk[index - 1] # walk[index]
      BY <1>1, <1>2, <2>1
    <3>2. walk[index - 1] \in Int /\ walk[index] \in Int
      BY <1>1, <2>1
    <3>3. walk[index - 1] < walk[index] \/ walk[index - 1] > walk[index]
      BY <3>1, <3>2
    <3>4. v < walk[index] \/ v > walk[index]
      BY <2>2, <2>3, <3>1, <3>3
    <3> QED
      BY <3>2, <3>4
  <2>5. ASSUME NEW k \in (index + 1)..n, OneLeg(index, k)
        PROVE  /\ walk[index] < walk[k] => v < walk[k]
               /\ walk[index] > walk[k] => v > walk[k]
    <3>1. k \in 1..n /\ k \in index..n /\ index - 1 <= index /\ index < k
      BY <1>1, <2>1
    <3>2. OneLeg(index - 1, k)
      BY <2>3, <2>5 DEF OneLeg
    <3>3. /\ walk[index] < walk[k] => walk[index - 1] < walk[k]
          /\ walk[index] > walk[k] => walk[index - 1] > walk[k]
      BY <1>2, <2>1, <3>1, <3>2
    <3> QED
      BY <2>2, <3>1, <3>2, <3>3
  <2> QED
    BY <2>4, <2>5 DEF n
<1> QED
  BY <1>3, <1>4, <1>5

\* Two curves of a straight plan differ in a step voltage.
LEMMA CurvesDiffer ==
    ASSUME plan \in Plans, Straight, NEW c \in 1..Len(plan.steps), NEW d \in 1..Len(plan.steps), c # d
    PROVE  \E i \in 1..Len(plan.steps[c]) :
              i \in 1..Len(plan.steps[d]) /\ plan.steps[c][i][1] = plan.steps[d][i][1]
              /\ plan.steps[c][i][2] # plan.steps[d][i][2]
<1>1. plan.steps[c] # plan.steps[d]
  BY DEF Straight
<1>2. /\ plan.steps[c] \in Seq(Biases \X Int) /\ plan.steps[d] \in Seq(Biases \X Int)
      /\ Len(plan.steps[c]) = Len(plan.steps[d])
      /\ \A i \in 1..Len(plan.steps[c]) : plan.steps[c][i][1] = plan.steps[d][i][1]
  <2>1. /\ Len(plan.steps) \in Nat \ {0} 
        /\ \A e \in 1..Len(plan.steps) : /\ plan.steps[e] \in Seq(Biases \X Int)
                                         /\ Len(plan.steps[e]) = Len(plan.steps[1])
                                         /\ \A i, j \in 1..Len(plan.steps[1]) :
                                               plan.steps[e][i][1] = plan.steps[1][j][1] <=> i = j
    BY PlanFacts
  <2>2. \A e \in 1..Len(plan.steps) : \A i \in 1..Len(plan.steps[1]) : plan.steps[e][i][1] = plan.steps[1][i][1]
    BY <2>1
  <2>3. Len(plan.steps[c]) = Len(plan.steps[1]) /\ Len(plan.steps[d]) = Len(plan.steps[1])
    BY <2>1
  <2> QED
    BY <2>1, <2>2, <2>3
<1>3. PICK i \in 1..Len(plan.steps[c]) : plan.steps[c][i] # plan.steps[d][i]
  BY <1>1, <1>2, SeqEqual
<1>4. plan.steps[c][i] \in Biases \X Int /\ plan.steps[d][i] \in Biases \X Int
  BY <1>2, <1>3, ElementOfSeq
<1>5. \A a, b \in Biases \X Int : a # b /\ a[1] = b[1] => a[2] # b[2]
  OBVIOUS
<1>6. plan.steps[c][i][1] = plan.steps[d][i][1] /\ i \in 1..Len(plan.steps[d])
  BY <1>2
<1>7. plan.steps[c][i][2] # plan.steps[d][i][2]
  BY <1>3, <1>4, <1>5, <1>6
<1> QED
  BY <1>6, <1>7

\* A run starts so.
LEMMA SolvedInit == SweepInit => SolvedInv
<1> SUFFICES ASSUME SweepInit PROVE SolvedInv
  OBVIOUS
<1>1. stage = "start" /\ stream = <<>> /\ curve = 0 /\ Len(stream) = 0
  BY DEF SweepInit
<1> QED
  BY <1>1, SweepTypeInit DEF SolvedInv, Ramping, Rows

\* From the first curve on, curve is a position in plan.steps.
LEMMA CurveRange ==
    ASSUME TypeInv, stage \in {"to_curve", "fallen", "giving_up", "aim", "walk"}
    PROVE  curve \in 1..Len(plan.steps) /\ Len(plan.steps) \in Nat
BY PlanFacts DEF TypeInv, Typed, PlaceTyped, Whereabouts

\* With a floating node a straight plan does not step the voltage it sweeps.
LEMMA StraightIsApart ==
    ASSUME Straight, plan.floating
    PROVE  Apart
BY DEF Straight, Apart

\* A step that holds is a solution of its own point.
LEMMA StepHoldsSolved ==
    ASSUME SolvedInv, StepHolds
    PROVE  Ramping' /\ Rows'
<1>1. /\ plan' = plan /\ Typed /\ moves # <<>> /\ Remaining # 0 /\ stage' = stage
      /\ UNCHANGED <<moves, baseline, curve_start, curve, index, stream>>
      /\ stage \in {"lead_in", "to_curve", "walk"}
      /\ applied' = [applied EXCEPT ![Driven] = Footing]
  BY DEF StepHolds, Ramps, SolvedInv, TypeInv, saved, place
<1>2. nodes' = applied' /\ circuit' = applied' /\ Solved'
  BY <1>1, Stepping DEF StepHolds, Solves, Solved
<1>3. /\ \A b \in Biases : b # Driven => applied'[b] = applied[b]
      /\ applied'[Driven] = Footing
  BY <1>1, Stepping
<1>4. Rows'
  BY <1>1, RowsStay DEF SolvedInv
<1>5. CASE stage = "lead_in"
  BY <1>1, <1>2, <1>4, <1>5 DEF Ramping
<1>6. CASE stage = "to_curve"
  <2>1. curve \in 1..Len(plan.steps)
    BY <1>6, CurveRange DEF SolvedInv
  <2>2. OnRoute'
    BY <1>1, <1>3, <1>6, <2>1, OnRouteSteps DEF SolvedInv, Ramping
  <2> QED
    BY <1>1, <1>2, <1>4, <1>6, <2>2 DEF Ramping
<1>7. CASE stage = "walk"
  <2>1. AtStart(curve_start.applied, curve)'
    BY <1>1, <1>7, PlanStays DEF SolvedInv, Ramping, AtStart
  <2>2. index \in 1..Len(plan.sweep) /\ moves = << <<Sweep, walk[index]>> >>
    BY <1>1, <1>7, PlanFacts DEF SolvedInv, TypeInv, Typed, PlaceTyped, Whereabouts
  <2>3. Driven = Sweep
    BY <1>1, <2>2, Driving
  <2>4. Straight' => Behind(index)'
    <3>1. Straight' => Behind(index)
      BY <1>1, <1>7, PlanStays DEF SolvedInv, Ramping
    <3> QED
      BY <1>1, <1>3, <2>2, <2>3, <3>1, BehindSteps
  <2> QED
    BY <1>1, <1>2, <1>4, <1>7, <2>1, <2>4 DEF Ramping
<1> QED
  BY <1>1, <1>4, <1>5, <1>6, <1>7

\* A step that fails loses the values of the nodes, but the ramp is not at its end.
LEMMA StepFailsSolved ==
    ASSUME SolvedInv, StepFails
    PROVE  Ramping' /\ Rows'
<1>1. /\ plan' = plan /\ Typed /\ moves # <<>> /\ Remaining # 0 /\ stage' = stage
      /\ UNCHANGED <<moves, applied, baseline, curve_start, curve, index, stream>>
      /\ stage \in {"lead_in", "to_curve", "walk"}
  BY DEF StepFails, Ramps, SolvedInv, TypeInv, saved, place
<1>2. Pending'
  BY <1>1, OnTheWay, PendingStays
<1>3. Rows'
  BY <1>1, RowsStay DEF SolvedInv
<1>4. CASE stage = "lead_in"
  BY <1>1, <1>2, <1>3, <1>4 DEF Ramping
<1>5. CASE stage = "to_curve"
  <2>1. OnRoute'
    BY <1>1, <1>5, PlanStays DEF SolvedInv, Ramping, OnRoute, Route
  <2> QED
    BY <1>1, <1>2, <1>3, <1>5, <2>1 DEF Ramping
<1>6. CASE stage = "walk"
  <2>1. AtStart(curve_start.applied, curve)'
    BY <1>1, <1>6, PlanStays DEF SolvedInv, Ramping, AtStart
  <2>2. Straight' => Behind(index)'
    BY <1>1, <1>6, PlanStays DEF SolvedInv, Ramping, Behind, OneLeg
  <2> QED
    BY <1>1, <1>2, <1>3, <1>6, <2>1, <2>2 DEF Ramping
<1> QED
  BY <1>1, <1>4, <1>5, <1>6

\* The steps of the program again: the first solve,
LEMMA BeginSolved ==
    ASSUME SolvedInv, Begin
    PROVE  Ramping' /\ Rows'
<1>1. plan' = plan /\ Typed /\ stage' = "lead_in" /\ UNCHANGED <<curve, stream, applied>>
  BY DEF Begin, SolvedInv, TypeInv, place
<1>2. Solved'
  BY <1>1 DEF Begin, Solves, Solved
<1>3. Rows'
  BY <1>1, RowsStay DEF SolvedInv, NotWalked
<1> QED
  BY <1>1, <1>2, <1>3 DEF Ramping

\* an end of any kind,
LEMMA EndSolved ==
    ASSUME SolvedInv, stage' \in {"broken", "killed", "done"}, plan' = plan, UNCHANGED <<curve, stream>>
    PROVE  Ramping' /\ Rows'
<1>1. Rows'
  BY RowsStay DEF SolvedInv, TypeInv, NotWalked
<1> QED
  BY <1>1 DEF Ramping

\* the next bias of a ramp,
LEMMA NextMoveSolved ==
    ASSUME SolvedInv, NextMove
    PROVE  Ramping' /\ Rows'
<1>1. /\ plan' = plan /\ Typed /\ moves # <<>> /\ Remaining = 0 /\ stage' = stage
      /\ moves' = Tail(moves)
      /\ UNCHANGED <<applied, nodes, circuit, baseline, curve_start, curve, index, stream>>
      /\ stage \in {"lead_in", "to_curve"}
  BY DEF NextMove, Arrived, Towards, SolvedInv, TypeInv, solver, saved, place
<1>2. (Pending => Pending') /\ (Solved => Solved') /\ (nodes = applied => nodes' = applied')
  BY <1>1, PendingPasses DEF Solved
<1>3. Rows'
  BY <1>1, RowsStay DEF SolvedInv
<1>4. CASE stage = "lead_in"
  BY <1>1, <1>2, <1>3, <1>4 DEF SolvedInv, Ramping
<1>5. CASE stage = "to_curve"
  <2>1. curve \in 1..Len(plan.steps)
    BY <1>5, CurveRange DEF SolvedInv
  <2>2. OnRoute'
    BY <1>1, <1>5, <2>1, OnRoutePasses DEF SolvedInv, Ramping
  <2>3. Clean' <=> Clean
    BY <1>1, CleanStays
  <2> QED
    BY <1>1, <1>2, <1>3, <1>5, <2>2, <2>3 DEF SolvedInv, Ramping
<1> QED
  BY <1>1, <1>4, <1>5

\* GoToCurve writes at most the mark of the curve it approaches.
LEMMA MovingMark ==
    ASSUME plan \in Plans, NEW c \in 1..Len(plan.steps)
    PROVE  LET l == Line(c, 0, "moving", TRUE)
           IN  l \in Marks /\ l.curve = c /\ l.kind = "moving"
BY DEF Line, Marks

\* the move to the first curve,
LEMMA FirstCurveSolved ==
    ASSUME SolvedInv, FirstCurve
    PROVE  Ramping' /\ Rows' /\ Solved
<1>1. /\ plan' = plan /\ Typed /\ plan \in Plans /\ stage' = "to_curve" /\ stage = "lead_in" /\ moves = <<>>
      /\ curve' = 1 /\ curve = 0 /\ moves' = Route(1) /\ UNCHANGED <<applied, nodes, circuit>>
      /\ stream' = stream \/ stream' = Append(stream, Line(1, 0, "moving", TRUE))
  BY DEF FirstCurve, GoToCurve, Towards, SolvedInv, TypeInv, Typed, Whereabouts, solver, Route
<1>2. Solved
  BY <1>1, OnTheWay DEF SolvedInv, Ramping
<1>3. Solved' /\ nodes' = applied'
  BY <1>1, <1>2 DEF Solved
<1>4. 1 \in 1..Len(plan.steps)
  BY <1>1, PlanFacts
<1>5. OnRoute'
  BY <1>1, <1>4, OnRouteBegins
<1>6. Rows'
  <2>1. curve \in Nat /\ curve' = curve + 1
    BY <1>1
  <2> DEFINE l == Line(1, 0, "moving", TRUE)
  <2>2. l \in Marks /\ l.curve = 1 /\ l.kind = "moving"
    BY <1>1, <1>4, MovingMark
  <2>3. stream' = stream \/ stream' = Append(stream, l)
    BY <1>1
  <2>4. curve + 1 = 1
    BY <1>1
  <2> HIDE DEF l
  <2> QED
    BY <1>1, <2>1, <2>2, <2>3, <2>4, RowsGoOn DEF SolvedInv
<1> QED
  BY <1>1, <1>2, <1>3, <1>5, <1>6 DEF Ramping

\* a curve that is given up, from its failure to its last point,
LEMMA GivingUpSolved ==
    ASSUME SolvedInv, CurveFails \/ FallBack \/ GiveUpCurve
    PROVE  Ramping' /\ Rows'
<1>1. plan' = plan /\ Typed /\ plan \in Plans /\ curve' = curve
  BY DEF CurveFails, FallBack, GiveUpCurve, SolvedInv, TypeInv, Typed, place
<1>2. CASE CurveFails
  <2>1. Rows'
    BY <1>1, <1>2, RowsStay DEF CurveFails, SolvedInv, NotWalked
  <2> QED
    BY <1>2, <2>1 DEF CurveFails, Ramping
<1>3. CASE FallBack
  <2>1. Rows'
    BY <1>1, <1>3, RowsStay DEF FallBack, SolvedInv, NotWalked
  <2>2. baseline \in SavedStates
    BY <1>3 DEF FallBack, SolvedInv, TypeInv, Whereabouts
  <2>3. nodes' = applied'
    BY <1>1, <1>3, <2>2, BackToTyped DEF FallBack
  <2> QED
    BY <1>3, <2>1, <2>3 DEF FallBack, Ramping
<1>4. CASE GiveUpCurve
  <2>1. index \in 1..Len(plan.sweep) /\ curve \in 1..Len(plan.steps)
    <3>0. index <= Len(plan.sweep) /\ stage = "giving_up"
      BY <1>4 DEF GiveUpCurve
    <3>1. index \in 0..(Len(plan.sweep) + 1) /\ index # 0
      BY <1>1, <3>0 DEF SolvedInv, TypeInv, Typed, PlaceTyped, Whereabouts
    <3>2. Len(plan.sweep) \in Nat
      BY <1>1, PlanFacts
    <3>3. curve \in 1..Len(plan.steps)
      BY <3>0, CurveRange DEF SolvedInv
    <3> QED
      BY <3>0, <3>1, <3>2, <3>3
  <2>2. Line(curve, plan.sweep[index], "failed", TRUE) \in Marks
    <3>1. plan.sweep[index] \in Int
      BY <1>1, <2>1, PlanFacts
    <3> QED
      BY <2>1, <3>1 DEF Line, Marks
  <2>3. Rows'
    <3> DEFINE l == Line(curve, plan.sweep[index], "failed", TRUE)
    <3>1. l.curve = curve /\ l.kind = "failed"
      BY DEF Line
    <3>2. stream' = Append(stream, l) /\ stage \in NotWalked
      BY <1>4 DEF GiveUpCurve, NotWalked
    <3> HIDE DEF l
    <3>3. l \in Marks
      BY <2>2 DEF l
    <3> QED
      BY <1>1, <3>1, <3>2, <3>3, RowsPoint DEF SolvedInv
  <2>4. UNCHANGED <<nodes, applied, stage>> /\ stage = "giving_up"
    BY <1>4 DEF GiveUpCurve, solver
  <2> QED
    BY <2>3, <2>4 DEF Ramping, SolvedInv
<1> QED
  BY <1>2, <1>3, <1>4

\* and the start of the walk, where nothing is pending, so the point is solved.
LEMMA CurveStartsSolved ==
    ASSUME SolvedInv, CurveStarts
    PROVE  Ramping' /\ Rows' /\ nodes = applied
<1>1. /\ plan' = plan /\ Typed /\ plan \in Plans /\ stage' = "aim" /\ stage = "to_curve" /\ moves = <<>>
      /\ curve_start' = Start /\ index' = 1 /\ UNCHANGED <<applied, nodes, circuit, curve, stream>>
  BY DEF CurveStarts, SolvedInv, TypeInv, Typed, solver
<1>2. ~Pending
  BY <1>1, OnTheWay
<1>3. nodes = applied /\ (Clean => Solved) /\ OnRoute
  BY <1>1, <1>2 DEF SolvedInv, Ramping
<1>4. curve \in 1..Len(plan.steps)
  BY <1>1, CurveRange DEF SolvedInv
<1>5. AtStart(applied, curve)
  BY <1>1, <1>3, <1>4, OnRouteEnds
<1>6. AtStart(curve_start.applied, curve)'
  <2>1. curve_start'.applied = applied
    BY <1>1 DEF Start
  <2> QED
    BY <1>1, <1>5, <2>1, PlanStays DEF AtStart
<1>7. (Clean' <=> Clean) /\ (Solved' <=> Solved)
  BY <1>1, CleanStays DEF Solved
<1>8. applied'[Sweep] = walk'[1]
  BY <1>1, <1>5, PlanStays DEF AtStart
<1>9. Rows'
  BY <1>1, RowsStay DEF SolvedInv, NotWalked
<1> QED
  BY <1>1, <1>3, <1>6, <1>7, <1>8, <1>9 DEF Ramping

\* Every value of a curve is gone for from a point that is solved, or is not there yet.
LEMMA AimSolved ==
    ASSUME SolvedInv, Aim
    PROVE  Ramping' /\ Rows'
<1>1. /\ plan' = plan /\ Typed /\ plan \in Plans /\ stage' = "walk" /\ stage = "aim"
      /\ UNCHANGED <<curve_start, curve, index, stream>>
  BY DEF Aim, SolvedInv, TypeInv, Typed, saved, place
<1>2. index \in 1..Len(plan.sweep) /\ moves' = << <<Sweep, walk[index]>> >> /\ curve_start \in SavedStates /\ TypeInv'
  BY AimTyped DEF SolvedInv
<1>3. AtStart(curve_start.applied, curve) /\ AtStart(curve_start.applied, curve)'
  BY <1>1, PlanStays DEF SolvedInv, Ramping, AtStart
<1>4. Rows'
  BY <1>1, RowsStay DEF SolvedInv, NotWalked
<1>5. /\ walk' = walk /\ turn' = turn /\ (Straight' <=> Straight)
      /\ turn \in 0..Len(plan.sweep) /\ Len(plan.sweep) \in Nat \ {0}
  BY <1>1, PlanStays, WalkTyped
<1>6. Clean' <=> Clean
  BY <1>1, CleanStays
<1>7. applied'[Sweep] \in Int
  <2>1. applied' \in Points' /\ Sweep \in Biases
    BY <1>1, <1>2, PlanFacts DEF TypeInv, Typed, SolverTyped
  <2> QED
    BY <1>1, <2>1, PlanStays DEF Points
<1>8. IF turn # 0 /\ index = turn + 1
      THEN nodes' = applied' /\ applied' = curve_start.applied /\ applied'[Sweep] = walk[1]
      ELSE UNCHANGED <<applied, nodes, circuit>>
  BY <1>2, <1>3 DEF Aim, BackTo, solver, SavedStates, AtStart
<1>9. Straight =>
         IF turn # 0 /\ index = turn + 1 THEN applied'[Sweep] = walk[1]
         ELSE IF index = 1 THEN applied'[Sweep] = walk[1]
         ELSE \A k \in index..Len(plan.sweep) : OneLeg(index - 1, k) =>
                 /\ walk[index - 1] < walk[k] => applied'[Sweep] < walk[k]
                 /\ walk[index - 1] > walk[k] => applied'[Sweep] > walk[k]
  <2>1. CASE turn # 0 /\ index = turn + 1
    BY <1>8, <2>1
  <2>2. CASE ~(turn # 0 /\ index = turn + 1) /\ index = 1
    BY <1>1, <1>8, <2>2 DEF SolvedInv, Ramping
  <2>3. CASE ~(turn # 0 /\ index = turn + 1) /\ index # 1
    <3>1. Straight => Behind(index - 1)
      BY <1>1, <2>3 DEF SolvedInv, Ramping
    <3>2. applied' = applied /\ (index - 1) + 1 = index
      BY <1>2, <1>8, <2>3
    <3> QED
      BY <2>3, <3>1, <3>2 DEF Behind
  <2> QED
    BY <2>1, <2>2, <2>3
<1>10. Straight => /\ index # 1 => applied'[Sweep] # walk[index]
                   /\ \A k \in (index + 1)..Len(plan.sweep) : OneLeg(index, k) =>
                         /\ walk[index] < walk[k] => applied'[Sweep] < walk[k]
                         /\ walk[index] > walk[k] => applied'[Sweep] > walk[k]
  BY <1>1, <1>2, <1>7, <1>9, AimsOut
<1>11. Straight' => Behind(index)'
  <2>1. \A k : OneLeg(index, k)' <=> OneLeg(index, k)
    BY <1>1, <1>5 DEF OneLeg
  <2> QED
    BY <1>1, <1>5, <1>10, <2>1 DEF Behind
<1>12. Clean' => Solved' \/ Pending'
  <2> SUFFICES ASSUME Clean PROVE Solved' \/ Pending'
    BY <1>6
  <2>1. Straight
    BY DEF Clean
  <2>2. CASE index = 1
    <3>1. ~(turn # 0 /\ index = turn + 1)
      BY <1>5, <2>2
    <3>2. Solved
      BY <1>1, <2>2 DEF SolvedInv, Ramping
    <3> QED
      BY <1>1, <1>8, <3>1, <3>2 DEF Solved
  <2>3. CASE index # 1
    <3>1. applied'[Sweep] # walk[index]
      BY <1>10, <2>1, <2>3
    <3>2. moves'[1] = <<Sweep, walk[index]>> /\ Len(moves') = 1
      BY <1>2
    <3>3. 1 \in 1..Len(moves') /\ 1..(1 - 1) = {}
      BY <3>2
    <3> QED
      BY <3>1, <3>2, <3>3 DEF Pending
  <2> QED
    BY <2>2, <2>3
<1> QED
  BY <1>1, <1>3, <1>4, <1>11, <1>12 DEF Ramping

\* A row is written where the walk has arrived, so nothing is pending.
LEMMA PointSolved ==
    ASSUME SolvedInv, Record \/ Stuck
    PROVE  Ramping' /\ Rows'
<1>1. /\ plan' = plan /\ Typed /\ plan \in Plans /\ stage' = "aim" /\ stage = "walk" /\ index' = index + 1
      /\ UNCHANGED <<curve_start, curve, applied>>
  BY DEF Record, Stuck, SolvedInv, TypeInv, Typed, saved, solver
<1>2. index \in 1..Len(plan.sweep) /\ curve \in 1..Len(plan.steps) /\ walk[index] \in Int
      /\ moves = << <<Sweep, walk[index]>> >> /\ Len(plan.sweep) \in Nat
  BY <1>1, PointTyped, PlanFacts DEF SolvedInv, TypeInv, Whereabouts
<1>3. AtStart(curve_start.applied, curve)'
  BY <1>1, PlanStays DEF SolvedInv, Ramping, AtStart
<1>4. index' # 1 /\ index' - 1 = index
  BY <1>1, <1>2
<1>5. Straight' => Behind(index - 1)'
  <2>1. /\ walk' = walk /\ turn' = turn /\ (Straight' <=> Straight)
    BY <1>1, PlanStays
  <2>2. Straight => Behind(index)
    BY <1>1 DEF SolvedInv, Ramping
  <2>3. \A k : OneLeg(index - 1, k)' <=> OneLeg(index, k)
    BY <1>1, <1>4, <2>1 DEF OneLeg
  <2> QED
    BY <1>1, <1>4, <2>1, <2>2, <2>3 DEF Behind
<1>6. Rows'
  <2>1. CASE Record
    <3> DEFINE l == Line(curve, walk[index], "row", Solved)
    <3>1. l \in Marks /\ l.curve = curve /\ l.kind = "row" /\ (l.solved <=> Solved)
      <4>1. Solved \in BOOLEAN
        BY DEF Solved
      <4> QED
        BY <1>2, <4>1 DEF Line, Marks
    <3>2. stream' = Append(stream, l)
      BY <2>1 DEF Record
    <3> HIDE DEF l
    <3>3. ~Pending
      <4>1. Len(moves) = 1 /\ moves # <<>> /\ Remaining = 0
        BY <1>2, <2>1 DEF Record, Arrived
      <4>2. applied[moves[1][1]] = moves[1][2]
        BY <1>1, <4>1, Driving
      <4> QED
        BY <4>1, <4>2 DEF Pending
    <3>4. Clean => l.solved
      BY <1>1, <3>1, <3>3 DEF SolvedInv, Ramping
    <3> QED
      BY <1>1, <3>1, <3>2, <3>4, RowsPoint DEF SolvedInv, NotWalked
  <2>2. CASE Stuck
    <3> DEFINE l == Line(curve, walk[index], "failed", TRUE)
    <3>1. l \in Marks /\ l.curve = curve /\ l.kind = "failed"
      BY <1>2 DEF Line, Marks
    <3>2. stream' = Append(stream, l)
      BY <2>2 DEF Stuck
    <3> HIDE DEF l
    <3> QED
      BY <1>1, <3>1, <3>2, RowsPoint DEF SolvedInv, NotWalked
  <2> QED
    BY <2>1, <2>2
<1> QED
  BY <1>1, <1>3, <1>4, <1>5, <1>6 DEF Ramping

\* To the next curve, from the start of the one before, which it differs from; with a
\* floating node only the nodes are known to be those of that start.
LEMMA NextCurveSolved ==
    ASSUME SolvedInv, GoToCurve(baseline, curve_start, curve + 1), stage \in {"aim", "giving_up"}
    PROVE  Ramping' /\ Rows'
<1> DEFINE c == curve + 1
           l == Line(c, 0, "moving", TRUE)
<1>1. /\ plan' = plan /\ Typed /\ plan \in Plans /\ stage' = "to_curve" /\ moves = <<>>
      /\ curve' = c /\ moves' = Route(c)
      /\ IF curve_start = NoStart THEN UNCHANGED solver ELSE BackTo(curve_start)
      /\ stream' = stream \/ stream' = Append(stream, l)
  BY DEF GoToCurve, Towards, SolvedInv, TypeInv, Typed, Whereabouts, Route
<1>2. curve \in 1..Len(plan.steps) /\ c \in 1..Len(plan.steps) /\ Len(plan.steps) \in Nat
  BY CurveRange DEF SolvedInv, GoToCurve
<1>3. l \in Marks /\ l.curve = c /\ l.kind = "moving"
  BY <1>1, <1>2, MovingMark
<1> HIDE DEF l
<1>4. Rows' /\ \A d : HasRow(d)' <=> HasRow(d)
  BY <1>1, <1>2, <1>3, RowsGoOn DEF SolvedInv
<1>5. OnRoute'
  BY <1>1, <1>2, OnRouteBegins
<1>6. curve_start \in SavedStates \/ (curve_start = NoStart /\ stage = "giving_up" /\ nodes = applied)
  BY DEF SolvedInv, TypeInv, Typed, SavedTyped, Whereabouts, Ramping
<1>7. nodes' = applied' /\ (curve_start \in SavedStates => applied' = curve_start.applied)
  <2>1. CASE curve_start \in SavedStates
    <3>1. BackTo(curve_start)
      BY <1>1, <2>1, NoStartIsNotSaved
    <3> QED
      BY <1>1, <2>1, <3>1, BackToTyped DEF BackTo
  <2>2. CASE curve_start = NoStart /\ stage = "giving_up" /\ nodes = applied
    BY <1>1, <2>2, NoStartIsNotSaved DEF solver
  <2> QED
    BY <1>6, <2>1, <2>2
<1>8. Clean' => Solved' \/ Pending'
  <2> SUFFICES ASSUME Clean', plan.floating PROVE Pending'
    BY <1>1, <1>7 DEF Solved
  <2>1. Straight /\ HasRow(curve)
    <3>1. Straight' /\ \A d \in 1..(curve' - 1) : HasRow(d)'
      BY <1>1 DEF Clean
    <3>2. curve \in 1..(curve' - 1)
      BY <1>1, <1>2
    <3>3. \A d : d = curve => (HasRow(d)' => HasRow(d))
      BY <1>4
    <3> QED
      BY <1>1, <3>1, <3>2, <3>3, PlanStays
  <2>2. stage = "aim"
    BY <2>1 DEF SolvedInv, Rows
  <2>3. curve_start \in SavedStates /\ AtStart(curve_start.applied, curve)
    BY <1>6, <2>2 DEF SolvedInv, Ramping
  <2>4. Apart
    BY <2>1, StraightIsApart
  <2>5. PICK i \in 1..Len(plan.steps[c]) :
           i \in 1..Len(plan.steps[curve]) /\ plan.steps[c][i][1] = plan.steps[curve][i][1]
           /\ plan.steps[c][i][2] # plan.steps[curve][i][2]
    BY <1>1, <1>2, <2>1, CurvesDiffer
  <2>6. /\ Len(plan.steps[c]) \in Nat /\ Len(moves') = Len(plan.steps[c]) + 1
        /\ \A j \in 1..Len(plan.steps[c]) : moves'[j] = plan.steps[c][j]
    BY <1>1, <1>2, RouteTyped
  <2>7. \A j, k \in 1..Len(plan.steps[c]) : plan.steps[c][j][1] = plan.steps[c][k][1] => j = k
    BY <1>1, <1>2, StepNames
  <2>8. applied'[plan.steps[curve][i][1]] = plan.steps[curve][i][2]
    BY <1>7, <2>3, <2>4, <2>5 DEF AtStart
  <2>9. i \in 1..Len(moves') /\ applied'[moves'[i][1]] # moves'[i][2]
    <3>1. moves'[i] = plan.steps[c][i] /\ i \in 1..Len(moves')
      BY <2>5, <2>6
    <3>2. applied'[plan.steps[c][i][1]] = plan.steps[curve][i][2]
      BY <2>5, <2>8
    <3> QED
      BY <2>5, <3>1, <3>2
  <2>10. \A j \in 1..(i - 1) : moves'[j][1] # moves'[i][1]
    <3> SUFFICES ASSUME NEW j \in 1..(i - 1) PROVE moves'[j][1] # moves'[i][1]
      OBVIOUS
    <3>1. j \in 1..Len(plan.steps[c]) /\ j # i
      BY <2>5, <2>6
    <3> QED
      BY <2>5, <2>6, <2>7, <3>1
  <2> QED
    BY <2>9, <2>10 DEF Pending
<1> QED
  BY <1>1, <1>4, <1>5, <1>7, <1>8 DEF Ramping

\* Every step keeps what the rows rest on.
LEMMA SolvedStep ==
    ASSUME SolvedInv, [SweepNext]_sweepVars
    PROVE  SolvedInv'
<1>0. TypeInv
  BY DEF SolvedInv
<1>1. ASSUME Begin PROVE SolvedInv'
  BY <1>0, <1>1, BeginTyped, BeginSolved DEF SolvedInv
<1>2. ASSUME BeginFails \/ LeadInFails \/ Kill PROVE SolvedInv'
  <2>1. stage' \in {"broken", "killed", "done"} /\ plan' = plan /\ UNCHANGED <<curve, stream>>
    BY <1>2 DEF BeginFails, LeadInFails, Kill, place
  <2> QED
    BY <1>0, <1>2, <2>1, EndTyped, EndSolved DEF SolvedInv
<1>3. ASSUME StepHolds PROVE SolvedInv'
  BY <1>0, <1>3, StepTyped, StepHoldsSolved DEF SolvedInv
<1>4. ASSUME StepFails PROVE SolvedInv'
  BY <1>0, <1>4, StepTyped, StepFailsSolved DEF SolvedInv
<1>5. ASSUME NextMove PROVE SolvedInv'
  BY <1>0, <1>5, NextMoveTyped, NextMoveSolved DEF SolvedInv
<1>6. ASSUME FirstCurve PROVE SolvedInv'
  BY <1>0, <1>6, FirstCurveTyped, FirstCurveSolved DEF SolvedInv
<1>7. ASSUME CurveFails \/ FallBack \/ GiveUpCurve PROVE SolvedInv'
  BY <1>0, <1>7, GivingUpTyped, GivingUpSolved DEF SolvedInv
<1>8. ASSUME CurveStarts PROVE SolvedInv'
  BY <1>0, <1>8, CurveStartsTyped, CurveStartsSolved DEF SolvedInv
<1>9. ASSUME Aim PROVE SolvedInv'
  BY <1>0, <1>9, AimTyped, AimSolved DEF SolvedInv
<1>10. ASSUME Record \/ Stuck PROVE SolvedInv'
  BY <1>0, <1>10, PointTyped, PointSolved DEF SolvedInv
<1>11. ASSUME NextCurve PROVE SolvedInv'
  <2>1. CASE GoToCurve(baseline, curve_start, curve + 1)
    <3>1. stage \in {"aim", "giving_up"}
      BY <1>11 DEF NextCurve, CurveOver
    <3> QED
      BY <1>0, <1>11, <2>1, <3>1, NextCurveTyped, NextCurveSolved DEF SolvedInv
  <2>2. CASE EndRun(baseline, curve_start, curve + 1)
    <3>1. stage' \in {"broken", "killed", "done"} /\ plan' = plan /\ UNCHANGED <<curve, stream>>
      BY <2>2 DEF EndRun, place
    <3> QED
      BY <1>0, <1>11, <3>1, NextCurveTyped, EndSolved DEF SolvedInv
  <2> QED
    BY <1>11, <2>1, <2>2 DEF NextCurve
<1>12. ASSUME UNCHANGED sweepVars PROVE SolvedInv'
  <2>1. /\ plan' = plan /\ Typed
        /\ UNCHANGED <<stage, moves, applied, nodes, circuit, curve_start, curve, index, stream>>
    BY <1>0, <1>12 DEF sweepVars, TypeInv, solver, saved, place
  <2>2. Rows'
    BY <2>1, RowsStay DEF SolvedInv
  <2>3. /\ Pending' <=> Pending
        /\ Solved' <=> Solved
        /\ Clean' <=> Clean
        /\ OnRoute' <=> OnRoute
        /\ AtStart(curve_start.applied, curve)' <=> AtStart(curve_start.applied, curve)
        /\ Behind(index)' <=> Behind(index)
        /\ Behind(index - 1)' <=> Behind(index - 1)
        /\ Straight' <=> Straight
        /\ walk' = walk
    <3>1. (Pending' <=> Pending) /\ (Solved' <=> Solved)
      BY <2>1, PendingStays DEF Solved
    <3>2. Clean' <=> Clean
      BY <2>1, CleanStays
    <3>3. OnRoute' <=> OnRoute
      <4>1. Route(curve)' = Route(curve) /\ (Apart' <=> Apart)
        BY <2>1, PlanStays DEF Route
      <4> QED
        BY <2>1, <4>1 DEF OnRoute
    <3>4. AtStart(curve_start.applied, curve)' <=> AtStart(curve_start.applied, curve)
      BY <2>1, PlanStays DEF AtStart
    <3>5. (Behind(index)' <=> Behind(index)) /\ (Behind(index - 1)' <=> Behind(index - 1))
      BY <2>1, PlanStays DEF Behind, OneLeg
    <3> QED
      BY <2>1, <3>1, <3>2, <3>3, <3>4, <3>5, PlanStays
  <2>4. Ramping'
    BY <2>1, <2>3 DEF SolvedInv, Ramping
  <2> QED
    BY <1>0, <1>12, <2>2, <2>4, StutterTyped DEF SolvedInv
<1> QED
  BY <1>1, <1>2, <1>3, <1>4, <1>5, <1>6, <1>7, <1>8, <1>9, <1>10, <1>11, <1>12 DEF SweepNext, Work

\* RowsAreSolved.
LEMMA RowsMeanSolved == SolvedInv => RowsAreSolved
<1> SUFFICES ASSUME SolvedInv, NEW i \in 1..Len(stream), stream[i].kind = "row", Straight,
                    plan.floating => \A c \in 1..(stream[i].curve - 1) : ~GivenUp(c)
             PROVE  stream[i].solved
  BY DEF RowsAreSolved
<1>1. stream[i] \in Marks /\ stream[i].curve <= curve /\ curve \in Nat /\ Len(plan.steps) \in Nat
  BY PlanFacts, ElementOfSeq DEF SolvedInv, TypeInv, Typed, StreamTyped, PlaceTyped, Rows
<1>2. stream[i].curve \in Nat
  BY <1>1 DEF Marks
<1>3. \A c \in 1..(stream[i].curve - 1) : curve > c /\ (~GivenUp(c) => HasRow(c))
  BY <1>1, <1>2 DEF GivenUp, HasRow
<1> QED
  BY <1>3 DEF SolvedInv, Rows

(* ----------------------------------------- the bias sweep: the counts --- *)

\* An entry more is counted when it is one of those that count.
LEMMA TimesGrow ==
    ASSUME NEW S, NEW s \in Seq(S), NEW e \in S, NEW K
    PROVE  /\ Times(s, K) \in Nat
           /\ Times(Append(s, e), K) = IF e \in K THEN Times(s, K) + 1 ELSE Times(s, K)
<1> DEFINE n == Len(s)
           t == Append(s, e)
           I == {i \in 1..n : s[i] \in K}
           J == {i \in 1..Len(t) : t[i] \in K}
<1>1. /\ n \in Nat /\ Len(t) = n + 1 /\ t[n + 1] = e
      /\ \A i \in 1..n : t[i] = s[i]
  BY AppendProperties, LenProperties
<1>2. IsFiniteSet(I) /\ Cardinality(I) \in Nat
  <2>1. IsFiniteSet(1..n) /\ I \subseteq 1..n
    BY <1>1, FS_Interval
  <2> QED
    BY <2>1, FS_Subset, FS_CardinalityType
<1>3. n + 1 \notin I
  BY <1>1
<1>4. J = IF e \in K THEN I \cup {n + 1} ELSE I
  <2>1. 1..Len(t) = (1..n) \cup {n + 1}
    BY <1>1
  <2> QED
    BY <1>1, <2>1
<1> HIDE DEF I, J
<1>5. Cardinality(J) = IF e \in K THEN Cardinality(I) + 1 ELSE Cardinality(I)
  BY <1>2, <1>3, <1>4, FS_AddElement
<1> QED
  BY <1>2, <1>5 DEF Times, I, J

\* Each value of the sweep is walked, and only once when the sweep is straight.
LEMMA WaysCover ==
    ASSUME plan \in Plans
    PROVE  LET n == Len(plan.sweep)
           IN  /\ \A v \in Values(plan.sweep) : \E m \in 1..n : walk[m] = v
               /\ \A v \in Values(plan.sweep) : \E m \in 1..n : plan.sweep[m] = v
               /\ \A m \in 1..n : walk[m] \in Values(plan.sweep) /\ plan.sweep[m] \in Values(plan.sweep)
               /\ Straight => \A m, k \in 1..n : m # k => walk[m] # walk[k] /\ plan.sweep[m] # plan.sweep[k]
<1> DEFINE n == Len(plan.sweep)
           s == plan.sweep
<1>1. \E pos \in [1..n -> 1..n] :
         /\ \A m \in 1..n : walk[m] = s[pos[m]]
         /\ \A i \in 1..n : \E m \in 1..n : pos[m] = i
  BY WalkVisits
<1>2. PICK pos \in [1..n -> 1..n] :
         /\ \A m \in 1..n : walk[m] = s[pos[m]]
         /\ \A i \in 1..n : \E m \in 1..n : pos[m] = i
  BY <1>1
<1>3. Values(s) = {s[i] : i \in 1..n}
  BY DEF Values
<1>4. Straight => \A m, k \in 1..n : m # k => walk[m] # walk[k]
  BY StraightWalk
<1> HIDE DEF n, s
<1>5. \A v \in Values(s) : \E m \in 1..n : walk[m] = v
  <2> SUFFICES ASSUME NEW i \in 1..n PROVE \E m \in 1..n : walk[m] = s[i]
    BY <1>3
  <2>1. PICK m \in 1..n : pos[m] = i
    BY <1>2
  <2> QED
    BY <1>2, <2>1
<1>6. \A m \in 1..n : walk[m] \in Values(s) /\ s[m] \in Values(s)
  BY <1>2, <1>3
<1>7. Straight => \A m, k \in 1..n : m # k => s[m] # s[k]
  <2> SUFFICES ASSUME Straight, NEW m \in 1..n, NEW k \in 1..n, m # k PROVE s[m] # s[k]
    OBVIOUS
  <2>1. PICK x \in 1..n : pos[x] = m
    BY <1>2
  <2>2. PICK y \in 1..n : pos[y] = k
    BY <1>2
  <2>3. walk[x] = s[m] /\ walk[y] = s[k] /\ x # y
    BY <1>2, <2>1, <2>2
  <2> QED
    BY <1>4, <2>3
<1> QED
  BY <1>3, <1>4, <1>5, <1>6, <1>7 DEF n, s

\* The progress counts the points.
LEMMA DoneCounts ==
    ASSUME Typed
    PROVE  /\ done = Times(stream, PointMarks)
           /\ \A c, v : Cardinality({i \in 1..Len(stream) :
                   stream[i].kind # "moving" /\ stream[i].curve = c /\ stream[i].value = v}) = Times(stream, PointsAt(c, v))
<1>1. \A i \in 1..Len(stream) : stream[i] \in Marks
  BY ElementOfSeq DEF Typed, StreamTyped
<1>2. {i \in 1..Len(stream) : stream[i].kind # "moving"} = {i \in 1..Len(stream) : stream[i] \in PointMarks}
  BY <1>1 DEF PointMarks
<1>3. ASSUME NEW c, NEW v
      PROVE  {i \in 1..Len(stream) : stream[i].kind # "moving" /\ stream[i].curve = c /\ stream[i].value = v}
               = {i \in 1..Len(stream) : stream[i] \in PointsAt(c, v)}
  BY <1>1 DEF PointMarks, PointsAt
<1>4. done = Times(stream, PointMarks)
  BY <1>2 DEF done, Times
<1>5. ASSUME NEW c, NEW v
      PROVE  Cardinality({i \in 1..Len(stream) : stream[i].kind # "moving" /\ stream[i].curve = c /\ stream[i].value = v})
               = Times(stream, PointsAt(c, v))
  BY <1>3 DEF Times
<1> QED
  BY <1>4, <1>5

\* No more points are gone than the plan has.
LEMMA GoneInRange ==
    ASSUME Typed
    PROVE  /\ Gone \in Nat /\ Gone <= total /\ total \in Nat
           /\ curve = Len(plan.steps) /\ index = Len(plan.sweep) + 1 => Gone = total
<1> DEFINE n == Len(plan.sweep)
           L == Len(plan.steps)
           g == IF index = 0 THEN 0 ELSE index - 1
<1>1. n \in Nat \ {0} /\ L \in Nat \ {0} /\ curve \in 0..L /\ index \in 0..(n + 1)
  BY PlanFacts DEF Typed, PlaceTyped
<1>2. total = n * L
  BY DEF total
<1>3. Gone = IF curve = 0 THEN 0 ELSE (curve - 1) * n + g
  BY DEF Gone
<1>4. g \in 0..n
  BY <1>1
<1>5. index = n + 1 => g = n
  BY <1>1
<1> HIDE DEF n, L, g
<1>6. CASE curve = 0
  <2>1. n * L \in Nat /\ 0 <= n * L
    BY <1>1
  <2> QED
    BY <1>1, <1>2, <1>3, <1>6, <2>1 DEF L
<1>7. CASE curve # 0
  <2>1. PICK a \in Nat : a = curve - 1
    BY <1>1, <1>7
  <2>2. PICK b \in Nat : L = a + 1 + b
    BY <1>1, <1>7, <2>1
  <2>3. /\ a * n \in Nat /\ b * n \in Nat
        /\ n * L = a * n + n + b * n
    BY <1>1, <2>1, <2>2
  <2>4. Gone = a * n + g
    BY <1>3, <1>7, <2>1
  <2>5. curve = L => b = 0 /\ b * n = 0
    BY <1>1, <2>1, <2>2
  <2> DEFINE x == a * n
             y == b * n
  <2>6. x \in Nat /\ y \in Nat /\ total = x + n + y /\ Gone = x + g /\ (curve = L => y = 0)
    BY <1>2, <2>3, <2>4, <2>5
  <2> HIDE DEF x, y
  <2>7. Gone \in Nat /\ Gone <= total /\ total \in Nat /\ (curve = L /\ g = n => Gone = total)
    BY <1>1, <1>4, <2>6
  <2> QED
    BY <1>5, <2>7 DEF n, L
<1> QED
  BY <1>6, <1>7

\* The inductive invariant.
SweepInv == SolvedInv /\ CountInv

\* What is counted does not change while the plan does not.
LEMMA PointsAtStay ==
    ASSUME plan' = plan
    PROVE  /\ PointMarks' = PointMarks /\ \A c, v : PointsAt(c, v)' = PointsAt(c, v)
           /\ walk' = walk /\ total' = total /\ (Straight' <=> Straight)
BY PlanStays DEF PointsAt

\* What is counted is what is gone, so the progress is never beyond the total.
LEMMA CountedInRange ==
    ASSUME Typed, CountInv
    PROVE  done <= total
BY DoneCounts, GoneInRange DEF CountInv, EveryPointOnce

\* Nothing is written and the place stays the same, or is the start of the curve.
LEMMA CountStays ==
    ASSUME Typed, CountInv, stage \notin Ended, stage' \notin Ended, UNCHANGED <<plan, curve, stream>>,
           \/ index' = index /\ Way' = Way
           \/ index = 0 /\ index' = 1
    PROVE  CountInv'
<1>1. /\ PointMarks' = PointMarks /\ \A c, v : PointsAt(c, v)' = PointsAt(c, v)
      /\ (Straight' <=> Straight)
  BY PointsAtStay
<1>2. Gone' = Gone
  BY DEF Gone
<1>3. \A c, v : Dealt(c, v)' <=> Dealt(c, v)
  <2>1. CASE index' = index /\ Way' = Way
    BY <2>1 DEF Dealt
  <2>2. CASE index = 0 /\ index' = 1
    <3>1. 1..(index - 1) = {} /\ 1..(index' - 1) = {}
      BY <2>2
    <3> QED
      BY <3>1 DEF Dealt
  <2> QED
    BY <2>1, <2>2
<1>4. /\ Times(stream, PointMarks)' = Times(stream, PointMarks)
      /\ \A c, v : Times(stream, PointsAt(c, v))' = Times(stream, PointsAt(c, v))
  BY <1>1 DEF Times
<1> QED
  BY <1>1, <1>2, <1>3, <1>4 DEF CountInv

\* A run that ends before its last curve is not judged by its file.
LEMMA CountEnds ==
    ASSUME Typed, CountInv, stage' \in {"broken", "killed"}, UNCHANGED <<plan, stream>>
    PROVE  CountInv'
<1>1. done' = done /\ total' = total
  BY PointsAtStay DEF done
<1>2. done <= total
  BY CountedInRange
<1>3. EveryPointOnce'
  BY <1>1, <1>2 DEF EveryPointOnce
<1> QED
  BY <1>3 DEF CountInv, Ended

\* A point is written, the next one in order.
LEMMA CountPoint ==
    ASSUME Typed, CountInv, stage \notin Ended, stage' \notin Ended, UNCHANGED <<plan, curve>>,
           index \in 1..Len(plan.sweep), curve \in 1..Len(plan.steps),
           index' = index + 1, Way' = Way, Way \in {plan.sweep, walk},
           NEW l \in Marks, l.kind # "moving", l.curve = curve, l.value = Way[index],
           stream' = Append(stream, l)
    PROVE  CountInv'
<1>1. /\ PointMarks' = PointMarks /\ \A c, v : PointsAt(c, v)' = PointsAt(c, v)
      /\ (Straight' <=> Straight)
  BY PointsAtStay
<1>2. stream \in Seq(Marks) /\ Len(plan.sweep) \in Nat /\ Len(plan.steps) \in Nat
  BY PlanFacts DEF Typed, StreamTyped
<1>3. Gone' = Gone + 1
  <2> DEFINE x == (curve - 1) * Len(plan.sweep)
  <2>1. x \in Int
    BY <1>2
  <2>2. curve # 0 /\ index # 0 /\ index \in Int /\ index' # 0
    BY <1>2
  <2>3. Gone = x + (IF index = 0 THEN 0 ELSE index - 1) /\ Gone' = x + (IF index' = 0 THEN 0 ELSE index' - 1)
    BY <2>2 DEF Gone
  <2> HIDE DEF x
  <2> QED
    BY <2>1, <2>2, <2>3
<1>4. Times(stream, PointMarks)' = Times(stream, PointMarks) + 1
  <2>1. l \in PointMarks
    BY DEF PointMarks
  <2>2. Times(stream, PointMarks)' = Times(stream', PointMarks)
    BY <1>1 DEF Times
  <2> QED
    BY <1>2, <2>1, <2>2, TimesGrow
<1>5. ASSUME Straight, NEW c \in 1..Len(plan.steps), NEW v \in Values(plan.sweep)
      PROVE  Times(stream, PointsAt(c, v))' = IF Dealt(c, v)' THEN 1 ELSE 0
  <2>1. Times(stream, PointsAt(c, v))' = Times(stream', PointsAt(c, v))
    BY <1>1 DEF Times
  <2>2. Times(stream, PointsAt(c, v)) = IF Dealt(c, v) THEN 1 ELSE 0
    BY <1>5 DEF CountInv
  <2>3. Times(stream', PointsAt(c, v)) = IF l \in PointsAt(c, v) THEN Times(stream, PointsAt(c, v)) + 1
                                                                  ELSE Times(stream, PointsAt(c, v))
    BY <1>2, TimesGrow
  <2>4. l \in PointsAt(c, v) <=> c = curve /\ v = Way[index]
    BY DEF PointsAt, PointMarks
  <2>5. Dealt(c, v)' <=> c < curve \/ (c = curve /\ \E m \in 1..index : Way[m] = v)
    <3>1. index' - 1 = index
      BY <1>2
    <3> QED
      BY <3>1 DEF Dealt
  <2>6. (\E m \in 1..index : Way[m] = v) <=> (\E m \in 1..(index - 1) : Way[m] = v) \/ Way[index] = v
    <3>1. 1..index = 1..(index - 1) \cup {index}
      BY <1>2
    <3> QED
      BY <3>1
  <2>7. c = curve /\ v = Way[index] => ~Dealt(c, v)
    <3> SUFFICES ASSUME c = curve, NEW m \in 1..(index - 1) PROVE Way[m] # Way[index]
      BY <1>2 DEF Dealt
    <3>1. m \in 1..Len(plan.sweep) /\ m # index
      BY <1>2
    <3> QED
      BY <1>5, <3>1, WaysCover DEF Typed
  <2>8. Dealt(c, v) <=> c < curve \/ (c = curve /\ \E m \in 1..(index - 1) : Way[m] = v)
    BY DEF Dealt
  <2>9. CASE c = curve /\ v = Way[index]
    BY <2>1, <2>2, <2>3, <2>4, <2>5, <2>6, <2>7, <2>9
  <2>10. CASE ~(c = curve /\ v = Way[index])
    <3>1. Dealt(c, v)' <=> Dealt(c, v)
      BY <2>5, <2>6, <2>8, <2>10
    <3> QED
      BY <2>1, <2>2, <2>3, <2>4, <2>10, <3>1
  <2> QED
    BY <2>9, <2>10
<1> QED
  BY <1>1, <1>3, <1>4, <1>5 DEF CountInv

\* After its last point every value of a curve is dealt with.
LEMMA CurveIsOver ==
    ASSUME TypeInv, CountInv, CurveOver
    PROVE  /\ curve \in 1..Len(plan.steps) /\ Len(plan.steps) \in Nat /\ Len(plan.sweep) \in Nat
           /\ index = Len(plan.sweep) + 1
           /\ Gone = curve * Len(plan.sweep) /\ Times(stream, PointMarks) = Gone
           /\ Straight => \A c \in 1..Len(plan.steps), v \in Values(plan.sweep) :
                 Times(stream, PointsAt(c, v)) = IF c <= curve THEN 1 ELSE 0
<1>1. Typed /\ plan \in Plans /\ stage \in {"aim", "giving_up"} /\ stage \notin Ended
  BY DEF TypeInv, Typed, CurveOver, Ended
<1>2. curve \in 1..Len(plan.steps) /\ Len(plan.steps) \in Nat
  BY <1>1, CurveRange
<1>3. Len(plan.sweep) \in Nat \ {0} /\ Len(walk) = Len(plan.sweep) /\ index \in 0..(Len(plan.sweep) + 1)
  BY <1>1, WalkTyped DEF Typed, PlaceTyped
<1>4. index = Len(plan.sweep) + 1 /\ index - 1 = Len(plan.sweep)
  <2>1. index > Len(plan.sweep)
    BY <1>3 DEF CurveOver
  <2> QED
    BY <1>3, <2>1
<1>5. Gone = curve * Len(plan.sweep)
  <2> DEFINE n == Len(plan.sweep)
  <2>1. Gone = (curve - 1) * n + (IF index = 0 THEN 0 ELSE index - 1)
    <3>1. curve # 0
      BY <1>2
    <3> QED
      BY <3>1 DEF Gone
  <2>2. index # 0 /\ index - 1 = n /\ n \in Nat
    BY <1>3, <1>4
  <2>3. Gone = (curve - 1) * n + n
    BY <2>1, <2>2
  <2> HIDE DEF n
  <2>4. curve \in Int
    BY <1>2
  <2>5. \A a, b \in Int : (a - 1) * b + b = a * b
    OBVIOUS
  <2>6. Gone = curve * n
    BY <2>2, <2>3, <2>4, <2>5
  <2> QED
    BY <2>6 DEF n
<1>6. ASSUME Straight, NEW c \in 1..Len(plan.steps), NEW v \in Values(plan.sweep)
      PROVE  Times(stream, PointsAt(c, v)) = IF c <= curve THEN 1 ELSE 0
  <2>1. Times(stream, PointsAt(c, v)) = IF Dealt(c, v) THEN 1 ELSE 0
    BY <1>1, <1>6 DEF CountInv
  <2>2. \E m \in 1..(index - 1) : Way[m] = v
    BY <1>1, <1>4, WaysCover DEF Way
  <2>3. Dealt(c, v) <=> c <= curve
    BY <1>2, <2>2 DEF Dealt
  <2> QED
    BY <2>1, <2>3
<1> QED
  BY <1>1, <1>2, <1>3, <1>4, <1>5, <1>6 DEF CountInv

\* The next curve is approached, of which nothing is gone.
LEMMA CountGoesOn ==
    ASSUME Typed, UNCHANGED plan, curve \in Nat, curve' = curve + 1, index' = 0,
           stage' \notin Ended,
           stream' = stream \/ \E l \in Marks : l.kind = "moving" /\ stream' = Append(stream, l),
           Times(stream, PointMarks) = curve * Len(plan.sweep),
           Straight => \A c \in 1..Len(plan.steps), v \in Values(plan.sweep) :
              Times(stream, PointsAt(c, v)) = IF c <= curve THEN 1 ELSE 0
    PROVE  CountInv'
<1>1. /\ PointMarks' = PointMarks /\ \A c, v : PointsAt(c, v)' = PointsAt(c, v)
      /\ (Straight' <=> Straight)
  BY PointsAtStay
<1>2. stream \in Seq(Marks) /\ Len(plan.sweep) \in Nat /\ Len(plan.steps) \in Nat
  BY PlanFacts DEF Typed, StreamTyped
<1>3. Gone' = curve * Len(plan.sweep)
  <2>1. Gone' = ((curve + 1) - 1) * Len(plan.sweep) + 0
    BY DEF Gone
  <2>2. (curve + 1) - 1 = curve /\ curve * Len(plan.sweep) \in Int
    BY <1>2
  <2> QED
    BY <2>1, <2>2
<1>4. ASSUME NEW K, \A l \in Marks : l.kind = "moving" => l \notin K
      PROVE  Times(stream', K) = Times(stream, K)
  <2>1. CASE stream' = stream
    BY <2>1
  <2>2. CASE \E l \in Marks : l.kind = "moving" /\ stream' = Append(stream, l)
    BY <1>2, <1>4, <2>2, TimesGrow
  <2> QED
    BY <2>1, <2>2
<1>5. Times(stream, PointMarks)' = Times(stream, PointMarks)
  <2>1. Times(stream', PointMarks) = Times(stream, PointMarks)
    BY <1>4 DEF PointMarks
  <2> QED
    BY <1>1, <2>1 DEF Times
<1>6. ASSUME Straight, NEW c \in 1..Len(plan.steps), NEW v \in Values(plan.sweep)
      PROVE  Times(stream, PointsAt(c, v))' = IF Dealt(c, v)' THEN 1 ELSE 0
  <2>1. Times(stream', PointsAt(c, v)) = Times(stream, PointsAt(c, v))
    BY <1>4 DEF PointsAt, PointMarks
  <2>2. Times(stream, PointsAt(c, v))' = Times(stream', PointsAt(c, v))
    BY <1>1 DEF Times
  <2>3. 1..(index' - 1) = {}
    OBVIOUS
  <2>4. Dealt(c, v)' <=> c <= curve
    BY <1>2, <2>3 DEF Dealt
  <2> QED
    BY <1>6, <2>1, <2>2, <2>4
<1> QED
  BY <1>1, <1>3, <1>5, <1>6 DEF CountInv

\* Before the first curve nothing is counted.
LEMMA CountInit == SweepInit => CountInv
<1> SUFFICES ASSUME SweepInit PROVE CountInv
  OBVIOUS
<1>1. stage = "start" /\ curve = 0 /\ index = 0 /\ Len(stream) = 0 /\ 1..0 = {}
  BY DEF SweepInit
<1>2. \A K : Times(stream, K) = 0
  BY <1>1, FS_EmptySet DEF Times
<1>3. \A c \in 1..Len(plan.steps) : ~(c < curve) /\ c # curve
  BY <1>1
<1> QED
  BY <1>1, <1>2, <1>3 DEF CountInv, Gone, Dealt, Ended

\* Steps that write nothing and stay where they are.
LEMMA CountQuiet ==
    ASSUME SolvedInv, CountInv,
           \/ Begin \/ StepHolds \/ StepFails \/ NextMove \/ CurveFails \/ FallBack \/ CurveStarts \/ Aim
    PROVE  CountInv'
<1>1. Typed /\ UNCHANGED <<plan, curve, stream>>
  BY DEF Begin, StepHolds, StepFails, NextMove, CurveFails, FallBack, CurveStarts, Aim,
         SolvedInv, TypeInv, place
<1>2. walk' = walk
  BY <1>1, PlanStays
<1>3. stage \notin Ended /\ stage' \notin Ended
  BY DEF Begin, StepHolds, StepFails, NextMove, CurveFails, FallBack, CurveStarts, Aim, Ramps, Ended
<1>4. CASE Begin \/ StepHolds \/ StepFails \/ NextMove \/ CurveFails \/ Aim
  <2>1. index' = index /\ stage # "giving_up" /\ stage' # "giving_up"
    BY <1>4 DEF Begin, StepHolds, StepFails, NextMove, CurveFails, Aim, Ramps, place
  <2>2. Way' = Way
    BY <1>2, <2>1 DEF Way
  <2> QED
    BY <1>1, <1>3, <2>1, <2>2, CountStays
<1>5. CASE FallBack \/ CurveStarts
  <2>1. index = 0 /\ index' = 1
    BY <1>5 DEF FallBack, CurveStarts, SolvedInv, TypeInv, Whereabouts
  <2> QED
    BY <1>1, <1>3, <2>1, CountStays
<1> QED
  BY <1>4, <1>5

\* A row, a skipped point and a point of a curve given up are each one point more.
LEMMA CountWrites ==
    ASSUME SolvedInv, CountInv, Record \/ Stuck \/ GiveUpCurve
    PROVE  CountInv'
<1>1. /\ Typed /\ plan \in Plans /\ UNCHANGED <<plan, curve>> /\ index' = index + 1
      /\ stage \in {"walk", "giving_up"} /\ stage' \in {"aim", "giving_up"}
      /\ stage = "giving_up" <=> stage' = "giving_up"
  BY DEF Record, Stuck, GiveUpCurve, SolvedInv, TypeInv, Typed
<1>2. curve \in 1..Len(plan.steps)
  BY <1>1, CurveRange DEF SolvedInv
<1>3. index \in 1..Len(plan.sweep)
  <2>1. index \in 0..(Len(plan.sweep) + 1) /\ index # 0 /\ index <= Len(plan.sweep)
    BY <1>1 DEF Record, Stuck, GiveUpCurve, SolvedInv, TypeInv, Typed, PlaceTyped, Whereabouts
  <2>2. Len(plan.sweep) \in Nat
    BY <1>1, PlanFacts
  <2> QED
    BY <2>1, <2>2
<1>4. Way' = Way /\ Way \in {plan.sweep, walk} /\ stage \notin Ended /\ stage' \notin Ended
  BY <1>1, PlanStays DEF Way, Ended
<1>5. Way[index] \in Int
  BY <1>1, <1>3, <1>4, PlanFacts, WalkTyped
<1>6. \E l \in Marks : l.kind # "moving" /\ l.curve = curve /\ l.value = Way[index] /\ stream' = Append(stream, l)
  <2>1. CASE Record
    <3>1. stage = "walk" /\ stream' = Append(stream, Line(curve, Way[index], "row", Solved))
      BY <2>1 DEF Record, Way
    <3>2. Solved \in BOOLEAN
      BY DEF Solved
    <3>3. Line(curve, Way[index], "row", Solved) \in Marks
      BY <1>2, <1>5, <3>2 DEF Line, Marks
    <3> QED
      BY <3>1, <3>3 DEF Line
  <2>2. CASE Stuck \/ GiveUpCurve
    <3>1. stream' = Append(stream, Line(curve, Way[index], "failed", TRUE))
      BY <2>2 DEF Stuck, GiveUpCurve, Way
    <3>2. Line(curve, Way[index], "failed", TRUE) \in Marks
      BY <1>2, <1>5 DEF Line, Marks
    <3> QED
      BY <3>1, <3>2 DEF Line
  <2> QED
    BY <2>1, <2>2
<1> QED
  BY <1>1, <1>2, <1>3, <1>4, <1>6, CountPoint

\* The first curve starts with none of its points gone.
LEMMA CountFirstCurve ==
    ASSUME SolvedInv, CountInv, FirstCurve
    PROVE  CountInv'
<1>1. /\ Typed /\ plan \in Plans /\ UNCHANGED plan /\ curve = 0 /\ curve' = 1 /\ index' = 0
      /\ stage \notin Ended /\ stage' \notin Ended
      /\ stream' = stream \/ stream' = Append(stream, Line(1, 0, "moving", TRUE))
  BY DEF FirstCurve, GoToCurve, SolvedInv, TypeInv, Typed, Whereabouts, Ended
<1>2. 1 \in 1..Len(plan.steps) /\ Len(plan.sweep) \in Nat /\ Len(plan.steps) \in Nat
  BY <1>1, PlanFacts
<1>3. stream' = stream \/ \E l \in Marks : l.kind = "moving" /\ stream' = Append(stream, l)
  BY <1>1, <1>2, MovingMark
<1>4. Times(stream, PointMarks) = curve * Len(plan.sweep)
  <2>1. Times(stream, PointMarks) = 0
    BY <1>1 DEF CountInv, Gone
  <2> QED
    BY <1>1, <1>2, <2>1
<1>5. ASSUME Straight, NEW c \in 1..Len(plan.steps), NEW v \in Values(plan.sweep)
      PROVE  Times(stream, PointsAt(c, v)) = IF c <= curve THEN 1 ELSE 0
  <2>1. ~Dealt(c, v) /\ ~(c <= curve)
    BY <1>1, <1>2 DEF Dealt
  <2> QED
    BY <1>1, <1>5, <2>1 DEF CountInv
<1>6. curve \in Nat /\ curve' = curve + 1
  BY <1>1
<1> QED
  BY <1>1, <1>3, <1>4, <1>5, <1>6, CountGoesOn

\* After the last point of a curve all of its points are gone, and after the last curve
\* all of the plan: the run that ends then has every point once.
LEMMA CountNextCurve ==
    ASSUME SolvedInv, CountInv, NextCurve
    PROVE  CountInv'
<1>1. /\ Typed /\ plan \in Plans /\ CurveOver
  BY DEF NextCurve, SolvedInv, TypeInv, Typed
<1>2. /\ curve \in 1..Len(plan.steps) /\ Len(plan.steps) \in Nat /\ Len(plan.sweep) \in Nat
      /\ index = Len(plan.sweep) + 1
      /\ Gone = curve * Len(plan.sweep) /\ Times(stream, PointMarks) = Gone
      /\ Straight => \A c \in 1..Len(plan.steps), v \in Values(plan.sweep) :
            Times(stream, PointsAt(c, v)) = IF c <= curve THEN 1 ELSE 0
  BY <1>1, CurveIsOver DEF SolvedInv
<1>3. CASE GoToCurve(baseline, curve_start, curve + 1)
  <2>1. /\ UNCHANGED plan /\ curve' = curve + 1 /\ index' = 0 /\ stage' \notin Ended
        /\ curve + 1 \in 1..Len(plan.steps)
        /\ stream' = stream \/ stream' = Append(stream, Line(curve + 1, 0, "moving", TRUE))
    <3>1. /\ UNCHANGED plan /\ curve' = curve + 1 /\ index' = 0 /\ stage' = "to_curve"
          /\ curve + 1 <= Len(plan.steps)
      BY <1>3 DEF GoToCurve
    <3>2. stream' = stream \/ stream' = Append(stream, Line(curve + 1, 0, "moving", TRUE))
      BY <1>3, Zenon DEF GoToCurve
    <3>3. curve + 1 \in 1..Len(plan.steps)
      BY <1>2, <3>1
    <3> QED
      BY <3>1, <3>2, <3>3 DEF Ended
  <2>2. stream' = stream \/ \E l \in Marks : l.kind = "moving" /\ stream' = Append(stream, l)
    BY <1>1, <2>1, MovingMark
  <2>3. curve \in Nat /\ Times(stream, PointMarks) = curve * Len(plan.sweep)
    BY <1>2
  <2> QED
    BY <1>1, <1>2, <2>1, <2>2, <2>3, CountGoesOn
<1>4. CASE EndRun(baseline, curve_start, curve + 1)
  <2>1. curve = Len(plan.steps) /\ stage' = "done" /\ UNCHANGED <<plan, stream>>
    BY <1>2, <1>4 DEF EndRun
  <2>2. done = total
    BY <1>1, <1>2, <2>1, DoneCounts, GoneInRange
  <2>3. done' = done /\ total' = total /\ (Straight' <=> Straight)
    BY <2>1, PointsAtStay DEF done
  <2>4. ASSUME Straight, NEW c \in 1..Len(plan.steps), NEW v \in Values(plan.sweep)
        PROVE  Cardinality({i \in 1..Len(stream) :
                  stream[i].kind # "moving" /\ stream[i].curve = c /\ stream[i].value = v}) = 1
    <3>1. Times(stream, PointsAt(c, v)) = 1
      BY <1>2, <2>1, <2>4
    <3> QED
      BY <1>1, <3>1, DoneCounts
  <2>5. total \in Nat
    BY <1>1, GoneInRange
  <2>6. EveryPointOnce'
    BY <2>1, <2>2, <2>3, <2>4, <2>5 DEF EveryPointOnce
  <2> QED
    BY <2>1, <2>6 DEF CountInv, Ended
<1> QED
  BY <1>3, <1>4 DEF NextCurve

\* Every step keeps the counts.
LEMMA CountStep ==
    ASSUME SolvedInv, CountInv, [SweepNext]_sweepVars
    PROVE  CountInv'
<1>1. Typed
  BY DEF SolvedInv, TypeInv
<1>2. ASSUME BeginFails \/ LeadInFails \/ Kill PROVE CountInv'
  <2>1. stage' \in {"broken", "killed"} /\ UNCHANGED <<plan, stream>>
    BY <1>2 DEF BeginFails, LeadInFails, Kill
  <2> QED
    BY <1>1, <2>1, CountEnds
<1>3. ASSUME UNCHANGED sweepVars PROVE CountInv'
  <2>1. UNCHANGED <<plan, stage, curve, index, stream>>
    BY <1>3 DEF sweepVars, place
  <2>2. CASE stage \notin Ended
    <3>1. Way' = Way
      BY <2>1, PlanStays DEF Way
    <3> QED
      BY <1>1, <2>1, <2>2, <3>1, CountStays
  <2>3. CASE stage \in Ended
    <3>1. EveryPointOnce
      BY <2>3 DEF CountInv
    <3>2. done' = done /\ total' = total /\ (Straight' <=> Straight)
      BY <2>1, PointsAtStay DEF done
    <3>3. EveryPointOnce'
      BY <2>1, <3>1, <3>2 DEF EveryPointOnce
    <3> QED
      BY <2>1, <2>3, <3>3 DEF CountInv, Ended
  <2> QED
    BY <2>2, <2>3
<1> QED
  BY <1>2, <1>3, CountQuiet, CountWrites, CountFirstCurve, CountNextCurve DEF SweepNext, Work

-----------------------------------------------------------------------------
\* Whatever converges and whatever does not, every state of a sweep satisfies the
\* invariant: the theorems hold for any plan SweepAssumption allows.
THEOREM SweepInvariant == SweepSpec => []SweepInv
<1>1. SweepInit => SweepInv
  BY SolvedInit, CountInit DEF SweepInv
<1>2. SweepInv /\ [SweepNext]_sweepVars => SweepInv'
  BY SolvedStep, CountStep DEF SweepInv
<1> QED
  BY <1>1, <1>2, PTL DEF SweepSpec

\* The voltages, node values and saved states of the solver, and the lines of iv.jsonl,
\* are what they should be, in every stage: Solver.reached never shrinks its step to 0,
\* and the contacts in DevSim are what Solver.applied says.
THEOREM SweepTypesHold == SweepSpec => []SweepTypes
<1>1. SweepInv => SweepTypes
  BY TypedMeansSweepTypes DEF SweepInv, SolvedInv, TypeInv
<1> QED
  BY <1>1, SweepInvariant, PTL

\* A row written by the sweep holds what was solved at its own voltages: never what a
\* solve that did not converge left behind, nor the solution of another point.
THEOREM RowsHoldSolutions == SweepSpec => []RowsAreSolved
<1>1. SweepInv => RowsAreSolved
  BY RowsMeanSolved DEF SweepInv
<1> QED
  BY <1>1, SweepInvariant, PTL

\* iv.json of a run that ended has every point of the plan as a row or a failure, each
\* once, and the progress the page shows never passes the total.
THEOREM PointsAreComplete == SweepSpec => []EveryPointOnce
<1>1. ASSUME SweepInv PROVE EveryPointOnce
  <2>1. Typed /\ CountInv
    BY <1>1 DEF SweepInv, SolvedInv, TypeInv
  <2>2. stage \in Ended => EveryPointOnce
    BY <2>1 DEF CountInv
  <2>3. stage \notin Ended => done <= total /\ stage # "done"
    BY <2>1, CountedInRange DEF Ended
  <2> QED
    BY <2>2, <2>3 DEF EveryPointOnce
<1> QED
  BY <1>1, SweepInvariant, PTL
=============================================================================
