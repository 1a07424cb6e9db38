---------------------------- MODULE UseJobProofs ----------------------------
(***************************************************************************)
(* A page never polls its job twice at a time nor stops polling a live one,*)
(* and never shows the output of another job, for every number of jobs,    *)
(* failed requests, presses and closed tabs.                               *)
(***************************************************************************)
EXTENDS UseJob, FiniteSetTheorems, TLAPS

Statuses   == {None} \cup Live \cup Final
PollType   == [effect : Nat, id : Jobs, status : Statuses]
OutputType == [effect : Nat, id : Jobs]
CancelType == [press : Nat, id : Jobs, answer : {None, "ok", "refused"}]

PageTypes ==
    /\ effect \in Nat /\ stops \in Nat /\ job \in [id : Jobs \cup {NoJob}, status : Statuses]
    /\ gets \subseteq PollType /\ outputs \subseteq OutputType /\ cancels \subseteq CancelType

(* What is on its way for the current effect is for the job of the panel,  *)
(* and cancel requests are for jobs there are.                             *)
WiresAreOwn ==
    /\ \A g \in gets : g.effect = effect => g.id = jobId
    /\ \A o \in outputs : o.effect <= effect /\ (o.effect = effect => o.id = jobId)
    /\ \A c \in cancels : c.id \in Submitted

(* One chain of polls, and one there is while the job may still change.    *)
Mine(g)      == g.effect = effect
Chained      == timer \/ \E g \in gets : Mine(g)
PollWanted   == jobId # NoJob /\ ~astray /\ (job.id # jobId \/ ~isFinished(job.status))
TimerIsAlone == timer => \A g \in gets : ~Mine(g)
OnePoll      == \A g, h \in gets : Mine(g) /\ Mine(h) => g = h
PollGoesOn   == PollWanted => Chained

PageInv == /\ TypeOK /\ PageTypes /\ WiresAreOwn /\ ConsoleIsOfTheJob
           /\ TimerIsAlone /\ OnePoll /\ PollGoesOn

\* A poll that has been read is the same poll with a status.
LEMMA ReadPoll ==
    ASSUME NEW g \in PollType, NEW s \in Statuses
    PROVE  /\ [g EXCEPT !.status = s] \in PollType
           /\ [g EXCEPT !.status = s].effect = g.effect
           /\ [g EXCEPT !.status = s].id = g.id
BY DEF PollType

LEMMA AnsweredCancel ==
    ASSUME NEW c \in CancelType, NEW a \in {"ok", "refused"}
    PROVE  /\ [c EXCEPT !.answer = a] \in CancelType
           /\ [c EXCEPT !.answer = a].id = c.id
BY DEF CancelType

LEMMA CancelledDetail ==
    ASSUME NEW d \in [id : Jobs \cup {NoJob}, status : Statuses]
    PROVE  /\ [d EXCEPT !.status = "cancelled"] \in [id : Jobs \cup {NoJob}, status : Statuses]
           /\ [d EXCEPT !.status = "cancelled"].id = d.id
           /\ [d EXCEPT !.status = "cancelled"].status = "cancelled"
BY DEF Statuses, Final

LEMMA NewPoll ==
    ASSUME NEW e \in Nat, NEW j \in Jobs
    PROVE  Poll(e, j) \in PollType /\ Poll(e, j).effect = e /\ Poll(e, j).id = j
BY DEF Poll, PollType, Statuses

LEMMA StatusSplit ==
    /\ {"cancelled", "over"} \subseteq Statuses /\ {"queued", "running"} \subseteq Statuses
    /\ Live \cap Final = {} /\ Live \subseteq Statuses /\ Final \subseteq Statuses
    /\ None \notin Live \cup Final
BY DEF Statuses, Live, Final, None

\* NoJob is nobody's id.
LEMMA TimerNeedsJob == Submitted \cap {NoJob} = {}
<1>1. NoJob \notin Jobs
  BY UseJobAssumption, FS_CardinalityType DEF NoJob
<1> QED
  BY <1>1 DEF Submitted

LEMMA InitPage == Init => PageInv
<1> SUFFICES ASSUME Init PROVE PageInv
  OBVIOUS
<1>1. TypeOK
  BY DEF Init, TypeOK
<1>2. PageTypes
  BY DEF Init, PageTypes, NoDetail, Statuses
<1>3. WiresAreOwn /\ TimerIsAlone /\ OnePoll /\ PollGoesOn /\ ConsoleIsOfTheJob
  BY DEF Init, WiresAreOwn, TimerIsAlone, OnePoll, PollGoesOn, PollWanted, ConsoleIsOfTheJob
<1> QED
  BY <1>1, <1>2, <1>3 DEF PageInv

-----------------------------------------------------------------------------
\* The steps, by what they touch.

\* The server alone: statuses change, and no job becomes unborn.
LEMMA ServerStep ==
    ASSUME PageInv, st' \in [Jobs -> {"unborn"} \cup Live \cup Final],
           Submitted \subseteq Submitted', UNCHANGED <<pageVars, wires, stops, astray, dumb>>
    PROVE  PageInv'
<1>1. TypeOK'
  BY DEF PageInv, TypeOK, pageVars, wires
<1>2. PageTypes'
  BY DEF PageInv, PageTypes, pageVars, wires
<1>3. WiresAreOwn' /\ TimerIsAlone' /\ OnePoll' /\ PollGoesOn' /\ ConsoleIsOfTheJob'
  BY DEF PageInv, WiresAreOwn, TimerIsAlone, OnePoll, PollGoesOn, PollWanted, Chained, Mine,
     ConsoleIsOfTheJob, pageVars, wires
<1> QED
  BY <1>1, <1>2, <1>3 DEF PageInv

LEMMA SubmitKeeps == ASSUME PageInv, Submit PROVE PageInv'
<1>1. PICK j \in Jobs : st' = [st EXCEPT ![j] = "queued"]
  BY DEF Submit
<1>2. st \in [Jobs -> {"unborn"} \cup Live \cup Final]
  BY DEF PageInv, TypeOK
<1>3. st' \in [Jobs -> {"unborn"} \cup Live \cup Final] /\ Submitted \subseteq Submitted'
  BY <1>1, <1>2 DEF Live, Submitted
<1> QED
  BY <1>3, ServerStep DEF Submit, counters

LEMMA WorkKeeps ==
    ASSUME PageInv, NEW j \in Jobs, Start(j) \/ End(j) \/ Requeue(j) PROVE PageInv'
<1>1. PICK s \in {"queued", "running", "over"} : st' = [st EXCEPT ![j] = s]
  BY DEF Start, End, Requeue
<1>2. st \in [Jobs -> {"unborn"} \cup Live \cup Final]
  BY DEF PageInv, TypeOK
<1>3. st' \in [Jobs -> {"unborn"} \cup Live \cup Final] /\ Submitted \subseteq Submitted'
  BY <1>1, <1>2 DEF Live, Final, Submitted
<1> QED
  BY <1>3, ServerStep DEF Start, End, Requeue, counters

\* The panel is given a job, or none: a new effect begins and nothing is on its
\* way for it but the poll it starts with.
LEMMA SelectKeeps == ASSUME PageInv, NEW j \in Jobs, Select(j) PROVE PageInv'
<1>1. /\ j \in Submitted /\ jobId' = j /\ effect' = effect + 1 /\ timer' = FALSE
      /\ console' = NoJob /\ gets' = gets \cup {Poll(effect + 1, j)} /\ dumb' = FALSE
      /\ UNCHANGED <<st, job, error, cancelError, outputs, cancels, stops, astray>>
  BY DEF Select, counters
<1>2. effect \in Nat /\ gets \subseteq PollType /\ \A g \in gets : g.effect <= effect
  BY DEF PageInv, PageTypes, TypeOK
<1>3. \A g \in gets : g.effect \in Nat /\ g.effect # effect + 1
  BY <1>2 DEF PollType
<1>4. /\ Poll(effect + 1, j) \in PollType /\ Poll(effect + 1, j).effect = effect + 1
      /\ Poll(effect + 1, j).id = j
  BY <1>2, NewPoll
<1>5. \A o \in outputs : o.effect \in Nat /\ o.effect <= effect
  BY DEF PageInv, PageTypes, WiresAreOwn, OutputType
<1>6. Submitted' = Submitted
  BY <1>1 DEF Submitted
<1>7. TypeOK'
  <2>1. \A g \in gets' : g.id \in Submitted' /\ g.effect <= effect'
    <3>1. \A g \in gets : g.id \in Submitted /\ g.effect <= effect + 1
      BY <1>2, <1>3 DEF PageInv, TypeOK
    <3>2. Poll(effect + 1, j).effect <= effect + 1
      BY <1>2, <1>4
    <3> QED
      BY <1>1, <1>4, <1>6, <3>1, <3>2
  <2> QED
    BY <1>1, <1>6, <2>1 DEF PageInv, TypeOK
<1>8. PageTypes'
  BY <1>1, <1>2, <1>4 DEF PageInv, PageTypes
<1>9. WiresAreOwn'
  BY <1>1, <1>2, <1>3, <1>4, <1>5, <1>6 DEF PageInv, WiresAreOwn
<1>10. TimerIsAlone' /\ ConsoleIsOfTheJob'
  BY <1>1 DEF TimerIsAlone, ConsoleIsOfTheJob
<1>11. OnePoll' /\ PollGoesOn'
  BY <1>1, <1>3, <1>4 DEF OnePoll, PollGoesOn, Chained, Mine
<1> QED
  BY <1>7, <1>8, <1>9, <1>10, <1>11 DEF PageInv

LEMMA BlankKeeps == ASSUME PageInv, Blank PROVE PageInv'
<1>1. /\ jobId' = NoJob /\ effect' = effect + 1 /\ timer' = FALSE
      /\ UNCHANGED <<st, job, error, console, cancelError, gets, outputs, cancels, stops,
                     astray, dumb>>
  BY DEF Blank, serverVars, wires
<1>2. effect \in Nat /\ gets \subseteq PollType /\ \A g \in gets : g.effect <= effect
  BY DEF PageInv, PageTypes, TypeOK
<1>3. \A g \in gets : g.effect \in Nat /\ g.effect # effect + 1 /\ g.effect <= effect + 1
  BY <1>2 DEF PollType
<1>4. \A o \in outputs : o.effect \in Nat /\ o.effect <= effect
  BY DEF PageInv, PageTypes, WiresAreOwn, OutputType
<1>5. Submitted' = Submitted
  BY <1>1 DEF Submitted
<1>6. TypeOK'
  BY <1>1, <1>3, <1>5 DEF PageInv, TypeOK
<1>7. PageTypes'
  BY <1>1, <1>2 DEF PageInv, PageTypes
<1>8. WiresAreOwn'
  BY <1>1, <1>2, <1>3, <1>4, <1>5 DEF PageInv, WiresAreOwn
<1>9. TimerIsAlone' /\ ConsoleIsOfTheJob' /\ PollGoesOn'
  BY <1>1 DEF TimerIsAlone, ConsoleIsOfTheJob, PollGoesOn, PollWanted
<1>10. OnePoll'
  BY <1>1, <1>3 DEF OnePoll, Mine
<1> QED
  BY <1>6, <1>7, <1>8, <1>9, <1>10 DEF PageInv

\* A poll is read by the server.
LEMMA GetReadKeeps == ASSUME PageInv, NEW g \in gets, GetRead(g) PROVE PageInv'
<1> DEFINE r == [g EXCEPT !.status = st[g.id]]
<1>1. /\ gets' = (gets \ {g}) \cup {r}
      /\ UNCHANGED <<st, pageVars, outputs, cancels, stops, astray, dumb>>
  BY DEF GetRead, serverVars, counters
<1>2. g \in PollType /\ g.id \in Submitted
  BY DEF PageInv, PageTypes, TypeOK
<1>3. st[g.id] \in Statuses
  BY <1>2 DEF PageInv, TypeOK, Submitted, Statuses
<1>4. r \in PollType /\ r.effect = g.effect /\ r.id = g.id
  BY <1>2, <1>3, ReadPoll
<1> HIDE DEF r
<1>5. Submitted' = Submitted
  BY <1>1 DEF Submitted
<1>6. TypeOK'
  BY <1>1, <1>4, <1>5 DEF PageInv, TypeOK, pageVars
<1>7. PageTypes' /\ WiresAreOwn'
  BY <1>1, <1>4, <1>5 DEF PageInv, PageTypes, WiresAreOwn, pageVars
<1>8. TimerIsAlone' /\ OnePoll'
  BY <1>1, <1>4 DEF PageInv, TimerIsAlone, OnePoll, Mine, pageVars
<1>9. PollGoesOn'
  BY <1>1, <1>4 DEF PageInv, PollGoesOn, PollWanted, Chained, Mine, pageVars
<1>10. ConsoleIsOfTheJob'
  BY <1>1 DEF PageInv, ConsoleIsOfTheJob, pageVars
<1> QED
  BY <1>6, <1>7, <1>8, <1>9, <1>10 DEF PageInv

\* A poll is answered, or fails, for an effect that is over: nothing happens.
LEMMA PollDropped ==
    ASSUME PageInv, NEW g \in gets, ~Mine(g), gets' = gets \ {g},
           UNCHANGED <<st, jobId, effect, timer, job, error, console, cancelError,
                       outputs, cancels, stops, astray, dumb>>
    PROVE  PageInv'
<1>1. Submitted' = Submitted
  BY DEF Submitted
<1>2. TypeOK'
  BY <1>1 DEF PageInv, TypeOK
<1>3. PageTypes' /\ WiresAreOwn'
  BY <1>1 DEF PageInv, PageTypes, WiresAreOwn
<1>4. TimerIsAlone' /\ OnePoll' /\ ConsoleIsOfTheJob'
  BY DEF PageInv, TimerIsAlone, OnePoll, Mine, ConsoleIsOfTheJob
<1>5. PollGoesOn'
  BY DEF PageInv, PollGoesOn, PollWanted, Chained, Mine
<1> QED
  BY <1>2, <1>3, <1>4, <1>5 DEF PageInv

LEMMA GetArrivesKeeps == ASSUME PageInv, NEW g \in gets, GetArrives(g) PROVE PageInv'
<1>1. /\ g.status # None /\ gets' = gets \ {g}
      /\ UNCHANGED <<st, jobId, effect, console, cancelError, cancels, stops, astray, dumb>>
  BY DEF GetArrives, serverVars, counters
<1>2. CASE ~Current(g.effect)
  <2>1. ~Mine(g) /\ UNCHANGED <<job, error, timer, outputs>>
    BY <1>2 DEF GetArrives, Current, Mine
  <2> QED
    BY <1>1, <2>1, PollDropped
<1>3. CASE Current(g.effect)
  <2>1. /\ job' = [id |-> g.id, status |-> g.status] /\ error' = FALSE
        /\ timer' = (g.status \notin Final)
        /\ outputs' = IF isFinished(g.status)
                      THEN outputs \cup {[effect |-> g.effect, id |-> g.id]} ELSE outputs
    BY <1>3 DEF GetArrives, Continues
  <2>2. /\ g \in PollType /\ g.effect = effect /\ g.id = jobId /\ g.id \in Submitted
    BY <1>3 DEF PageInv, PageTypes, TypeOK, WiresAreOwn, Current
  <2>3. /\ g.status \in Live \cup Final /\ g.id \in Jobs /\ effect \in Nat
    BY <1>1, <2>2 DEF PollType, Statuses
  <2>4. job'.id = g.id /\ job'.status = g.status
    BY <2>1
  <2>5. Submitted' = Submitted
    BY <1>1 DEF Submitted
  <2>6. TypeOK'
    <3>1. timer' => jobId # NoJob
      BY <1>1, <2>1, <2>2, TimerNeedsJob
    <3> QED
      BY <1>1, <2>1, <2>2, <2>3, <2>4, <2>5, <3>1 DEF PageInv, TypeOK
  <2>7. PageTypes'
    <3>1. job' \in [id : Jobs \cup {NoJob}, status : Statuses]
      BY <2>1, <2>3 DEF Statuses
    <3>2. [effect |-> g.effect, id |-> g.id] \in OutputType
      BY <2>2, <2>3 DEF OutputType
    <3> QED
      BY <1>1, <2>1, <3>1, <3>2 DEF PageInv, PageTypes
  <2>8. WiresAreOwn'
    <3> DEFINE o == [effect |-> g.effect, id |-> g.id]
    <3>1. o.effect = effect /\ o.id = jobId /\ effect <= effect
      BY <2>2, <2>3
    <3>2. outputs' \subseteq outputs \cup {o}
      BY <2>1
    <3> HIDE DEF o
    <3> QED
      BY <1>1, <2>5, <3>1, <3>2 DEF PageInv, WiresAreOwn
  <2>9. TimerIsAlone' /\ OnePoll'
    BY <1>1, <2>2 DEF PageInv, TimerIsAlone, OnePoll, Mine
  <2>10. PollGoesOn'
    BY <1>1, <2>1, <2>2, <2>4, StatusSplit
       DEF PollGoesOn, PollWanted, Chained, isFinished
  <2>11. ConsoleIsOfTheJob'
    BY <1>1 DEF PageInv, ConsoleIsOfTheJob
  <2> QED
    BY <2>6, <2>7, <2>8, <2>9, <2>10, <2>11 DEF PageInv
<1> QED
  BY <1>2, <1>3

LEMMA GetFailsKeeps == ASSUME PageInv, NEW g \in gets, GetFails(g) PROVE PageInv'
<1>1. /\ gets' = gets \ {g}
      /\ UNCHANGED <<st, jobId, effect, job, console, cancelError, outputs, cancels, stops,
                     astray, dumb>>
  BY DEF GetFails, serverVars
<1>2. CASE ~Current(g.effect)
  <2>1. ~Mine(g) /\ UNCHANGED <<error, timer>>
    BY <1>2 DEF GetFails, Current, Mine
  <2> QED
    BY <1>1, <2>1, PollDropped
<1>3. CASE Current(g.effect)
  <2>1. error' = TRUE /\ timer' = TRUE
    BY <1>3 DEF GetFails, Continues, Final
  <2>2. g.effect = effect /\ g.id = jobId /\ g.id \in Submitted
    BY <1>3 DEF PageInv, TypeOK, WiresAreOwn, Current
  <2>3. Submitted' = Submitted
    BY <1>1 DEF Submitted
  <2>4. TypeOK'
    BY <1>1, <2>1, <2>2, <2>3, TimerNeedsJob DEF PageInv, TypeOK
  <2>5. PageTypes' /\ WiresAreOwn'
    BY <1>1, <2>3 DEF PageInv, PageTypes, WiresAreOwn
  <2>6. TimerIsAlone' /\ OnePoll'
    BY <1>1, <2>2 DEF PageInv, TimerIsAlone, OnePoll, Mine
  <2>7. PollGoesOn' /\ ConsoleIsOfTheJob'
    BY <1>1, <2>1 DEF PageInv, PollGoesOn, Chained, ConsoleIsOfTheJob
  <2> QED
    BY <2>4, <2>5, <2>6, <2>7 DEF PageInv
<1> QED
  BY <1>2, <1>3

\* The timer fires; TimerIsAlone says that no poll is under way.
LEMMA TickKeeps == ASSUME PageInv, Tick PROVE PageInv'
<1>1. /\ timer /\ timer' = FALSE /\ gets' = gets \cup {Poll(effect, jobId)}
      /\ UNCHANGED <<st, jobId, effect, job, error, console, cancelError, outputs, cancels,
                     stops, astray, dumb>>
  BY DEF Tick, serverVars, counters
<1>2. effect \in Nat /\ jobId \in Submitted /\ jobId \in Jobs
  BY <1>1 DEF PageInv, PageTypes, TypeOK, Submitted
<1>3. /\ Poll(effect, jobId) \in PollType /\ Poll(effect, jobId).effect = effect
      /\ Poll(effect, jobId).id = jobId
  BY <1>2, NewPoll
<1>4. Submitted' = Submitted /\ effect <= effect
  BY <1>1, <1>2 DEF Submitted
<1>5. TypeOK'
  BY <1>1, <1>2, <1>3, <1>4 DEF PageInv, TypeOK
<1>6. PageTypes' /\ WiresAreOwn'
  BY <1>1, <1>3, <1>4 DEF PageInv, PageTypes, WiresAreOwn
<1>7. TimerIsAlone' /\ PollGoesOn'
  BY <1>1, <1>3 DEF TimerIsAlone, PollGoesOn, Chained, Mine
<1>8. OnePoll' /\ ConsoleIsOfTheJob'
  BY <1>1, <1>3 DEF PageInv, OnePoll, TimerIsAlone, Mine, ConsoleIsOfTheJob
<1> QED
  BY <1>5, <1>6, <1>7, <1>8 DEF PageInv

\* The console output of a job arrives, or fails to.
LEMMA ConsoleKeeps ==
    ASSUME PageInv, NEW o \in outputs, ConsoleArrives(o) \/ ConsoleFails(o) PROVE PageInv'
<1>1. /\ outputs' = outputs \ {o}
      /\ UNCHANGED <<st, jobId, effect, timer, job, error, cancelError, gets, cancels, stops,
                     astray>>
      /\ console' = console \/ (o.effect = effect /\ console' = o.id)
  BY DEF ConsoleArrives, ConsoleFails, Current, pageVars, serverVars, counters
<1>0. dumb' \in BOOLEAN
  BY DEF ConsoleArrives, ConsoleFails, Current, PageInv, TypeOK
<1>2. Submitted' = Submitted
  BY <1>1 DEF Submitted
<1>3. ConsoleIsOfTheJob'
  BY <1>1 DEF PageInv, WiresAreOwn, ConsoleIsOfTheJob
<1>4. TypeOK'
  BY <1>0, <1>1, <1>2 DEF PageInv, TypeOK
<1>5. PageTypes' /\ WiresAreOwn'
  BY <1>1, <1>2 DEF PageInv, PageTypes, WiresAreOwn
<1>6. TimerIsAlone' /\ OnePoll' /\ PollGoesOn'
  BY <1>1 DEF PageInv, TimerIsAlone, OnePoll, PollGoesOn, PollWanted, Chained, Mine
<1> QED
  BY <1>3, <1>4, <1>5, <1>6 DEF PageInv

LEMMA StopKeeps == ASSUME PageInv, Stop PROVE PageInv'
<1> DEFINE c == [press |-> stops + 1, id |-> jobId, answer |-> None]
<1>1. /\ jobId # NoJob /\ stops' = stops + 1 /\ cancels' = cancels \cup {c}
      /\ UNCHANGED <<st, pageVars, gets, outputs, astray, dumb>>
  BY DEF Stop, serverVars
<1>2. jobId \in Submitted /\ jobId \in Jobs /\ stops \in Nat
  BY <1>1 DEF PageInv, PageTypes, TypeOK, Submitted
<1>3. c \in CancelType /\ c.id = jobId
  BY <1>2 DEF CancelType
<1> HIDE DEF c
<1>4. Submitted' = Submitted
  BY <1>1 DEF Submitted
<1>5. TypeOK'
  BY <1>1, <1>4 DEF PageInv, TypeOK, pageVars
<1>6. PageTypes' /\ WiresAreOwn'
  BY <1>1, <1>2, <1>3, <1>4 DEF PageInv, PageTypes, WiresAreOwn, pageVars
<1>7. TimerIsAlone' /\ OnePoll' /\ PollGoesOn' /\ ConsoleIsOfTheJob'
  BY <1>1 DEF PageInv, TimerIsAlone, OnePoll, PollGoesOn, PollWanted, Chained, Mine,
     ConsoleIsOfTheJob, pageVars
<1> QED
  BY <1>5, <1>6, <1>7 DEF PageInv

LEMMA CancelKeeps == ASSUME PageInv, NEW c \in cancels, Cancel(c) PROVE PageInv'
<1>1. PICK a \in {"ok", "refused"} :
         cancels' = (cancels \ {c}) \cup {[c EXCEPT !.answer = a]}
  BY DEF Cancel
<1>2. /\ st' = [st EXCEPT ![c.id] = IF @ \in Live THEN "cancelled" ELSE @]
      /\ UNCHANGED <<pageVars, gets, outputs, stops, astray, dumb>>
  BY DEF Cancel, counters
<1>3. st \in [Jobs -> {"unborn"} \cup Live \cup Final] /\ c \in CancelType /\ c.id \in Submitted
  BY DEF PageInv, TypeOK, PageTypes, WiresAreOwn
<1>4. st' \in [Jobs -> {"unborn"} \cup Live \cup Final] /\ Submitted \subseteq Submitted'
  BY <1>2, <1>3 DEF Live, Final, Submitted
<1>5. [c EXCEPT !.answer = a] \in CancelType /\ [c EXCEPT !.answer = a].id = c.id
  BY <1>3, AnsweredCancel
<1>6. TypeOK'
  BY <1>2, <1>4 DEF PageInv, TypeOK, pageVars
<1>7. PageTypes'
  BY <1>1, <1>2, <1>5 DEF PageInv, PageTypes, pageVars
<1>8. WiresAreOwn'
  BY <1>1, <1>2, <1>3, <1>4, <1>5 DEF PageInv, WiresAreOwn, pageVars
<1>9. TimerIsAlone' /\ OnePoll' /\ PollGoesOn' /\ ConsoleIsOfTheJob'
  BY <1>2 DEF PageInv, TimerIsAlone, OnePoll, PollGoesOn, PollWanted, Chained, Mine,
     ConsoleIsOfTheJob, pageVars
<1> QED
  BY <1>6, <1>7, <1>8, <1>9 DEF PageInv

\* applyStatus: the detail on the screen keeps its job and becomes final.
LEMMA CancelArrivesKeeps ==
    ASSUME PageInv, NEW c \in cancels, CancelArrives(c) PROVE PageInv'
<1>1. /\ cancels' = cancels \ {c} /\ cancelError' \in BOOLEAN
      /\ job' = job \/ (job' = [job EXCEPT !.status = "cancelled"] /\ job # NoDetail)
      /\ astray' \in BOOLEAN /\ (astray => astray')
      /\ UNCHANGED <<st, jobId, effect, timer, error, console, gets, outputs, stops, dumb>>
  BY DEF CancelArrives, serverVars, counters, PageInv, TypeOK
<1>2. /\ job \in [id : Jobs \cup {NoJob}, status : Statuses]
      /\ job = NoDetail \/ (job.id \in Submitted /\ job.status \in Live \cup Final)
  BY DEF PageInv, PageTypes, TypeOK
<1>3. /\ job' \in [id : Jobs \cup {NoJob}, status : Statuses] /\ job'.id = job.id
      /\ job' = job \/ (job # NoDetail /\ job'.status = "cancelled")
  BY <1>1, <1>2, CancelledDetail
<1>4. Submitted' = Submitted
  BY <1>1 DEF Submitted
<1>5. TypeOK'
  <2>1. job' = NoDetail \/ (job'.id \in Submitted' /\ job'.status \in Live \cup Final)
    BY <1>2, <1>3, <1>4 DEF Final
  <2> QED
    BY <1>1, <1>4, <2>1 DEF PageInv, TypeOK
<1>6. PageTypes' /\ WiresAreOwn'
  BY <1>1, <1>3, <1>4 DEF PageInv, PageTypes, WiresAreOwn
<1>7. PollGoesOn'
  <2>1. isFinished("cancelled")
    BY DEF isFinished, Live
  <2>2. PollWanted' => PollWanted
    BY <1>1, <1>3, <2>1 DEF PollWanted
  <2> QED
    BY <1>1, <2>2 DEF PageInv, PollGoesOn, Chained, Mine
<1>8. TimerIsAlone' /\ OnePoll' /\ ConsoleIsOfTheJob'
  BY <1>1 DEF PageInv, TimerIsAlone, OnePoll, Mine, ConsoleIsOfTheJob
<1> QED
  BY <1>5, <1>6, <1>7, <1>8 DEF PageInv

-----------------------------------------------------------------------------
LEMMA NextPage == PageInv /\ [Next]_vars => PageInv'
<1> SUFFICES ASSUME PageInv, [Next]_vars PROVE PageInv'
  OBVIOUS
<1>1. CASE UNCHANGED vars
  <2>1. /\ st' \in [Jobs -> {"unborn"} \cup Live \cup Final] /\ Submitted' = Submitted
        /\ UNCHANGED <<pageVars, wires, stops, astray, dumb>>
    BY <1>1 DEF vars, serverVars, counters, PageInv, TypeOK, Submitted
  <2> QED
    BY <2>1, ServerStep
<1>2. CASE Submit \/ Blank \/ Tick \/ Stop
  BY <1>2, SubmitKeeps, BlankKeeps, TickKeeps, StopKeeps
<1>3. ASSUME NEW j \in Jobs, Start(j) \/ End(j) \/ Requeue(j) \/ Select(j) PROVE PageInv'
  BY <1>3, WorkKeeps, SelectKeeps
<1>4. ASSUME NEW g \in gets, GetRead(g) \/ GetArrives(g) \/ GetFails(g) PROVE PageInv'
  BY <1>4, GetReadKeeps, GetArrivesKeeps, GetFailsKeeps
<1>5. ASSUME NEW o \in outputs, ConsoleArrives(o) \/ ConsoleFails(o) PROVE PageInv'
  BY <1>5, ConsoleKeeps
<1>6. ASSUME NEW c \in cancels, Cancel(c) \/ CancelArrives(c) PROVE PageInv'
  BY <1>6, CancelKeeps, CancelArrivesKeeps
<1> QED
  BY <1>1, <1>2, <1>3, <1>4, <1>5, <1>6 DEF Next, GetStep, ConsoleStep, CancelStep

\* Every variable of the page keeps its type, and a timer runs only for a job.
THEOREM TypesHold == Spec => []TypeOK
<1>1. PageInv => TypeOK
  BY DEF PageInv
<1> QED
  BY <1>1, InitPage, NextPage, PTL DEF Spec

\* Whatever the order of answers, the output of one job never stands under another.
THEOREM NoForeignOutput == Spec => []ConsoleIsOfTheJob
<1>1. PageInv => ConsoleIsOfTheJob
  BY DEF PageInv
<1> QED
  BY <1>1, InitPage, NextPage, PTL DEF Spec

\* Failures, retries and changes of the job never leave two chains of polls, and a
\* job that may still change is polled.
THEOREM PollsAreOneChain == Spec => []OnePollAtATime
<1>1. PageInv => OnePollAtATime
  <2> SUFFICES ASSUME PageInv PROVE OnePollAtATime
    OBVIOUS
  <2> DEFINE mine == {g \in gets : g.effect = effect /\ jobId # NoJob}
  <2>1. timer => mine = {}
    BY DEF PageInv, TimerIsAlone, Mine
  <2>2. mine = {} \/ \E g \in gets : mine = {g}
    BY DEF PageInv, OnePoll, Mine
  <2>3. Cardinality(mine) + (IF timer THEN 1 ELSE 0) <= 1
    <3>1. CASE mine = {}
      BY <3>1, FS_EmptySet
    <3>2. CASE mine # {}
      <4>1. PICK g : mine = {g}
        BY <2>2, <3>2
      <4> HIDE DEF mine
      <4>2. Cardinality(mine) = 1
        BY <4>1, FS_Singleton
      <4> QED
        BY <2>1, <3>2, <4>2
    <3> QED
      BY <3>1, <3>2
  <2>4. PollWanted => timer \/ mine # {}
    BY DEF PageInv, PollGoesOn, PollWanted, Chained, Mine
  <2> QED
    BY <2>3, <2>4 DEF OnePollAtATime, PollWanted
<1> QED
  BY <1>1, InitPage, NextPage, PTL DEF Spec
=============================================================================
