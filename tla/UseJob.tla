------------------------------- MODULE UseJob -------------------------------
(***************************************************************************)
(* How a page follows a job (frontend/src/features/jobs/useJob.ts,         *)
(* JobPanel.tsx), against a server where jobs go their way.                *)
(*                                                                         *)
(* The effect of useJob runs anew whenever jobId changes; what belongs to  *)
(* an earlier effect is cancelled and its answers are dropped.  The answer *)
(* of a cancel request belongs to no effect: it is applied to whatever job *)
(* is on the screen.  succeeded, failed and timed_out are one status, Over.*)
(* Bounds: Jobs, MaxStops, MaxFaults, MaxBlanks.  A definition before one  *)
(* that it varies is a slip a change could make.                           *)
(***************************************************************************)
EXTENDS Naturals, FiniteSets

CONSTANTS
    Jobs,       \* job ids, in the order of submission: 1..n
    MaxStops,   \* presses of the stop button
    MaxFaults,  \* failed requests and requeued jobs
    MaxBlanks   \* times the panel is emptied (the tab is closed)

ASSUME UseJobAssumption ==
    /\ IsFiniteSet(Jobs) /\ Jobs = 1..Cardinality(Jobs)
    /\ {MaxStops, MaxFaults, MaxBlanks} \subseteq Nat

VARIABLES
    st,         \* st[j]: status on the server
    jobId,      \* the job the panel is for; NoJob for none
    effect,     \* number of the current run of the effect
    timer,      \* a poll is scheduled
    job,        \* the detail on the screen: [id, status]
    error,      \* "the connection is unstable"
    console,    \* whose console output is on the screen
    cancelError,
    gets,       \* polls on their way: [effect, id, status], None until read
    outputs,    \* console requests on their way: [effect, id]
    cancels,    \* cancel requests on their way: [press, id, answer]
    stops, faults, blanks,
    astray,     \* an answer of a cancel request met another job on the screen
    dumb,       \* a console request of the current effect has failed
    shown       \* jobs whose run request was answered

serverVars == <<st, shown>>
pageVars   == <<jobId, effect, timer, job, error, console, cancelError>>
wires      == <<gets, outputs, cancels>>
counters   == <<stops, faults, blanks>>
vars == <<serverVars, pageVars, wires, counters, astray, dumb>>

NoJob == 0
None  == "none"
Live  == {"queued", "running"}
Final == {"cancelled", "over"}
NoDetail == [id |-> NoJob, status |-> None]

isFinished(status) == status \notin Live
Submitted == {j \in Jobs : st[j] # "unborn"}
Poll(e, j) == [effect |-> e, id |-> j, status |-> None]

Init ==
    /\ st = [j \in Jobs |-> "unborn"]
    /\ jobId = NoJob /\ effect = 0 /\ timer = FALSE
    /\ job = NoDetail /\ error = FALSE /\ console = NoJob /\ cancelError = FALSE
    /\ gets = {} /\ outputs = {} /\ cancels = {}
    /\ stops = 0 /\ faults = 0 /\ blanks = 0 /\ astray = FALSE /\ dumb = FALSE
    /\ shown = {}

(* ----------------------------------------------------------- the server --- *)
Submit ==
    /\ \E j \in Jobs :
          /\ st[j] = "unborn" /\ \A i \in Jobs : i < j => st[i] # "unborn"
          /\ st' = [st EXCEPT ![j] = "queued"]
    /\ UNCHANGED <<shown, pageVars, wires, counters, astray, dumb>>

Start(j) ==
    /\ st[j] = "queued"
    /\ st' = [st EXCEPT ![j] = "running"]
    /\ UNCHANGED <<shown, pageVars, wires, counters, astray, dumb>>

End(j) ==
    /\ st[j] = "running"
    /\ st' = [st EXCEPT ![j] = "over"]
    /\ UNCHANGED <<shown, pageVars, wires, counters, astray, dumb>>

Requeue(j) ==
    /\ st[j] = "running" /\ faults < MaxFaults
    /\ faults' = faults + 1
    /\ st' = [st EXCEPT ![j] = "queued"]
    /\ UNCHANGED <<shown, pageVars, wires, stops, blanks, astray, dumb>>

(* ------------------------------------------------------------ useJob.ts --- *)
\* What a request that belongs to effect e may still do to the page.
UnlessBlank(e) == e <= effect /\ jobId # NoJob
Current(e)     == e = effect

\* A poll is followed by another one unless it brought an end; a failed one too.
ContinuesIfLive(outcome) == outcome \in Live
Continues(outcome)       == outcome \notin Final

\* setJobId and the effect that follows: the answer of a run (the answers of two
\* runs may come in either order), or the closing of the tab.
Select(j) ==
    /\ j \in Submitted \ shown
    /\ shown' = shown \cup {j}
    /\ jobId' = j /\ effect' = effect + 1
    /\ timer' = FALSE /\ console' = NoJob
    /\ gets' = gets \cup {Poll(effect + 1, j)}
    /\ dumb' = FALSE
    /\ UNCHANGED <<st, job, error, cancelError, outputs, cancels, counters, astray>>

Blank ==
    /\ jobId # NoJob /\ blanks < MaxBlanks
    /\ blanks' = blanks + 1
    /\ jobId' = NoJob /\ effect' = effect + 1 /\ timer' = FALSE
    /\ UNCHANGED <<serverVars, job, error, console, cancelError, wires, stops, faults,
                   astray, dumb>>

GetRead(g) ==
    /\ g \in gets /\ g.status = None
    /\ gets' = (gets \ {g}) \cup {[g EXCEPT !.status = st[g.id]]}
    /\ UNCHANGED <<serverVars, pageVars, outputs, cancels, counters, astray, dumb>>

GetArrives(g) ==
    /\ g \in gets /\ g.status # None
    /\ gets' = gets \ {g}
    /\ IF Current(g.effect)
       THEN /\ job' = [id |-> g.id, status |-> g.status]
            /\ error' = FALSE
            /\ timer' = Continues(g.status)
            /\ outputs' = IF isFinished(g.status)
                         THEN outputs \cup {[effect |-> g.effect, id |-> g.id]} ELSE outputs
       ELSE UNCHANGED <<job, error, timer, outputs>>
    /\ UNCHANGED <<serverVars, jobId, effect, console, cancelError, cancels, counters,
                   astray, dumb>>

GetFails(g) ==
    /\ g \in gets /\ faults < MaxFaults
    /\ faults' = faults + 1
    /\ gets' = gets \ {g}
    /\ IF Current(g.effect) THEN error' = TRUE /\ timer' = Continues("failed")
                            ELSE UNCHANGED <<error, timer>>
    /\ UNCHANGED <<serverVars, jobId, effect, job, console, cancelError, outputs, cancels,
                   stops, blanks, astray, dumb>>

Tick ==
    /\ timer
    /\ timer' = FALSE
    /\ gets' = gets \cup {Poll(effect, jobId)}
    /\ UNCHANGED <<serverVars, jobId, effect, job, error, console, cancelError, outputs,
                   cancels, counters, astray, dumb>>

ConsoleArrives(o) ==
    /\ o \in outputs
    /\ outputs' = outputs \ {o}
    /\ console' = IF Current(o.effect) THEN o.id ELSE console
    /\ UNCHANGED <<serverVars, jobId, effect, timer, job, error, cancelError, gets, cancels,
                   counters, astray, dumb>>

\* The output is a side matter: its failure is not shown, and not tried again.
ConsoleFails(o) ==
    /\ o \in outputs /\ faults < MaxFaults
    /\ faults' = faults + 1
    /\ outputs' = outputs \ {o}
    /\ dumb' = (dumb \/ Current(o.effect))
    /\ UNCHANGED <<serverVars, pageVars, gets, cancels, stops, blanks, astray>>

(* ---------------------------------------------------------- JobPanel.tsx --- *)
\* The button is there while the detail on the screen is live, but the request is
\* for jobId, which may be a later job.
Stop ==
    /\ jobId # NoJob /\ job # NoDetail /\ ~isFinished(job.status)
    /\ stops < MaxStops
    /\ stops' = stops + 1
    /\ cancels' = cancels \cup {[press |-> stops + 1, id |-> jobId, answer |-> None]}
    /\ UNCHANGED <<serverVars, pageVars, gets, outputs, faults, blanks, astray, dumb>>

\* The route (JobQueue.cancel): a live job is cancelled, another one is refused.
Cancel(c) ==
    /\ c \in cancels /\ c.answer = None
    /\ st' = [st EXCEPT ![c.id] = IF @ \in Live THEN "cancelled" ELSE @]
    /\ cancels' = (cancels \ {c}) \cup
          {[c EXCEPT !.answer = IF st[c.id] \in Live THEN "ok" ELSE "refused"]}
    /\ UNCHANGED <<shown, pageVars, gets, outputs, counters, astray, dumb>>

\* applyStatus changes the detail on the screen, whichever job it is of.
CancelArrives(c) ==
    /\ c \in cancels /\ c.answer # None
    /\ cancels' = cancels \ {c}
    /\ cancelError' = (c.answer = "refused")
    /\ job' = IF c.answer = "ok" /\ job # NoDetail
             THEN [job EXCEPT !.status = "cancelled"] ELSE job
    /\ astray' = (astray \/ (c.answer = "ok" /\ job.id # c.id))
    /\ UNCHANGED <<serverVars, jobId, effect, timer, error, console, gets, outputs, counters,
                   dumb>>

(* --------------------------------------------------------- specification --- *)
GetStep     == \E g \in gets : GetRead(g) \/ GetArrives(g)
ConsoleStep == \E o \in outputs : ConsoleArrives(o)
CancelStep  == \E c \in cancels : Cancel(c) \/ CancelArrives(c)

Next ==
    \/ Submit \/ \E j \in Jobs : Start(j) \/ End(j) \/ Requeue(j) \/ Select(j)
    \/ Blank \/ Tick \/ Stop
    \/ GetStep \/ \E g \in gets : GetFails(g)
    \/ ConsoleStep \/ \E o \in outputs : ConsoleFails(o)
    \/ CancelStep

Spec == Init /\ [][Next]_vars

\* The server brings every job to an end (EveryJobSettles of JobQueue), a request
\* is answered or fails, and a timer fires.  Nobody has to press anything.
FairSpec ==
    /\ Spec
    /\ \A j \in Jobs : WF_vars(Start(j)) /\ WF_vars(End(j))
    /\ WF_vars(GetStep) /\ WF_vars(ConsoleStep) /\ WF_vars(CancelStep) /\ WF_vars(Tick)

(* ------------------------------------------------------------ properties --- *)
TypeOK ==
    /\ st \in [Jobs -> {"unborn"} \cup Live \cup Final]
    /\ jobId \in Submitted \cup {NoJob}
    /\ job = NoDetail \/ (job.id \in Submitted /\ job.status \in Live \cup Final)
    /\ \A g \in gets : g.id \in Submitted /\ g.effect <= effect
    /\ {error, cancelError, timer, astray, dumb} \subseteq BOOLEAN
    /\ timer => jobId # NoJob

\* The output of one job never stands under another: what an earlier effect asked
\* for is dropped when it comes (setConsole(null) alone would not keep it away).
ConsoleIsOfTheJob == jobId # NoJob => console \in {NoJob, jobId}

\* A page polls its job with one request at a time: failures, retries and changes
\* of the job never leave two chains of polls, and while the job on the screen is
\* its own and live there is one.
OnePollAtATime ==
    LET mine == {g \in gets : g.effect = effect /\ jobId # NoJob}
    IN  /\ Cardinality(mine) + (IF timer THEN 1 ELSE 0) <= 1
        /\ (jobId # NoJob /\ ~astray /\ (job.id # jobId \/ ~isFinished(job.status)))
              => (timer \/ mine # {})

\* The screen comes to show the end the job really had, and its output: whatever
\* polls fail and however often the user changes the job or presses stop, unless
\* a cancel answer for one job was applied to another.
ScreenConverges ==
    \A j \in Jobs :
       <>[](jobId = j) =>
          <>[](astray \/ (/\ job = [id |-> j, status |-> st[j]] /\ isFinished(st[j])
                          /\ console = j \/ dumb))
=============================================================================
