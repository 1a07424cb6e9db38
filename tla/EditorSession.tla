--------------------------- MODULE EditorSession ---------------------------
(***************************************************************************)
(* The editor of the browser and what it exchanges with the server         *)
(* (frontend/src/features/workspace/editorSession.ts,                      *)
(* editorSession.persist.ts, useEditorSession.ts, WorkspacePage.tsx,       *)
(* features/files/FileBrowser.tsx; backend/app/api/routes_editor.py,       *)
(* routes_files.py).                                                       *)
(*                                                                         *)
(* One user, one page at a time.  Every request is on its own: it may be   *)
(* answered late, out of order, or not at all, and the user goes on typing *)
(* meanwhile.  A text is the number of the keystroke that made it, so a    *)
(* later text is larger; 0 is the file as it was.  Cursors are left out.   *)
(* Bounds: MaxEdits, MaxActs, MaxVisits, MaxPuts.  A definition just       *)
(* before another one that it varies is a slip a change could make.        *)
(***************************************************************************)
EXTENDS Integers, Sequences, FiniteSets

CONSTANTS
    Paths, Nowhere,
    MaxEdits,   \* keystrokes
    MaxActs,    \* keystrokes, and clicks on save, run, new file, rename and delete
    MaxVisits,  \* page loads
    MaxPuts     \* PUTs of the session on their way at once

ASSUME EditorAssumption == Nowhere \notin Paths /\ MaxEdits \in Nat \ {0}

VARIABLES
    \* the server
    file,       \* file[p]: content of the file, None when there is none
    stored,     \* the row of editor_states
    \* the page
    visit,      \* number of the page load; the page is open when `here`
    here,
    restoring,  \* the stored session is still being asked for
    session,    \* EditorSession
    reading,    \* the read the page waits for: [path, got]
    armed,      \* the debounce timer of the session runs
    \* requests on their way, and answers on their way back
    saves,      \* [id, visit, path, text, kind, stage]
    runs,       \* [id, visit, path, shown, unsaved]
    puts,       \* states, in the order they were sent
    moving,     \* a rename or a deletion: [visit, from, to, stage], at most one
    edits, clicks,
    \* observers
    work,       \* work[p]: the last text the user typed in p and did not give up
    muddled,    \* paths touched again while a request about them was on its way, or
                \* created although they were there
    lossy       \* the last change of the session may not have reached the server

serverVars == <<file, stored>>
pageVars   == <<visit, here, restoring, session, reading, armed>>
wires      == <<saves, runs, puts, moving>>
observers  == <<work, muddled, lossy>>
vars == <<serverVars, pageVars, wires, edits, clicks, observers>>

None  == -1
Texts == 0..MaxEdits
EMPTY_SESSION == [order |-> <<>>, active |-> Nowhere, buffers |-> [p \in {} |-> <<>>]]
EMPTY_STATE   == [tabs |-> <<>>, active |-> Nowhere]
NoRead == [path |-> Nowhere, got |-> None]
Still  == [visit |-> 0, from |-> Nowhere, to |-> Nowhere, stage |-> "idle"]

Open(s) == DOMAIN s.buffers
Without(f, p) == [x \in DOMAIN f \ {p} |-> f[x]]
With(f, p, v) == [x \in DOMAIN f \cup {p} |-> IF x = p THEN v ELSE f[x]]
In(order, p)  == \E i \in 1..Len(order) : order[i] = p
\* s.filter(...): what is at the positions I, in the order it was in.
Nth(I, n)     == CHOOSE i \in I : Cardinality({j \in I : j <= i}) = n
At(s, I)      == [n \in 1..Cardinality(I) |-> s[Nth(I, n)]]
Other(order, p) == At(order, {i \in 1..Len(order) : order[i] # p})

(* ---------------------------------------------- editorSession.ts --- *)
needsLoad(s, p) == p \in Open(s) /\ s.buffers[p].saved = None

isDirty(s, p) ==
    /\ p \in Open(s)
    /\ s.buffers[p].text # None
    /\ s.buffers[p].text # s.buffers[p].saved

openTab(s, p) ==
    [order   |-> IF In(s.order, p) THEN s.order ELSE Append(s.order, p),
     active  |-> p,
     buffers |-> IF p \in Open(s) THEN s.buffers
                 ELSE With(s.buffers, p, [text |-> None, saved |-> None])]

closeTab(s, p) ==
    LET order == Other(s.order, p)
    IN  [order   |-> order,
         active  |-> IF s.active # p THEN s.active
                     ELSE IF order = <<>> THEN Nowhere ELSE order[Len(order)],
         buffers |-> Without(s.buffers, p)]

activate(s, p) == IF In(s.order, p) THEN [s EXCEPT !.active = p] ELSE s

edit(s, p, text) ==
    IF p \in Open(s) THEN [s EXCEPT !.buffers[p].text = text] ELSE s

loadedOverDraft(s, p, content) ==
    IF p \in Open(s)
    THEN [s EXCEPT !.buffers[p] = [text |-> content, saved |-> content]] ELSE s
loaded(s, p, content) ==
    IF p \in Open(s)
    THEN [s EXCEPT !.buffers[p] =
             [text |-> IF @.text = None THEN content ELSE @.text, saved |-> content]]
    ELSE s

markSaved(s, p, text) ==
    IF p \in Open(s)
    THEN [s EXCEPT !.buffers[p] = [text |-> text, saved |-> text]] ELSE s

renameBuffer(s, from, to) ==
    IF from \notin Open(s) THEN s
    ELSE [s EXCEPT !.buffers = With(Without(@, from), to, s.buffers[from])]
renamePath(s, from, to) ==
    IF from \notin Open(s) THEN s
    ELSE [order   |-> [i \in 1..Len(s.order) |->
                          IF s.order[i] = from THEN to ELSE s.order[i]],
          active  |-> IF s.active = from THEN to ELSE s.active,
          buffers |-> With(Without(s.buffers, from), to, s.buffers[from])]

(* -------------------------------------- editorSession.persist.ts --- *)
draftOf(s, p) == IF isDirty(s, p) THEN s.buffers[p].text ELSE None

toPersisted(s) ==
    [tabs   |-> [i \in 1..Len(s.order) |->
                    [path |-> s.order[i], draft |-> draftOf(s, s.order[i])]],
     active |-> s.active]

TabPaths(state) == {state.tabs[i].path : i \in 1..Len(state.tabs)}

fromPersisted(state) ==
    IF state.tabs = <<>> THEN EMPTY_SESSION
    ELSE [order   |-> [i \in 1..Len(state.tabs) |-> state.tabs[i].path],
          active  |-> IF state.active \in TabPaths(state) THEN state.active
                      ELSE state.tabs[1].path,
          buffers |-> [p \in TabPaths(state) |->
                          [text  |-> (CHOOSE t \in {state.tabs[i] : i \in 1..Len(state.tabs)} :
                                         t.path = p).draft,
                           saved |-> None]]]

(* ------------------------------------------------ routes_editor.py --- *)
Exists(p) == file[p] # None

_with_valid_active(state) ==
    IF state.active \in TabPaths(state) THEN state
    ELSE [state EXCEPT !.active = IF state.tabs = <<>> THEN Nowhere ELSE state.tabs[1].path]

read_state ==
    _with_valid_active([stored EXCEPT !.tabs =
                           At(@, {i \in 1..Len(@) : Exists(@[i].path)})])

(* ---------------------------------------------------- the page --- *)
Settled == here /\ ~restoring
Busy(p) ==
    \/ \E s \in saves : s.path = p
    \/ moving.stage # "idle" /\ p \in {moving.from, moving.to}
Running(p) == \E r \in runs : r.path = p

Touch(ps) ==
    muddled' = muddled \cup {p \in ps : Busy(p) \/ restoring}

\* What React does after setSession: an effect of useEditorSession starts the
\* read anew when <<active, wants>> changed, another one starts the timer.
Wants(s) == needsLoad(s, s.active)
Reread(s) ==
    IF <<s.active, Wants(s)>> = <<session.active, Wants(session)>> THEN reading
    ELSE IF Wants(s) THEN [path |-> s.active, got |-> None] ELSE NoRead

Shows(s) ==
    /\ session' = s
    /\ reading' = Reread(s)
    /\ armed' = (armed \/ (~restoring /\ s # session))

\* What an earlier visit may have left: nothing, or one tab with or without a
\* text that was typed and never saved.
LeftBehind ==
    {[tabs |-> <<[path |-> p, draft |-> d]>>, active |-> p] : p \in Paths, d \in {None, 1}}

Init ==
    /\ file \in [Paths -> {None, 0}]
    /\ \E p \in Paths : file[p] = 0
    /\ stored \in {EMPTY_STATE} \cup {t \in LeftBehind : file[t.active] = 0}
    /\ edits = IF \E p \in Paths : stored = [tabs |-> <<[path |-> p, draft |-> 1]>>, active |-> p]
               THEN 1 ELSE 0
    /\ work = [p \in Paths |-> IF edits = 1 /\ p = stored.active THEN 1 ELSE file[p]]
    /\ visit = 0 /\ here = FALSE /\ restoring = FALSE
    /\ session = EMPTY_SESSION /\ reading = NoRead /\ armed = FALSE
    /\ saves = {} /\ runs = {} /\ puts = <<>> /\ moving = Still
    /\ clicks = 0 /\ muddled = {} /\ lossy = FALSE

(* ------------------------------------------------ useEditorSession.ts --- *)
Load ==
    /\ ~here /\ visit < MaxVisits
    /\ visit' = visit + 1 /\ here' = TRUE /\ restoring' = TRUE
    /\ session' = EMPTY_SESSION /\ reading' = NoRead /\ armed' = FALSE
    /\ UNCHANGED <<serverVars, wires, edits, clicks, observers>>

\* The user goes on from what he sees: what was lost before is not his work.
Seen(s) ==
    IF lossy
    THEN [p \in Paths |-> IF p \in Open(s) /\ s.buffers[p].text # None
                          THEN s.buffers[p].text ELSE file[p]]
    ELSE work

Restored ==
    /\ here /\ restoring
    /\ LET s == fromPersisted(read_state)
       IN  /\ session' = s
           /\ reading' = Reread(s)
           /\ work' = Seen(s)
    /\ restoring' = FALSE /\ armed' = TRUE /\ lossy' = FALSE
    /\ UNCHANGED <<serverVars, visit, here, wires, edits, clicks, muddled>>

\* .catch(() => undefined).finally(...): the page goes on with what it has, and
\* the timer will send that to the server.
RestoreFailed ==
    /\ here /\ restoring
    /\ restoring' = FALSE /\ armed' = TRUE
    /\ work' = file /\ lossy' = FALSE
    /\ UNCHANGED <<serverVars, visit, here, session, reading, wires, edits, clicks, muddled>>

\* A read that fails is reported and not repeated: the page is as while it waits.
ReadAnswered ==
    /\ here /\ reading.path # Nowhere /\ reading.got = None
    /\ Exists(reading.path)
    /\ reading' = [reading EXCEPT !.got = file[reading.path]]
    /\ UNCHANGED <<serverVars, visit, here, restoring, session, armed, wires,
                   edits, clicks, observers>>

ReadArrives ==
    /\ here /\ reading.path # Nowhere /\ reading.got # None
    /\ Shows(loaded(session, reading.path, reading.got))
    /\ UNCHANGED <<serverVars, visit, here, restoring, wires, edits, clicks, observers>>

Fire ==
    /\ here /\ armed /\ Len(puts) < MaxPuts
    /\ armed' = FALSE
    /\ puts' = Append(puts, toPersisted(session))
    /\ UNCHANGED <<serverVars, visit, here, restoring, session, reading,
                   saves, runs, moving, edits, clicks, observers>>

\* write_state; a PUT may overtake an earlier one, or be lost.
Put(i) ==
    /\ stored' = _with_valid_active(puts[i])
    /\ puts' = [j \in 1..(Len(puts) - 1) |-> IF j < i THEN puts[j] ELSE puts[j + 1]]
    /\ lossy' = (lossy \/ i > 1)
    /\ UNCHANGED <<file, pageVars, saves, runs, moving, edits, clicks, work, muddled>>

PutLost ==
    /\ puts # <<>>
    /\ puts' = Tail(puts) /\ lossy' = TRUE
    /\ UNCHANGED <<serverVars, pageVars, saves, runs, moving, edits, clicks, work, muddled>>

\* Closing the browser, logging out, or the session running out.
Leave ==
    /\ here
    /\ here' = FALSE /\ restoring' = FALSE
    /\ session' = EMPTY_SESSION /\ reading' = NoRead /\ armed' = FALSE
    /\ muddled' = muddled \cup {p \in Paths : Busy(p)}
    /\ lossy' = (lossy \/ armed \/ puts # <<>>)
    /\ UNCHANGED <<serverVars, visit, wires, edits, clicks, work>>

(* --------------------------------------------------- WorkspacePage.tsx --- *)
\* change(active, next): only a tab whose text is there shows an editor.
Edit ==
    LET p == session.active
    IN  /\ here /\ p \in Open(session) /\ session.buffers[p].text # None
        /\ edits < MaxEdits /\ edits + clicks < MaxActs
        /\ edits' = edits + 1
        /\ Shows(edit(session, p, edits + 1))
        /\ work' = [work EXCEPT ![p] = edits + 1]
        /\ Touch({p})
        /\ UNCHANGED <<serverVars, visit, here, restoring, wires, clicks, lossy>>

OpenFile(p) ==
    /\ here /\ Exists(p)
    /\ Shows(openTab(session, p))
    /\ Touch({p})
    /\ UNCHANGED <<serverVars, visit, here, restoring, wires, edits, clicks, work, lossy>>

SwitchTo(p) ==
    /\ here /\ p \in Open(session) /\ p # session.active
    /\ Shows(activate(session, p))
    /\ Touch({p})
    /\ UNCHANGED <<serverVars, visit, here, restoring, wires, edits, clicks, work, lossy>>

\* Closing a dirty tab asks first: the user gives the text up.
Close(p) ==
    /\ here /\ p \in Open(session)
    /\ Shows(closeTab(session, p))
    /\ work' = [work EXCEPT ![p] = IF isDirty(session, p) THEN file[p] ELSE @]
    /\ Touch({p})
    /\ UNCHANGED <<serverVars, visit, here, restoring, wires, edits, clicks, lossy>>

Request(p, text, kind) ==
    [id |-> clicks + 1, visit |-> visit, path |-> p, text |-> text,
     kind |-> kind, stage |-> "sent"]
Submission(id, p, shown, unsaved) ==
    [id |-> id, visit |-> visit, path |-> p, shown |-> shown, unsaved |-> unsaved]

Click == here /\ edits + clicks < MaxActs /\ clicks' = clicks + 1

ClickSave ==
    LET p == session.active
    IN  /\ Click /\ p \in Open(session) /\ session.buffers[p].text # None
        /\ saves' = saves \cup {Request(p, session.buffers[p].text, "save")}
        /\ Touch({p})
        /\ UNCHANGED <<serverVars, pageVars, runs, puts, moving, edits, work, lossy>>

\* run(): a dirty tab is saved first, and the job is asked for after the answer.
SaveFirstIfLoaded(p) == isDirty(session, p) /\ session.buffers[p].saved = None
SaveFirst(p) == isDirty(session, p)
ClickRun ==
    LET p    == session.active
        text == session.buffers[p].text
    IN  /\ Click /\ p \in Open(session)
        /\ IF SaveFirst(p)
           THEN saves' = saves \cup {Request(p, text, "run")} /\ UNCHANGED runs
           ELSE runs' = runs \cup {Submission(clicks + 1, p, text, FALSE)} /\ UNCHANGED saves
        /\ Touch({p})
        /\ UNCHANGED <<serverVars, pageVars, puts, moving, edits, work, lossy>>

(* ------------------------------------------------- FileBrowser.tsx --- *)
\* createFile writes the empty text (text 0) without asking whether the name is
\* taken: a file that is there is blanked under its tab.
ClickCreate(p) ==
    /\ Click
    /\ saves' = saves \cup {Request(p, 0, "create")}
    /\ work' = [work EXCEPT ![p] = 0]
    /\ muddled' = muddled \cup {q \in {p} : Busy(q) \/ restoring \/ Exists(q)}
    /\ UNCHANGED <<serverVars, pageVars, runs, puts, moving, edits, lossy>>

ClickMove(p, to) ==
    /\ Click /\ moving.stage = "idle" /\ Exists(p) /\ p # to
    /\ moving' = [visit |-> visit, from |-> p, to |-> to, stage |-> "sent"]
    /\ work' = IF to = Nowhere THEN [work EXCEPT ![p] = None] ELSE work
    /\ muddled' = muddled \cup {q \in {p, to} \cap Paths : Busy(q) \/ Running(q) \/ restoring}
    /\ UNCHANGED <<serverVars, pageVars, saves, runs, puts, edits, lossy>>

(* ---------------------------------------------------- routes_files.py --- *)
\* A write is done, or refused, or done with its answer lost.
Write(s) ==
    /\ s \in saves /\ s.stage = "sent"
    /\ \E done, told \in BOOLEAN :
          /\ told => done
          /\ file' = IF done THEN [file EXCEPT ![s.path] = s.text] ELSE file
          /\ saves' = (saves \ {s}) \cup {[s EXCEPT !.stage = IF told THEN "ok" ELSE "failed"]}
    /\ UNCHANGED <<stored, pageVars, runs, puts, moving, edits, clicks, observers>>

AfterFailure(s, p, text) == markSaved(s, p, text)
AfterRefusal(s, p, text) == s

\* applySaved or report; then run() goes on in either case.
SaveAnswered(s) ==
    /\ s \in saves /\ s.stage \in {"ok", "failed"}
    /\ saves' = saves \ {s}
    /\ IF here /\ s.visit = visit
       THEN /\ Shows(IF s.kind = "create" THEN session
                     ELSE IF s.stage = "ok" THEN markSaved(session, s.path, s.text)
                     ELSE AfterRefusal(session, s.path, s.text))
            /\ runs' = IF s.kind = "run"
                       THEN runs \cup {Submission(s.id, s.path, s.text, s.stage = "failed")}
                       ELSE runs
       ELSE UNCHANGED <<session, reading, armed, runs>>
    /\ muddled' = IF s.kind = "create" /\ s.stage = "failed"
                  THEN muddled \cup {s.path} ELSE muddled
    /\ UNCHANGED <<serverVars, visit, here, restoring, puts, moving, edits, clicks,
                   work, lossy>>

\* The server reads the file when the request comes (routes_files.run).
Run(r) ==
    /\ r \in runs
    /\ runs' = runs \ {r}
    /\ UNCHANGED <<serverVars, pageVars, saves, puts, moving, edits, clicks, observers>>

MayMove(m) == Exists(m.from) /\ (m.to = Nowhere \/ ~Exists(m.to))
Move ==
    /\ moving.stage = "sent"
    /\ IF MayMove(moving)
       THEN /\ file' = [p \in Paths |-> IF p = moving.to THEN file[moving.from]
                                        ELSE IF p = moving.from THEN None ELSE file[p]]
            /\ moving' = [moving EXCEPT !.stage = "done"]
            /\ UNCHANGED muddled
       ELSE /\ moving' = Still
            /\ muddled' = muddled \cup ({moving.from} \cap {p \in Paths : moving.to = Nowhere})
            /\ UNCHANGED file
    /\ UNCHANGED <<stored, pageVars, saves, runs, puts, edits, clicks, work, lossy>>

\* onRenamed = followRename, onDeleted = close: not the page's closeTab.
MoveAnswered ==
    /\ moving.stage = "done"
    /\ moving' = Still
    /\ IF here /\ moving.visit = visit
       THEN Shows(IF moving.to = Nowhere THEN closeTab(session, moving.from)
                  ELSE renamePath(session, moving.from, moving.to))
       ELSE UNCHANGED <<session, reading, armed>>
    /\ work' = [p \in Paths |-> IF p = moving.to THEN work[moving.from]
                                ELSE IF p = moving.from THEN None ELSE work[p]]
    /\ muddled' = IF {moving.from, moving.to} \cap muddled = {} THEN muddled
                  ELSE muddled \cup ({moving.from, moving.to} \cap Paths)
    /\ UNCHANGED <<serverVars, visit, here, restoring, saves, runs, puts,
                   edits, clicks, lossy>>

(* ------------------------------------------------------ specification --- *)
Next ==
    \/ Load \/ Restored \/ RestoreFailed \/ Leave
    \/ ReadAnswered \/ ReadArrives
    \/ Fire \/ PutLost \/ \E i \in 1..Len(puts) : Put(i)
    \/ Edit \/ ClickSave \/ ClickRun
    \/ \E p \in Paths : OpenFile(p) \/ SwitchTo(p) \/ Close(p) \/ ClickCreate(p)
    \/ \E p \in Paths, to \in Paths \cup {Nowhere} : ClickMove(p, to)
    \/ \E s \in saves : Write(s) \/ SaveAnswered(s)
    \/ \E r \in runs : Run(r)
    \/ Move \/ MoveAnswered

Spec == Init /\ [][Next]_vars

(* --------------------------------------------------------- properties --- *)
Buffers == [text : Texts \cup {None}, saved : Texts \cup {None}]

\* The tabs in order are exactly the buffers, each once, and the active one is
\* among them, whatever answers, renames and restores the session went through.
TypeOK ==
    /\ file \in [Paths -> Texts \cup {None}]
    /\ work \in [Paths -> Texts \cup {None}]
    /\ \A p \in Open(session) : p \in Paths /\ session.buffers[p] \in Buffers
    /\ \A p \in Paths : In(session.order, p) <=> p \in Open(session)
    /\ muddled \subseteq Paths
    /\ session.active \in Open(session) \cup {Nowhere}
    /\ session.order # <<>> => session.active # Nowhere

DraftStored(p) ==
    \E i \in 1..Len(stored.tabs) : stored.tabs[i] = [path |-> p, draft |-> work[p]]

\* A text the user typed is never lost: while its tab is open it is what the tab
\* shows; otherwise it is in the file, or, when the page was left with nothing
\* pending, in the file or among the stored drafts.  Not claimed of a path the
\* user touched again before the answer to a request about it had come, or took
\* for a new file although it was there.
WorkIsKept ==
    \A p \in Paths \ muddled :
       work[p] # None /\ ~Busy(p) =>
          IF Settled /\ p \in Open(session) /\ session.buffers[p].text # None
          THEN session.buffers[p].text = work[p]
          ELSE \/ file[p] = work[p]
               \/ ~Settled /\ (lossy \/ (Exists(p) /\ DraftStored(p)))

\* A tab without the mark of unsaved changes shows what is in the file, unless a
\* request about the file is on its way or the user did not wait for one.
CleanMeansSaved ==
    \A p \in Paths \ muddled :
       Settled /\ p \in Open(session) /\ ~Busy(p) /\ ~isDirty(session, p)
       /\ ~needsLoad(session, p)
          => file[p] = session.buffers[p].text

\* Whenever the server gets to a run that was asked for, the file holds a text at
\* least as new as the one on the screen when the button was pressed, unless the
\* save before it failed (run() goes on even then) or the user did not wait for an
\* earlier request about the file.  Of a run that is still on its way when the page
\* is loaded anew it is not true: an older draft, restored because a later PUT was
\* lost, may then be saved over the text the run was asked for.
RunIsNotStale ==
    \A r \in runs :
       r.visit = visit /\ r.path \notin muddled /\ ~r.unsaved
       => Exists(r.path) /\ file[r.path] >= r.shown
============================================================================
