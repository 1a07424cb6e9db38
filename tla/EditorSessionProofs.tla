------------------------ MODULE EditorSessionProofs ------------------------
(***************************************************************************)
(* EditorSession keeps its session well-formed, loses no text that was     *)
(* typed, shows no unsaved text as saved and runs no older text than the   *)
(* one on the screen, for every set of paths and any number of keystrokes, *)
(* clicks, page loads and PUTs.                                            *)
(*                                                                         *)
(* The invariant speaks of one path at a time (Good): a request about a    *)
(* path that is not muddled is the only one, so a step is about one path,  *)
(* or two for a rename, and leaves every other one alone (GoodStays,       *)
(* GoodStaysOff).  What is stored is related to the screen by Sent while   *)
(* the page is there, and to the files by Left while it is not.            *)
(***************************************************************************)
EXTENDS EditorSession, FiniteSetTheorems, FunctionTheorems, SequenceTheorems, TLAPS

-----------------------------------------------------------------------------
(* Filters.                                                                *)

\* How many of a finite set of positions are not after one of them numbers them
\* from 1 on.
LEMMA RankIsInjective ==
    ASSUME NEW n \in Nat, NEW I \in SUBSET (1..n)
    PROVE  /\ IsFiniteSet(I) /\ Cardinality(I) \in Nat
           /\ [i \in I |-> Cardinality({j \in I : j <= i})] \in Surjection(I, 1..Cardinality(I))
<1> DEFINE upTo(i) == {j \in I : j <= i}
           rank    == [i \in I |-> Cardinality(upTo(i))]
           N       == Cardinality(I)
<1>1. IsFiniteSet(I) /\ N \in Nat
  <2>1. IsFiniteSet(1..n)
    BY FS_Interval
  <2>2. IsFiniteSet(I)
    BY <2>1, FS_Subset
  <2> QED
    BY <2>2, FS_CardinalityType
<1>2. \A i \in I : /\ IsFiniteSet(upTo(i)) /\ Cardinality(upTo(i)) \in Nat
                   /\ Cardinality(upTo(i)) <= N
  BY <1>1, FS_Subset, FS_CardinalityType
<1>3. \A i \in I : Cardinality(upTo(i)) # 0
  <2> SUFFICES ASSUME NEW i \in I PROVE Cardinality(upTo(i)) # 0
    OBVIOUS
  <2>1. i \in upTo(i)
    OBVIOUS
  <2> QED
    BY <1>2, <2>1, FS_EmptySet
<1>4. rank \in [I -> 1..N]
  BY <1>1, <1>2, <1>3
<1>5. \A i, k \in I : i < k => rank[i] # rank[k]
  <2> SUFFICES ASSUME NEW i \in I, NEW k \in I, i < k
      PROVE  Cardinality(upTo(i)) # Cardinality(upTo(k))
    OBVIOUS
  <2>0. I \subseteq Nat /\ i \in Nat /\ k \in Nat
    OBVIOUS
  <2>1. upTo(i) \subseteq upTo(k) /\ k \in upTo(k) /\ k \notin upTo(i)
    <3>1. k <= k /\ ~(k <= i) /\ \A j \in I : j <= i => j <= k
      BY <2>0
    <3> QED
      BY <3>1
  <2> HIDE DEF upTo
  <2>2. IsFiniteSet(upTo(k)) /\ upTo(i) # upTo(k)
    BY <1>2, <2>1
  <2> QED
    BY <2>1, <2>2, FS_Subset
<1> HIDE DEF rank, N
<1>6. \A i, k \in I : rank[i] = rank[k] => i = k
  <2>1. \A i \in I : i \in Nat
    OBVIOUS
  <2> QED
    BY <1>5, <2>1
<1>7. rank \in Injection(I, 1..N)
  BY <1>4, <1>6 DEF Injection, IsInjective
<1>8. IsFiniteSet(1..N) /\ Cardinality(1..N) = N
  BY <1>1, FS_Interval
<1>9. rank \in Surjection(I, 1..N)
  BY <1>7, <1>8, FS_Injection DEF N
<1> QED
  BY <1>1, <1>9 DEF rank, N

\* A filter keeps exactly what is at the positions it is given.
LEMMA FilterKeeps ==
    ASSUME NEW X, NEW s \in Seq(X), NEW I \in SUBSET (1..Len(s))
    PROVE  /\ At(s, I) \in Seq(X)
           /\ \A n \in 1..Len(At(s, I)) : \E i \in I : At(s, I)[n] = s[i]
           /\ \A i \in I : \E n \in 1..Len(At(s, I)) : At(s, I)[n] = s[i]
<1> DEFINE N == Cardinality(I)
           rank == [i \in I |-> Cardinality({j \in I : j <= i})]
<1>1. N \in Nat /\ rank \in Surjection(I, 1..N)
  BY RankIsInjective, Len(s) \in Nat
<1>2. \A n \in 1..N : Nth(I, n) \in I /\ rank[Nth(I, n)] = n
  <2> SUFFICES ASSUME NEW n \in 1..N PROVE Nth(I, n) \in I /\ rank[Nth(I, n)] = n
    OBVIOUS
  <2>1. \E i \in I : rank[i] = n
    <3> HIDE DEF rank, N
    <3> QED
      BY <1>1 DEF Surjection
  <2> QED
    BY <2>1 DEF Nth
<1>3. \A i \in I : rank[i] \in 1..N /\ s[i] \in X
  <2>1. rank \in [I -> 1..N]
    <3> HIDE DEF rank, N
    <3> QED
      BY <1>1 DEF Surjection
  <2>2. \A i \in 1..Len(s) : s[i] \in X
    BY ElementOfSeq
  <2> HIDE DEF rank, N
  <2> QED
    BY <2>1, <2>2
<1>4. rank \in [I -> 1..N] /\ \A i, k \in I : rank[i] = rank[k] => i = k
  <2>1. IsFiniteSet(I)
    BY RankIsInjective, Len(s) \in Nat
  <2>2. Cardinality(1..N) = Cardinality(I)
    BY <1>1, FS_Interval
  <2> HIDE DEF rank, N
  <2>3. rank \in Injection(I, 1..N)
    BY <1>1, <2>1, <2>2, FS_Surjection
  <2> QED
    BY <2>3 DEF Injection, IsInjective
<1>5. /\ At(s, I) = [n \in 1..N |-> s[Nth(I, n)]]
  BY DEF At
<1> HIDE DEF rank, N
<1>6. At(s, I) \in Seq(X) /\ Len(At(s, I)) = N /\ \A n \in 1..N : At(s, I)[n] = s[Nth(I, n)]
  <2>1. \A n \in 1..N : s[Nth(I, n)] \in X
    BY <1>2, <1>3
  <2> QED
    BY <1>1, <1>5, <2>1
<1>7. \A i \in I : Nth(I, rank[i]) = i
  BY <1>2, <1>3, <1>4
<1> QED
  BY <1>2, <1>3, <1>6, <1>7

-----------------------------------------------------------------------------
(* The operations on the session (editorSession.ts,                        *)
(* editorSession.persist.ts, routes_editor.py).                            *)

\* A buffer whose saved text is known shows a text.
Buffer(T) == {b \in [text : T \cup {None}, saved : T \cup {None}] :
                  b.saved # None => b.text # None}

\* A well-formed session over the texts T, and below a well-formed stored state: two
\* tabs of one path hold the same draft.
SessionOK(s, T) ==
    /\ DOMAIN s = {"order", "active", "buffers"}
    /\ s.order \in Seq(Paths)
    /\ s.active \in Open(s) \cup {Nowhere}
    /\ Open(s) \subseteq Paths
    /\ \A p \in Open(s) : s.buffers[p] \in Buffer(T)
    /\ \A p \in Paths : In(s.order, p) <=> p \in Open(s)
    /\ s.order # <<>> => s.active # Nowhere

Tab(T)   == [path : Paths, draft : T \cup {None}]
State(T) == [tabs : Seq(Tab(T)), active : Paths \cup {Nowhere}]
StateOK(st, T) ==
    /\ st \in State(T)
    /\ \A i, j \in 1..Len(st.tabs) :
          st.tabs[i].path = st.tabs[j].path => st.tabs[i].draft = st.tabs[j].draft

\* closeTab's order.filter(...) keeps every other path.
LEMMA OtherKeeps ==
    ASSUME NEW order \in Seq(Paths), NEW p
    PROVE  /\ Other(order, p) \in Seq(Paths)
           /\ \A q : In(Other(order, p), q) <=> In(order, q) /\ q # p
<1> DEFINE I == {i \in 1..Len(order) : order[i] # p}
           r == At(order, I)
<1>1. /\ r \in Seq(Paths)
      /\ \A n \in 1..Len(r) : \E i \in I : r[n] = order[i]
      /\ \A i \in I : \E n \in 1..Len(r) : r[n] = order[i]
  <2>1. I \in SUBSET (1..Len(order))
    OBVIOUS
  <2> HIDE DEF I
  <2> QED
    BY <2>1, FilterKeeps
<1>2. Other(order, p) = r
  BY DEF Other
<1> HIDE DEF r
<1>3. \A q : In(r, q) <=> In(order, q) /\ q # p
  BY <1>1 DEF In
<1> QED
  BY <1>1, <1>2, <1>3

\* Tabs are in order when any tab is, and the last one is one of them.
LEMMA SomeTab ==
    ASSUME NEW order \in Seq(Paths)
    PROVE  /\ order = <<>> <=> \A q \in Paths : ~In(order, q)
           /\ order # <<>> => order[Len(order)] \in Paths /\ In(order, order[Len(order)])
<1>1. order # <<>> => Len(order) \in 1..Len(order) /\ order[Len(order)] \in Paths
  BY EmptySeq, ElementOfSeq
<1>2. order = <<>> => 1..Len(order) = {}
  BY EmptySeq
<1> QED
  BY <1>1, <1>2 DEF In

\* What each operation of editorSession.ts makes of a well-formed session:
\* openTab adds an empty buffer, or none when the tab is there.
LEMMA OpenTab ==
    ASSUME NEW T, NEW s, SessionOK(s, T), NEW p \in Paths
    PROVE  LET r == openTab(s, p)
           IN  /\ SessionOK(r, T)
               /\ r.active = p
               /\ Open(r) = Open(s) \cup {p}
               /\ \A q \in Open(s) : r.buffers[q] = s.buffers[q]
               /\ p \notin Open(s) => r.buffers[p] = [text |-> None, saved |-> None]
<1> DEFINE r == openTab(s, p)
<1>1. /\ DOMAIN r = {"order", "active", "buffers"}
      /\ r.active = p
      /\ r.order = IF In(s.order, p) THEN s.order ELSE Append(s.order, p)
      /\ r.buffers = IF p \in Open(s) THEN s.buffers
                     ELSE With(s.buffers, p, [text |-> None, saved |-> None])
  BY DEF openTab
<1> HIDE DEF r
<1>2. /\ Open(r) = Open(s) \cup {p}
      /\ \A q \in Open(s) : r.buffers[q] = s.buffers[q]
      /\ p \notin Open(s) => r.buffers[p] = [text |-> None, saved |-> None]
  BY <1>1 DEF With, Open
<1>3. r.order \in Seq(Paths) /\ \A q \in Paths : In(r.order, q) <=> In(s.order, q) \/ q = p
  <2>1. CASE In(s.order, p)
    BY <1>1, <2>1 DEF SessionOK
  <2>2. CASE ~In(s.order, p)
    <3>1. s.order \in Seq(Paths) /\ r.order = Append(s.order, p)
      BY <1>1, <2>2 DEF SessionOK
    <3>2. /\ r.order \in Seq(Paths) /\ Len(s.order) \in Nat /\ Len(r.order) = Len(s.order) + 1
          /\ \A i \in 1..Len(s.order) : r.order[i] = s.order[i]
          /\ r.order[Len(s.order) + 1] = p
      BY <3>1, AppendProperties
    <3>3. \A i : i \in 1..Len(r.order) <=> i \in 1..Len(s.order) \/ i = Len(s.order) + 1
      BY <3>2
    <3> QED
      BY <3>2, <3>3 DEF In
  <2> QED
    BY <2>1, <2>2
<1>4. p # Nowhere
  BY EditorAssumption
<1>5. [text |-> None, saved |-> None] \in Buffer(T)
  BY DEF Buffer
<1>6. \A q \in Open(r) : r.buffers[q] \in Buffer(T)
  BY <1>2, <1>5 DEF SessionOK
<1>7. SessionOK(r, T)
  BY <1>1, <1>2, <1>3, <1>4, <1>6 DEF SessionOK
<1> QED
  BY <1>1, <1>2, <1>7 DEF r

\* closeTab takes one buffer away and activates a tab that is left.
LEMMA CloseTab ==
    ASSUME NEW T, NEW s, SessionOK(s, T), NEW p \in Paths
    PROVE  LET r == closeTab(s, p)
           IN  /\ SessionOK(r, T)
               /\ Open(r) = Open(s) \ {p}
               /\ \A q \in Open(r) : r.buffers[q] = s.buffers[q]
<1> DEFINE r == closeTab(s, p)
           o == Other(s.order, p)
<1>0. s.order \in Seq(Paths)
  BY DEF SessionOK
<1>1. o \in Seq(Paths) /\ \A q : In(o, q) <=> In(s.order, q) /\ q # p
  BY <1>0, OtherKeeps
<1>2. /\ DOMAIN r = {"order", "active", "buffers"}
      /\ r.order = o
      /\ r.active = IF s.active # p THEN s.active
                    ELSE IF o = <<>> THEN Nowhere ELSE o[Len(o)]
      /\ r.buffers = Without(s.buffers, p)
  BY DEF closeTab
<1> HIDE DEF r, o
<1>3. Open(r) = Open(s) \ {p} /\ \A q \in Open(r) : r.buffers[q] = s.buffers[q]
  BY <1>2 DEF Without, Open
<1>4. o # <<>> => o[Len(o)] \in Paths /\ In(o, o[Len(o)])
  BY <1>1, SomeTab
<1>5. \A q \in Paths : In(o, q) <=> q \in Open(r)
  BY <1>1, <1>3 DEF SessionOK
<1>6. o # <<>> => s.order # <<>>
  BY <1>0, <1>1, <1>4, SomeTab
<1>7. r.active \in Open(r) \cup {Nowhere} /\ (o # <<>> => r.active # Nowhere)
  <2>1. CASE s.active # p
    BY <1>2, <1>3, <1>6, <2>1 DEF SessionOK
  <2>2. CASE s.active = p
    <3>1. CASE o = <<>>
      BY <1>2, <2>2, <3>1
    <3>2. CASE o # <<>>
      BY <1>2, <1>4, <1>5, <2>2, <3>2, EditorAssumption
    <3> QED
      BY <3>1, <3>2
  <2> QED
    BY <2>1, <2>2
<1>8. SessionOK(r, T)
  BY <1>1, <1>2, <1>3, <1>5, <1>7 DEF SessionOK
<1> QED
  BY <1>3, <1>8 DEF r

\* activate changes no buffer.
LEMMA Activate ==
    ASSUME NEW T, NEW s, SessionOK(s, T), NEW p \in Paths
    PROVE  LET r == activate(s, p)
           IN  /\ SessionOK(r, T)
               /\ r.buffers = s.buffers
<1> DEFINE r == activate(s, p)
<1>1. CASE ~In(s.order, p)
  BY <1>1 DEF activate
<1>2. CASE In(s.order, p)
  <2>1. /\ DOMAIN r = {"order", "active", "buffers"}
        /\ r.order = s.order /\ r.buffers = s.buffers /\ r.active = p
    BY <1>2 DEF activate, SessionOK
  <2> HIDE DEF r
  <2>2. p \in Open(s) /\ Open(r) = Open(s)
    BY <1>2, <2>1 DEF SessionOK, Open
  <2>3. SessionOK(r, T)
    BY <2>1, <2>2, EditorAssumption DEF SessionOK
  <2> QED
    BY <2>1, <2>3 DEF r
<1> QED
  BY <1>1, <1>2

\* What edit, loaded and markSaved have in common: one buffer is another one.
Replaces(r, s, p, b) == r = [s EXCEPT !.buffers = [s.buffers EXCEPT ![p] = b]]

LEMMA OneBuffer ==
    ASSUME NEW T, NEW s, SessionOK(s, T), NEW p \in Open(s), NEW b \in Buffer(T),
           NEW r, Replaces(r, s, p, b)
    PROVE  /\ SessionOK(r, T)
           /\ r.active = s.active /\ Open(r) = Open(s)
           /\ r.buffers[p] = b
           /\ \A q \in Open(s) : q # p => r.buffers[q] = s.buffers[q]
<1>1. /\ DOMAIN r = {"order", "active", "buffers"}
      /\ r.order = s.order /\ r.active = s.active
      /\ r.buffers = [s.buffers EXCEPT ![p] = b]
  BY DEF SessionOK, Replaces
<1>2. /\ Open(r) = Open(s) /\ r.buffers[p] = b
      /\ \A q \in Open(s) : q # p => r.buffers[q] = s.buffers[q]
  BY <1>1 DEF Open
<1>3. SessionOK(r, T)
  BY <1>1, <1>2 DEF SessionOK
<1> QED
  BY <1>1, <1>2, <1>3

\* The set of texts grows with every keystroke.
LEMMA MoreTexts ==
    ASSUME NEW T, NEW U, T \subseteq U, NEW s
    PROVE  /\ SessionOK(s, T) => SessionOK(s, U)
           /\ StateOK(s, T) => StateOK(s, U)
<1>1. Buffer(T) \subseteq Buffer(U)
  BY DEF Buffer
<1>2. SessionOK(s, T) => SessionOK(s, U)
  BY <1>1 DEF SessionOK
<1>3. StateOK(s, T) => StateOK(s, U)
  <2> SUFFICES ASSUME StateOK(s, T) PROVE StateOK(s, U)
    OBVIOUS
  <2>1. Tab(T) \subseteq Tab(U) /\ s.tabs \in Seq(Tab(T))
    BY DEF StateOK, State, Tab
  <2>2. s.tabs \in Seq(Tab(U))
    <3>1. Len(s.tabs) \in Nat /\ \A i \in 1..Len(s.tabs) : s.tabs[i] \in Tab(U)
      BY <2>1, ElementOfSeq
    <3>2. s.tabs = [i \in 1..Len(s.tabs) |-> s.tabs[i]]
      BY <2>1
    <3> QED
      BY <3>1, <3>2
  <2>3. s = [tabs |-> s.tabs, active |-> s.active] /\ s.active \in Paths \cup {Nowhere}
    BY DEF StateOK, State
  <2>4. s \in State(U)
    BY <2>2, <2>3 DEF State
  <2> QED
    BY <2>4 DEF StateOK
<1> QED
  BY <1>2, <1>3

\* edit changes the text of one buffer and not what is known to be saved.
LEMMA EditBuffer ==
    ASSUME NEW T, NEW s, SessionOK(s, T), NEW p \in Open(s), NEW text \in T, text # None
    PROVE  LET r == edit(s, p, text)
           IN  /\ SessionOK(r, T)
               /\ r.active = s.active /\ Open(r) = Open(s)
               /\ r.buffers[p].text = text /\ r.buffers[p].saved = s.buffers[p].saved
               /\ \A q \in Open(s) : q # p => r.buffers[q] = s.buffers[q]
<1> DEFINE b == [text |-> text, saved |-> s.buffers[p].saved]
           r == edit(s, p, text)
<1>1. s.buffers[p] \in Buffer(T)
  BY DEF SessionOK
<1>2. [s.buffers[p] EXCEPT !.text = text] = b
  BY <1>1 DEF Buffer
<1>3. r = [s EXCEPT !.buffers = [s.buffers EXCEPT ![p] = [s.buffers[p] EXCEPT !.text = text]]]
  BY DEF edit
<1>4. Replaces(r, s, p, b)
  BY <1>2, <1>3 DEF Replaces
<1>5. b \in Buffer(T)
  BY <1>1 DEF Buffer
<1>6. b.text = text /\ b.saved = s.buffers[p].saved
  OBVIOUS
<1> HIDE DEF r, b
<1>7. /\ SessionOK(r, T)
      /\ r.active = s.active /\ Open(r) = Open(s)
      /\ r.buffers[p] = b
      /\ \A q \in Open(s) : q # p => r.buffers[q] = s.buffers[q]
  BY <1>4, <1>5, OneBuffer
<1> QED
  BY <1>6, <1>7 DEF r

\* loaded sets what is saved, and the text only where there is none.
LEMMA LoadedBuffer ==
    ASSUME NEW T, NEW s, SessionOK(s, T), NEW p \in Open(s), NEW content \in T, content # None
    PROVE  LET r == loaded(s, p, content)
           IN  /\ SessionOK(r, T)
               /\ r.active = s.active /\ Open(r) = Open(s)
               /\ r.buffers[p].text = IF s.buffers[p].text = None THEN content
                                                                 ELSE s.buffers[p].text
               /\ r.buffers[p].saved = content
               /\ \A q \in Open(s) : q # p => r.buffers[q] = s.buffers[q]
<1> DEFINE b == [text  |-> IF s.buffers[p].text = None THEN content ELSE s.buffers[p].text,
                 saved |-> content]
           r == loaded(s, p, content)
<1>1. s.buffers[p] \in Buffer(T)
  BY DEF SessionOK
<1>2. Replaces(r, s, p, b)
  BY DEF loaded, Replaces
<1>3. b \in Buffer(T)
  BY <1>1 DEF Buffer
<1>4. /\ b.text = IF s.buffers[p].text = None THEN content ELSE s.buffers[p].text
      /\ b.saved = content
  OBVIOUS
<1> HIDE DEF r, b
<1>5. /\ SessionOK(r, T)
      /\ r.active = s.active /\ Open(r) = Open(s)
      /\ r.buffers[p] = b
      /\ \A q \in Open(s) : q # p => r.buffers[q] = s.buffers[q]
  BY <1>2, <1>3, OneBuffer
<1> QED
  BY <1>4, <1>5 DEF r

\* markSaved sets both.
LEMMA MarkSavedBuffer ==
    ASSUME NEW T, NEW s, SessionOK(s, T), NEW p \in Open(s), NEW text \in T, text # None
    PROVE  LET r == markSaved(s, p, text)
           IN  /\ SessionOK(r, T)
               /\ r.active = s.active /\ Open(r) = Open(s)
               /\ r.buffers[p].text = text /\ r.buffers[p].saved = text
               /\ \A q \in Open(s) : q # p => r.buffers[q] = s.buffers[q]
<1> DEFINE b == [text |-> text, saved |-> text]
           r == markSaved(s, p, text)
<1>1. Replaces(r, s, p, b)
  BY DEF markSaved, Replaces
<1>2. b \in Buffer(T)
  BY DEF Buffer
<1>3. b.text = text /\ b.saved = text
  OBVIOUS
<1> HIDE DEF r, b
<1>4. /\ SessionOK(r, T)
      /\ r.active = s.active /\ Open(r) = Open(s)
      /\ r.buffers[p] = b
      /\ \A q \in Open(s) : q # p => r.buffers[q] = s.buffers[q]
  BY <1>1, <1>2, OneBuffer
<1> QED
  BY <1>3, <1>4 DEF r

\* renamePath moves one buffer to a path that may or may not be open.
LEMMA RenamePath ==
    ASSUME NEW T, NEW s, SessionOK(s, T), NEW from \in Open(s), NEW to \in Paths, from # to
    PROVE  LET r == renamePath(s, from, to)
           IN  /\ SessionOK(r, T)
               /\ r.active = IF s.active = from THEN to ELSE s.active
               /\ Open(r) = (Open(s) \ {from}) \cup {to}
               /\ r.buffers[to] = s.buffers[from]
               /\ \A q \in Open(s) : q \notin {from, to} => r.buffers[q] = s.buffers[q]
<1> DEFINE r == renamePath(s, from, to)
           o == [i \in 1..Len(s.order) |-> IF s.order[i] = from THEN to ELSE s.order[i]]
<1>0. s.order \in Seq(Paths) /\ Len(s.order) \in Nat
      /\ \A i \in 1..Len(s.order) : s.order[i] \in Paths
  BY ElementOfSeq DEF SessionOK
<1>1. /\ DOMAIN r = {"order", "active", "buffers"}
      /\ r.order = o
      /\ r.active = IF s.active = from THEN to ELSE s.active
      /\ r.buffers = With(Without(s.buffers, from), to, s.buffers[from])
  BY DEF renamePath
<1>2. /\ Open(r) = (Open(s) \ {from}) \cup {to}
      /\ r.buffers[to] = s.buffers[from]
      /\ \A q \in Open(s) : q \notin {from, to} => r.buffers[q] = s.buffers[q]
  <2> HIDE DEF r, o
  <2> QED
    BY <1>1 DEF With, Without, Open
<1>3. o \in Seq(Paths) /\ Len(o) = Len(s.order)
  BY <1>0
<1>4. \A q : In(o, q) <=> (In(s.order, q) /\ q # from) \/ (q = to /\ In(s.order, from))
  <2>1. \A i \in 1..Len(s.order) : o[i] = IF s.order[i] = from THEN to ELSE s.order[i]
    OBVIOUS
  <2> HIDE DEF r, o
  <2> QED
    BY <1>3, <2>1 DEF In
<1> HIDE DEF r, o
<1>5. \A q \in Paths : In(o, q) <=> q \in Open(r)
  BY <1>2, <1>4 DEF SessionOK
<1>6. \A q \in Open(r) : r.buffers[q] \in Buffer(T)
  BY <1>2 DEF SessionOK
<1>7. r.active \in Open(r) /\ r.active # Nowhere
  <2>1. s.order # <<>>
    BY <1>0, SomeTab DEF SessionOK
  <2>2. s.active # Nowhere /\ s.active \in Open(s)
    BY <2>1 DEF SessionOK
  <2>3. to # Nowhere
    BY EditorAssumption
  <2> QED
    BY <1>1, <1>2, <2>2, <2>3
<1>8. SessionOK(r, T)
  <2>1. o # <<>> => s.order # <<>>
    BY <1>0, <1>3, EmptySeq
  <2> QED
    BY <1>1, <1>2, <1>3, <1>5, <1>6, <1>7, <2>1 DEF SessionOK
<1> QED
  BY <1>1, <1>2, <1>8 DEF r

\* toPersisted has one tab per buffer, with the draft of that buffer.
LEMMA ToPersisted ==
    ASSUME NEW T, NEW s, SessionOK(s, T)
    PROVE  LET st == toPersisted(s)
           IN  /\ StateOK(st, T)
               /\ \A p \in Paths :
                     p \in Open(s) <=> \E i \in 1..Len(st.tabs) : st.tabs[i].path = p
               /\ \A i \in 1..Len(st.tabs) : st.tabs[i].draft = draftOf(s, st.tabs[i].path)
<1> DEFINE st == toPersisted(s)
           n  == Len(s.order)
<1>0. /\ s.order \in Seq(Paths) /\ n \in Nat
      /\ \A i \in 1..n : s.order[i] \in Paths
  BY ElementOfSeq DEF SessionOK
<1>1. \A p : draftOf(s, p) \in T \cup {None}
  BY DEF draftOf, isDirty, SessionOK, Buffer
<1> DEFINE tabs == [i \in 1..n |-> [path |-> s.order[i], draft |-> draftOf(s, s.order[i])]]
<1>2. st = [tabs |-> tabs, active |-> s.active]
  BY DEF toPersisted
<1> HIDE DEF st, n
<1>3. /\ tabs \in Seq(Tab(T)) /\ Len(tabs) = n
      /\ \A i \in 1..n : tabs[i].path = s.order[i] /\ tabs[i].draft = draftOf(s, s.order[i])
  <2>1. \A i \in 1..n : [path |-> s.order[i], draft |-> draftOf(s, s.order[i])]
                           \in Tab(T)
    BY <1>0, <1>1 DEF Tab
  <2> QED
    BY <1>0, <2>1
<1> HIDE DEF tabs
<1>4. \A p \in Paths : p \in Open(s) <=> \E i \in 1..n : s.order[i] = p
  BY DEF SessionOK, In, n
<1>5. st.tabs = tabs /\ \A i \in 1..n : tabs[i].draft = draftOf(s, tabs[i].path)
  BY <1>2, <1>3
<1>6. StateOK(st, T)
  <2>1. \A i, j \in 1..Len(tabs) : tabs[i].path = tabs[j].path => tabs[i].draft = tabs[j].draft
    BY <1>3, <1>5
  <2>2. s.active \in Paths \cup {Nowhere}
    BY DEF SessionOK
  <2>3. st \in State(T)
    BY <1>2, <1>3, <2>2 DEF State
  <2> QED
    BY <1>5, <2>1, <2>3 DEF StateOK
<1> QED
  BY <1>3, <1>4, <1>5, <1>6 DEF st

\* _with_valid_active changes no tab.
LEMMA ValidActive ==
    ASSUME NEW T, NEW st, StateOK(st, T)
    PROVE  StateOK(_with_valid_active(st), T) /\ _with_valid_active(st).tabs = st.tabs
<1> DEFINE r == _with_valid_active(st)
<1>1. st.tabs # <<>> => st.tabs[1].path \in Paths
  <2> SUFFICES ASSUME st.tabs # <<>> PROVE st.tabs[1].path \in Paths
    OBVIOUS
  <2>1. st.tabs \in Seq(Tab(T))
    BY DEF StateOK, State
  <2>2. 1 \in 1..Len(st.tabs)
    BY <2>1, EmptySeq
  <2>3. st.tabs[1] \in Tab(T)
    BY <2>1, <2>2, ElementOfSeq
  <2> QED
    BY <2>3 DEF Tab
<1>2. r.tabs = st.tabs /\ r \in State(T)
  BY <1>1 DEF _with_valid_active, StateOK, State
<1> QED
  BY <1>2 DEF StateOK

\* read_state returns the stored tabs whose file exists, and no other.
LEMMA ReadState ==
    ASSUME NEW T, StateOK(stored, T)
    PROVE  /\ StateOK(read_state, T)
           /\ \A i \in 1..Len(read_state.tabs) :
                 /\ Exists(read_state.tabs[i].path)
                 /\ \E j \in 1..Len(stored.tabs) : read_state.tabs[i] = stored.tabs[j]
           /\ \A j \in 1..Len(stored.tabs) :
                 Exists(stored.tabs[j].path)
                 => \E i \in 1..Len(read_state.tabs) : read_state.tabs[i] = stored.tabs[j]
<1> DEFINE I  == {i \in 1..Len(stored.tabs) : Exists(stored.tabs[i].path)}
           t  == At(stored.tabs, I)
           st == [stored EXCEPT !.tabs = t]
           X  == Tab(T)
<1>1. /\ t \in Seq(X)
      /\ \A n \in 1..Len(t) : \E i \in I : t[n] = stored.tabs[i]
      /\ \A i \in I : \E n \in 1..Len(t) : t[n] = stored.tabs[i]
  <2>1. I \in SUBSET (1..Len(stored.tabs)) /\ stored.tabs \in Seq(X)
    BY DEF StateOK, State
  <2> HIDE DEF I, X
  <2> QED
    BY <2>1, FilterKeeps
<1>2. read_state = _with_valid_active(st)
  BY DEF read_state
<1>3. st \in State(T) /\ st.tabs = t
  <2> HIDE DEF t
  <2> QED
    BY <1>1 DEF StateOK, State
<1>4. \A n \in 1..Len(t) : Exists(t[n].path) /\ \E i \in 1..Len(stored.tabs) : t[n] = stored.tabs[i]
  <2> HIDE DEF t
  <2> QED
    BY <1>1
<1>5. \A i \in 1..Len(stored.tabs) : Exists(stored.tabs[i].path)
                                     => \E n \in 1..Len(t) : t[n] = stored.tabs[i]
  <2> HIDE DEF t
  <2> QED
    BY <1>1
<1> HIDE DEF t, st, I
<1>6. StateOK(st, T)
  <2>1. \A k, l \in 1..Len(stored.tabs) : stored.tabs[k].path = stored.tabs[l].path
                                           => stored.tabs[k].draft = stored.tabs[l].draft
    BY DEF StateOK
  <2>2. ASSUME NEW i \in 1..Len(t), NEW j \in 1..Len(t), t[i].path = t[j].path
        PROVE  t[i].draft = t[j].draft
    <3>1. PICK k \in 1..Len(stored.tabs) : t[i] = stored.tabs[k]
      BY <1>4
    <3>2. PICK l \in 1..Len(stored.tabs) : t[j] = stored.tabs[l]
      BY <1>4
    <3> QED
      BY <2>1, <2>2, <3>1, <3>2
  <2> QED
    BY <1>1, <1>3, <2>2 DEF StateOK
<1>7. StateOK(read_state, T) /\ read_state.tabs = t
  BY <1>2, <1>3, <1>6, ValidActive
<1> QED
  BY <1>4, <1>5, <1>7

\* fromPersisted has one buffer per stored tab, with its draft and nothing known
\* to be saved.
LEMMA FromPersisted ==
    ASSUME NEW T, NEW st, StateOK(st, T)
    PROVE  LET r == fromPersisted(st)
           IN  /\ SessionOK(r, T)
               /\ \A p \in Paths : p \in Open(r) <=> \E i \in 1..Len(st.tabs) : st.tabs[i].path = p
               /\ \A i \in 1..Len(st.tabs) :
                     /\ r.buffers[st.tabs[i].path].text = st.tabs[i].draft
                     /\ r.buffers[st.tabs[i].path].saved = None
<1> DEFINE r == fromPersisted(st)
           n == Len(st.tabs)
<1>0. /\ st.tabs \in Seq(Tab(T)) /\ n \in Nat
      /\ \A i \in 1..n : st.tabs[i] \in Tab(T)
  <2>1. st.tabs \in Seq(Tab(T))
    BY DEF StateOK, State
  <2> QED
    BY <2>1, ElementOfSeq
<1>1. CASE st.tabs = <<>>
  <2>1. r = [order |-> <<>>, active |-> Nowhere, buffers |-> [p \in {} |-> <<>>]]
    BY <1>1 DEF fromPersisted, EMPTY_SESSION
  <2>2. /\ DOMAIN r = {"order", "active", "buffers"}
        /\ r.order = <<>> /\ r.active = Nowhere /\ DOMAIN r.buffers = {}
    BY <2>1
  <2>3. n = 0 /\ Len(<<>>) = 0 /\ <<>> \in Seq(Paths)
    BY <1>1, EmptySeq
  <2>4. \A p : ~In(<<>>, p)
    BY <2>3 DEF In
  <2> HIDE DEF r
  <2>5. SessionOK(r, T) /\ Open(r) = {}
    BY <2>2, <2>3, <2>4 DEF SessionOK, Open
  <2> QED
    BY <2>3, <2>5 DEF r
<1>2. CASE st.tabs # <<>>
  <2> DEFINE all == {st.tabs[i] : i \in 1..Len(st.tabs)}
             of(p) == CHOOSE t \in all : t.path = p
  <2>1. /\ DOMAIN r = {"order", "active", "buffers"}
        /\ r.order = [i \in 1..n |-> st.tabs[i].path]
        /\ r.active = IF st.active \in TabPaths(st) THEN st.active ELSE st.tabs[1].path
        /\ r.buffers = [p \in TabPaths(st) |-> [text |-> of(p).draft, saved |-> None]]
    BY <1>2 DEF fromPersisted
  <2>2. 1 \in 1..n
    BY <1>0, <1>2, EmptySeq
  <2>3. \A i \in 1..n : of(st.tabs[i].path).draft = st.tabs[i].draft
    <3> SUFFICES ASSUME NEW i \in 1..n PROVE of(st.tabs[i].path).draft = st.tabs[i].draft
      OBVIOUS
    <3>1. of(st.tabs[i].path) \in all /\ of(st.tabs[i].path).path = st.tabs[i].path
      OBVIOUS
    <3> HIDE DEF of
    <3>2. PICK j \in 1..n : of(st.tabs[i].path) = st.tabs[j]
      BY <3>1
    <3> QED
      BY <3>1, <3>2 DEF StateOK
  <2>4. \A p : p \in TabPaths(st) <=> \E i \in 1..n : st.tabs[i].path = p
    BY DEF TabPaths
  <2> HIDE DEF r, of, all, n
  <2>5. /\ Open(r) = TabPaths(st)
        /\ \A i \in 1..n : /\ r.buffers[st.tabs[i].path].text = st.tabs[i].draft
                           /\ r.buffers[st.tabs[i].path].saved = None
                           /\ r.buffers[st.tabs[i].path]
                                 = [text |-> st.tabs[i].draft, saved |-> None]
    BY <2>1, <2>3, <2>4 DEF Open
  <2>6. \A p \in Open(r) : /\ p \in Paths
                           /\ r.buffers[p] \in Buffer(T) /\ r.buffers[p].saved = None
    <3> SUFFICES ASSUME NEW p \in Open(r)
        PROVE p \in Paths /\ r.buffers[p] \in Buffer(T) /\ r.buffers[p].saved = None
      OBVIOUS
    <3>1. PICK i \in 1..n : st.tabs[i].path = p
      BY <2>4, <2>5
    <3>2. st.tabs[i] \in Tab(T)
      BY <1>0
    <3>3. [text |-> st.tabs[i].draft, saved |-> None] \in Buffer(T)
      BY <3>2 DEF Buffer, Tab
    <3> QED
      BY <2>5, <3>1, <3>2, <3>3 DEF Tab
  <2>7. /\ r.order \in Seq(Paths) /\ Len(r.order) = n
        /\ \A i \in 1..n : r.order[i] = st.tabs[i].path
    <3>1. \A i \in 1..n : st.tabs[i].path \in Paths
      BY <1>0 DEF Tab
    <3> QED
      BY <1>0, <2>1, <3>1
  <2>8. \A p \in Paths : In(r.order, p) <=> p \in Open(r)
    BY <2>4, <2>5, <2>7 DEF In
  <2>9. r.active \in Open(r) /\ r.active # Nowhere
    <3>1. r.active \in Open(r)
      BY <2>1, <2>2, <2>4, <2>5
    <3> QED
      BY <2>6, <3>1, EditorAssumption
  <2>10. SessionOK(r, T)
    BY <2>1, <2>6, <2>7, <2>8, <2>9 DEF SessionOK
  <2> QED
    BY <2>4, <2>5, <2>10 DEF r, n
<1> QED
  BY <1>1, <1>2

-----------------------------------------------------------------------------
(* Types.                                                                  *)

\* The texts typed so far.
Written == 0..edits

Save == [id : Nat, visit : 0..visit, path : Paths, text : Written,
         kind : {"save", "run", "create"}, stage : {"sent", "ok", "failed"}]
Job  == [id : Nat, visit : 0..visit, path : Paths, shown : Written \cup {None},
         unsaved : BOOLEAN]
Read == [path : Paths \cup {Nowhere}, got : Written \cup {None}]
Moving == [visit : 0..visit, from : Paths \cup {Nowhere}, to : Paths \cup {Nowhere},
           stage : {"idle", "sent", "done"}]

CountsOK == edits \in 0..MaxEdits /\ clicks \in Nat /\ visit \in Nat
FlagsOK  == here \in BOOLEAN /\ restoring \in BOOLEAN /\ armed \in BOOLEAN /\ lossy \in BOOLEAN
FilesOK  == /\ file \in [Paths -> Written \cup {None}]
            /\ work \in [Paths -> Written \cup {None}]
            /\ muddled \subseteq Paths
PageOK   == /\ SessionOK(session, Written)
            /\ reading \in Read
            /\ reading.path = IF Wants(session) THEN session.active ELSE Nowhere
StoreOK  == /\ StateOK(stored, Written)
            /\ puts \in Seq(State(Written))
            /\ \A i \in 1..Len(puts) : StateOK(puts[i], Written)
WiresOK  == /\ saves \subseteq Save
            /\ runs \subseteq Job
            /\ moving \in Moving
            /\ moving.stage # "idle" => moving.from \in Paths /\ moving.to # moving.from
Types == CountsOK /\ FlagsOK /\ FilesOK /\ PageOK /\ StoreOK /\ WiresOK

\* The types in full imply the type invariant.
LEMMA TypesAreTypeOK == Types => TypeOK
<1> SUFFICES ASSUME Types PROVE TypeOK
  OBVIOUS
<1>1. Written \subseteq Texts
  BY EditorAssumption DEF Types, CountsOK, Written, Texts
<1>2. \A p \in Open(session) : p \in Paths /\ session.buffers[p] \in Buffers
  BY <1>1 DEF Types, PageOK, SessionOK, Buffer, Buffers
<1>3. /\ file \in [Paths -> Texts \cup {None}]
      /\ work \in [Paths -> Texts \cup {None}]
  BY <1>1 DEF Types, FilesOK
<1> QED
  BY <1>2, <1>3 DEF Types, PageOK, FilesOK, SessionOK, TypeOK

\* The session of a page that was just loaded.
LEMMA EmptySession ==
    ASSUME NEW T
    PROVE  /\ SessionOK(EMPTY_SESSION, T) /\ Open(EMPTY_SESSION) = {}
           /\ EMPTY_SESSION.active = Nowhere /\ ~Wants(EMPTY_SESSION)
<1> DEFINE s == EMPTY_SESSION
<1>1. /\ DOMAIN s = {"order", "active", "buffers"}
      /\ s.order = <<>> /\ s.active = Nowhere /\ DOMAIN s.buffers = {}
  BY DEF EMPTY_SESSION
<1>2. Len(<<>>) = 0 /\ <<>> \in Seq(Paths) /\ \A p : ~In(<<>>, p)
  BY EmptySeq DEF In
<1> HIDE DEF s
<1>3. SessionOK(s, T) /\ Open(s) = {} /\ ~Wants(s)
  BY <1>1, <1>2 DEF SessionOK, Open, Wants, needsLoad
<1> QED
  BY <1>1, <1>3 DEF s

\* What the effects do after setSession: a read that goes on belongs to the tab
\* that is still active and still without its content.
LEMMA ShownSession ==
    ASSUME PageOK, FlagsOK, NEW s, SessionOK(s, Written), session' = s, reading' = Reread(s)
    PROVE  /\ SessionOK(session', Written) /\ reading' \in Read
           /\ reading'.path = IF Wants(session') THEN session'.active ELSE Nowhere
           /\ reading'.got # None =>
                 reading' = reading /\ session'.active = session.active
<1>1. s.active \in Paths \cup {Nowhere}
  BY DEF SessionOK
<1>2. Wants(s) \in BOOLEAN /\ Wants(session) \in BOOLEAN
  BY DEF Wants, needsLoad
<1>3. CASE <<s.active, Wants(s)>> = <<session.active, Wants(session)>>
  <2>1. reading' = reading /\ s.active = session.active /\ Wants(s) = Wants(session)
    BY <1>3 DEF Reread
  <2> QED
    BY <2>1 DEF PageOK
<1>4. CASE <<s.active, Wants(s)>> # <<session.active, Wants(session)>>
  <2>1. reading' = IF Wants(s) THEN [path |-> s.active, got |-> None] ELSE NoRead
    BY <1>4 DEF Reread
  <2>2. reading'.path = (IF Wants(s) THEN s.active ELSE Nowhere) /\ reading'.got = None
    BY <2>1 DEF NoRead
  <2>3. reading' \in Read
    BY <1>1, <2>1 DEF NoRead, Read
  <2> QED
    BY <2>2, <2>3
<1> QED
  BY <1>3, <1>4

\* The page waits only for the content of its active tab, and only when that has
\* none.
LEMMA ReadingIsWanted ==
    ASSUME PageOK, reading.path # Nowhere
    PROVE  /\ reading.path = session.active /\ reading.path \in Open(session)
           /\ session.buffers[reading.path].saved = None
BY DEF PageOK, Wants, needsLoad

\* A later text or a later visit only widens the types.
LEMMA MoreTime ==
    ASSUME CountsOK, CountsOK', edits <= edits', visit <= visit'
    PROVE  /\ Written \subseteq Written' /\ Save \subseteq Save' /\ Job \subseteq Job'
           /\ Read \subseteq Read' /\ Moving \subseteq Moving'
<1>1. Written \subseteq Written' /\ 0..visit \subseteq 0..visit'
  BY DEF CountsOK, Written
<1>2. Save \subseteq Save'
  BY <1>1 DEF Save
<1>3. Job \subseteq Job'
  BY <1>1 DEF Job
<1>4. Read \subseteq Read' /\ Moving \subseteq Moving'
  BY <1>1 DEF Read, Moving
<1> QED
  BY <1>1, <1>2, <1>3, <1>4

\* The types hold at first.
LEMMA InitTypes == Init => Types
<1> SUFFICES ASSUME Init PROVE Types
  OBVIOUS
<1> USE EditorAssumption
<1>1. edits \in {0, 1} /\ edits <= MaxEdits /\ MaxEdits \in Nat
  BY DEF Init
<1>2. CountsOK /\ FlagsOK
  <2>1. clicks = 0 /\ visit = 0
    BY DEF Init
  <2>2. CountsOK
    BY <1>1, <2>1 DEF CountsOK
  <2>3. here = FALSE /\ restoring = FALSE /\ armed = FALSE /\ lossy = FALSE
    BY DEF Init
  <2> QED
    BY <2>2, <2>3 DEF FlagsOK
<1>3. file \in [Paths -> Written \cup {None}] /\ work \in [Paths -> Written \cup {None}]
  <2>1. {0, edits} \subseteq Written
    BY <1>1 DEF Written
  <2>2. \A p \in Paths : file[p] \in {None, 0}
    BY DEF Init
  <2>3. file \in [Paths -> Written \cup {None}]
    BY <2>1, <2>2 DEF Init
  <2>4. \A p \in Paths : (IF edits = 1 /\ p = stored.active THEN 1 ELSE file[p]) \in Written \cup {None}
    BY <2>1, <2>3
  <2> QED
    BY <2>3, <2>4 DEF Init
<1>4. PageOK
  <2>1. NoRead \in Read /\ NoRead.path = Nowhere
    BY DEF NoRead, Read
  <2> QED
    BY <2>1, EmptySession DEF Init, PageOK
<1>5. StoreOK
  <2>1. StateOK(stored, Written)
    <3>1. CASE stored = EMPTY_STATE
      <4>1. <<>> \in Seq(Tab(Written)) /\ Len(<<>>) = 0
        BY EmptySeq
      <4> QED
        BY <3>1, <4>1 DEF EMPTY_STATE, StateOK, State
    <3>2. CASE stored # EMPTY_STATE
      <4>1. PICK p \in Paths, d \in {None, 1} :
               stored = [tabs |-> <<[path |-> p, draft |-> d]>>, active |-> p]
        BY <3>2 DEF Init, LeftBehind
      <4>2. d = 1 => edits = 1
        BY <4>1 DEF Init
      <4>3. [path |-> p, draft |-> d] \in Tab(Written)
        BY <4>2 DEF Tab, Written
      <4>4. <<[path |-> p, draft |-> d]>> \in Seq(Tab(Written)) /\ Len(stored.tabs) = 1
        BY <4>1, <4>3
      <4> QED
        BY <4>1, <4>4 DEF StateOK, State
    <3> QED
      BY <3>1, <3>2
  <2>2. puts = <<>> /\ <<>> \in Seq(State(Written)) /\ Len(<<>>) = 0
    BY EmptySeq DEF Init
  <2> QED
    BY <2>1, <2>2 DEF StoreOK
<1>6. WiresOK
  BY DEF Init, WiresOK, Still, Moving
<1>7. muddled = {}
  BY DEF Init
<1> QED
  BY <1>2, <1>3, <1>4, <1>5, <1>6, <1>7 DEF Types, FilesOK

\* Showing another session keeps the types of the page, and starts the timer when
\* anything changed.
LEMMA ShowsTypes ==
    ASSUME PageOK, FlagsOK, UNCHANGED edits, NEW s, SessionOK(s, Written), Shows(s)
    PROVE  /\ PageOK' /\ armed' \in BOOLEAN
           /\ session' = s
           /\ reading'.got # None => reading' = reading /\ session'.active = session.active
           /\ armed' \/ restoring \/ session' = session
           /\ restoring => armed' = armed
<1>1. /\ session' = s /\ reading' = Reread(s)
      /\ armed' = (armed \/ (~restoring /\ s # session))
  BY DEF Shows
<1>2. Written' = Written /\ Read' = Read
  BY DEF Written, Read
<1>3. /\ SessionOK(session', Written) /\ reading' \in Read
      /\ reading'.path = IF Wants(session') THEN session'.active ELSE Nowhere
      /\ reading'.got # None => reading' = reading /\ session'.active = session.active
  BY <1>1, ShownSession
<1>4. PageOK'
  BY <1>2, <1>3 DEF PageOK
<1>5. armed' \in BOOLEAN /\ (armed' \/ restoring \/ session' = session) /\ (restoring => armed' = armed)
  BY <1>1 DEF FlagsOK
<1> QED
  BY <1>1, <1>3, <1>4, <1>5

\* The texts there are stay the texts there are, except when one is typed.
LEMMA SameTexts ==
    ASSUME UNCHANGED <<edits, visit>>
    PROVE  /\ Written' = Written /\ Read' = Read /\ Save' = Save /\ Job' = Job
           /\ Moving' = Moving
BY DEF Written, Read, Save, Job, Moving

\* What a buffer holds.
LEMMA TextOf ==
    ASSUME Types, NEW p \in Open(session)
    PROVE  /\ p \in Paths
           /\ session.buffers[p].text \in Written \cup {None}
           /\ session.buffers[p].saved \in Written \cup {None}
           /\ session.buffers[p].saved # None => session.buffers[p].text # None
BY DEF Types, PageOK, SessionOK, Buffer

\* Every step keeps the types: the life of a page.
LEMMA LoadTypes == Types /\ Load => Types'
<1> SUFFICES ASSUME Types, Load PROVE Types'
  OBVIOUS
<1>1. /\ visit' = visit + 1 /\ here' = TRUE /\ restoring' = TRUE /\ armed' = FALSE
      /\ session' = EMPTY_SESSION /\ reading' = NoRead
      /\ UNCHANGED <<file, stored, saves, runs, puts, moving, edits, clicks, work, muddled, lossy>>
  BY DEF Load, serverVars, wires, observers
<1>2. CountsOK' /\ edits <= edits' /\ visit <= visit' /\ Written' = Written
  BY <1>1 DEF Types, CountsOK, Written
<1>3. /\ Save \subseteq Save' /\ Job \subseteq Job' /\ Moving \subseteq Moving'
  BY <1>2, MoreTime DEF Types
<1>4. NoRead \in Read' /\ NoRead.path = Nowhere
  BY DEF NoRead, Read
<1>5. PageOK'
  BY <1>1, <1>4, EmptySession DEF PageOK
<1>6. StoreOK' /\ FilesOK'
  BY <1>1, <1>2 DEF Types, StoreOK, FilesOK
<1>7. WiresOK'
  BY <1>1, <1>3 DEF Types, WiresOK
<1>8. FlagsOK'
  BY <1>1 DEF Types, FlagsOK
<1> QED
  BY <1>2, <1>5, <1>6, <1>7, <1>8 DEF Types

\* What the server answers, as a session.
LEMMA RestoredSession ==
    ASSUME Types
    PROVE  LET s == fromPersisted(read_state)
           IN  /\ SessionOK(s, Written)
               /\ \A p \in Paths :
                     p \in Open(s) <=> /\ Exists(p)
                                       /\ \E i \in 1..Len(stored.tabs) : stored.tabs[i].path = p
               /\ \A i \in 1..Len(stored.tabs) :
                     Exists(stored.tabs[i].path)
                     => /\ s.buffers[stored.tabs[i].path].text = stored.tabs[i].draft
                        /\ s.buffers[stored.tabs[i].path].saved = None
<1> DEFINE s == fromPersisted(read_state)
<1>1. StateOK(stored, Written)
  BY DEF Types, StoreOK
<1>2. /\ StateOK(read_state, Written)
      /\ \A i \in 1..Len(read_state.tabs) :
            /\ Exists(read_state.tabs[i].path)
            /\ \E j \in 1..Len(stored.tabs) : read_state.tabs[i] = stored.tabs[j]
      /\ \A j \in 1..Len(stored.tabs) :
            Exists(stored.tabs[j].path)
            => \E i \in 1..Len(read_state.tabs) : read_state.tabs[i] = stored.tabs[j]
  BY <1>1, ReadState
<1>3. /\ SessionOK(s, Written)
      /\ \A p \in Paths :
            p \in Open(s) <=> \E i \in 1..Len(read_state.tabs) : read_state.tabs[i].path = p
      /\ \A i \in 1..Len(read_state.tabs) :
            /\ s.buffers[read_state.tabs[i].path].text = read_state.tabs[i].draft
            /\ s.buffers[read_state.tabs[i].path].saved = None
  BY <1>2, FromPersisted
<1> HIDE DEF s
<1>4. \A p \in Paths :
         p \in Open(s) <=> Exists(p) /\ \E i \in 1..Len(stored.tabs) : stored.tabs[i].path = p
  BY <1>2, <1>3
<1>5. \A i \in 1..Len(stored.tabs) :
         Exists(stored.tabs[i].path)
         => /\ s.buffers[stored.tabs[i].path].text = stored.tabs[i].draft
            /\ s.buffers[stored.tabs[i].path].saved = None
  BY <1>2, <1>3
<1> QED
  BY <1>3, <1>4, <1>5 DEF s

LEMMA RestoredTypes == Types /\ Restored => Types'
<1> SUFFICES ASSUME Types, Restored PROVE Types'
  OBVIOUS
<1> DEFINE s == fromPersisted(read_state)
<1>1. /\ session' = s /\ reading' = Reread(s) /\ work' = Seen(s)
      /\ restoring' = FALSE /\ armed' = TRUE /\ lossy' = FALSE
      /\ UNCHANGED <<file, stored, visit, here, saves, runs, puts, moving, edits, clicks, muddled>>
  BY DEF Restored, serverVars, wires
<1>2. SessionOK(s, Written)
  BY RestoredSession
<1> HIDE DEF s
<1>3. Written' = Written /\ Read' = Read /\ Save' = Save /\ Job' = Job /\ Moving' = Moving
  BY <1>1, SameTexts
<1>4. PageOK'
  <2>1. /\ SessionOK(session', Written) /\ reading' \in Read
        /\ reading'.path = IF Wants(session') THEN session'.active ELSE Nowhere
    BY <1>1, <1>2, ShownSession DEF Types
  <2> QED
    BY <1>3, <2>1 DEF PageOK
<1>5. work' \in [Paths -> Written \cup {None}]
  <2>1. CASE lossy
    <3>1. \A p \in Open(s) : s.buffers[p].text \in Written \cup {None}
      BY <1>2 DEF SessionOK, Buffer
    <3>2. \A p \in Paths : file[p] \in Written \cup {None}
      BY DEF Types, FilesOK
    <3> QED
      BY <1>1, <2>1, <3>1, <3>2 DEF Seen
  <2>2. CASE ~lossy
    BY <1>1, <2>2 DEF Seen, Types, FilesOK
  <2> QED
    BY <2>1, <2>2
<1>6. FilesOK' /\ StoreOK' /\ WiresOK' /\ CountsOK'
  BY <1>1, <1>3, <1>5 DEF Types, FilesOK, StoreOK, WiresOK, CountsOK
<1>7. FlagsOK'
  BY <1>1 DEF Types, FlagsOK
<1> QED
  BY <1>4, <1>6, <1>7 DEF Types

LEMMA RestoreFailedTypes == Types /\ RestoreFailed => Types'
<1> SUFFICES ASSUME Types, RestoreFailed PROVE Types'
  OBVIOUS
<1>1. /\ restoring' = FALSE /\ armed' = TRUE /\ lossy' = FALSE /\ work' = file
      /\ UNCHANGED <<file, stored, visit, here, session, reading, saves, runs, puts, moving,
                     edits, clicks, muddled>>
  BY DEF RestoreFailed, serverVars, wires
<1>2. Written' = Written /\ Read' = Read /\ Save' = Save /\ Job' = Job /\ Moving' = Moving
  BY <1>1, SameTexts
<1>3. FilesOK' /\ StoreOK' /\ WiresOK' /\ CountsOK' /\ PageOK'
  BY <1>1, <1>2 DEF Types, FilesOK, StoreOK, WiresOK, CountsOK, PageOK
<1>4. FlagsOK'
  BY <1>1 DEF Types, FlagsOK
<1> QED
  BY <1>3, <1>4 DEF Types

LEMMA ReadAnsweredTypes == Types /\ ReadAnswered => Types'
<1> SUFFICES ASSUME Types, ReadAnswered PROVE Types'
  OBVIOUS
<1>1. /\ reading.path # Nowhere /\ Exists(reading.path)
      /\ reading' = [reading EXCEPT !.got = file[reading.path]]
      /\ UNCHANGED <<file, stored, visit, here, restoring, session, armed, saves, runs, puts,
                     moving, edits, clicks, work, muddled, lossy>>
  BY DEF ReadAnswered, serverVars, wires, observers
<1>2. Written' = Written /\ Read' = Read /\ Save' = Save /\ Job' = Job /\ Moving' = Moving
  BY <1>1, SameTexts
<1>3. reading' \in Read /\ reading'.path = reading.path
  <2>1. reading.path \in Paths /\ reading \in Read
    BY <1>1 DEF Types, PageOK, Read
  <2>2. file[reading.path] \in Written \cup {None}
    BY <2>1 DEF Types, FilesOK
  <2> QED
    BY <1>1, <2>1, <2>2 DEF Read
<1>4. FilesOK' /\ StoreOK' /\ WiresOK' /\ CountsOK' /\ FlagsOK' /\ PageOK'
  BY <1>1, <1>2, <1>3 DEF Types, FilesOK, StoreOK, WiresOK, CountsOK, FlagsOK, PageOK
<1> QED
  BY <1>4 DEF Types

\* The actions that show another session and change no wire.
LEMMA ShowsOnlyTypes ==
    ASSUME Types, NEW s, SessionOK(s, Written), Shows(s),
           UNCHANGED <<file, stored, visit, here, restoring, saves, runs, puts, moving,
                       edits, clicks, lossy>>,
           work' \in [Paths -> Written \cup {None}], muddled' \subseteq Paths
    PROVE  Types'
<1>1. Written' = Written /\ Read' = Read /\ Save' = Save /\ Job' = Job /\ Moving' = Moving
  BY SameTexts
<1>2. PageOK' /\ armed' \in BOOLEAN
  BY ShowsTypes DEF Types
<1>3. FilesOK' /\ StoreOK' /\ WiresOK' /\ CountsOK'
  BY <1>1 DEF Types, FilesOK, StoreOK, WiresOK, CountsOK
<1>4. FlagsOK'
  BY <1>2 DEF Types, FlagsOK
<1> QED
  BY <1>2, <1>3, <1>4 DEF Types

\* The session after a read arrived.
LEMMA ArrivedSession ==
    ASSUME Types, ReadArrives
    PROVE  LET p == reading.path
               s == loaded(session, p, reading.got)
           IN  /\ p \in Open(session) /\ p \in Paths /\ p = session.active
               /\ session.buffers[p].saved = None
               /\ reading.got \in Written /\ reading.got # None
               /\ SessionOK(s, Written)
               /\ s.active = session.active /\ Open(s) = Open(session)
               /\ s.buffers[p].text = IF session.buffers[p].text = None THEN reading.got
                                      ELSE session.buffers[p].text
               /\ s.buffers[p].saved = reading.got
               /\ \A q \in Open(session) : q # p => s.buffers[q] = session.buffers[q]
<1>1. reading.path # Nowhere /\ reading.got # None
  BY DEF ReadArrives
<1>2. /\ reading.path \in Open(session) /\ reading.path = session.active
      /\ session.buffers[reading.path].saved = None
  BY <1>1, ReadingIsWanted DEF Types
<1>3. reading.got \in Written /\ reading.path \in Paths
  BY <1>1, <1>2 DEF Types, PageOK, Read, SessionOK
<1>4. SessionOK(session, Written)
  BY DEF Types, PageOK
<1> QED
  BY <1>1, <1>2, <1>3, <1>4, LoadedBuffer

LEMMA ReadArrivesTypes == Types /\ ReadArrives => Types'
<1> SUFFICES ASSUME Types, ReadArrives PROVE Types'
  OBVIOUS
<1>1. /\ Shows(loaded(session, reading.path, reading.got))
      /\ UNCHANGED <<file, stored, visit, here, restoring, saves, runs, puts, moving,
                     edits, clicks, work, muddled, lossy>>
  BY DEF ReadArrives, serverVars, wires, observers
<1>2. SessionOK(loaded(session, reading.path, reading.got), Written)
  BY ArrivedSession
<1>3. work' \in [Paths -> Written \cup {None}] /\ muddled' \subseteq Paths
  BY <1>1 DEF Types, FilesOK
<1> QED
  BY <1>1, <1>2, <1>3, ShowsOnlyTypes

\* Every step keeps the types: the PUTs.
LEMMA FireTypes == Types /\ Fire => Types'
<1> SUFFICES ASSUME Types, Fire PROVE Types'
  OBVIOUS
<1> DEFINE st == toPersisted(session)
<1>1. /\ armed' = FALSE /\ puts' = Append(puts, st)
      /\ UNCHANGED <<file, stored, visit, here, restoring, session, reading,
                     saves, runs, moving, edits, clicks, work, muddled, lossy>>
  BY DEF Fire, serverVars, observers
<1>2. StateOK(st, Written)
  BY ToPersisted DEF Types, PageOK
<1> HIDE DEF st
<1>3. Written' = Written /\ Read' = Read /\ Save' = Save /\ Job' = Job /\ Moving' = Moving
  BY <1>1, SameTexts
<1>4. StoreOK'
  <2>1. st \in State(Written) /\ puts \in Seq(State(Written))
    BY <1>2 DEF StateOK, Types, StoreOK
  <2>2. /\ puts' \in Seq(State(Written)) /\ Len(puts') = Len(puts) + 1 /\ Len(puts) \in Nat
        /\ \A i \in 1..Len(puts) : puts'[i] = puts[i]
        /\ puts'[Len(puts) + 1] = st
    BY <1>1, <2>1, AppendProperties
  <2>3. \A i \in 1..Len(puts') : i \in 1..Len(puts) \/ i = Len(puts) + 1
    BY <2>2
  <2>4. \A i \in 1..Len(puts') : StateOK(puts'[i], Written)
    BY <1>2, <2>2, <2>3 DEF Types, StoreOK
  <2> QED
    BY <1>1, <1>3, <2>2, <2>4 DEF Types, StoreOK
<1>5. FilesOK' /\ PageOK' /\ WiresOK' /\ CountsOK'
  BY <1>1, <1>3 DEF Types, FilesOK, PageOK, WiresOK, CountsOK
<1>6. FlagsOK'
  BY <1>1 DEF Types, FlagsOK
<1> QED
  BY <1>4, <1>5, <1>6 DEF Types

\* puts without one of its states.
LEMMA FewerPuts ==
    ASSUME StoreOK, NEW i \in 1..Len(puts),
           puts' = [j \in 1..(Len(puts) - 1) |-> IF j < i THEN puts[j] ELSE puts[j + 1]]
    PROVE  /\ puts' \in Seq(State(Written)) /\ Len(puts) \in Nat /\ Len(puts') = Len(puts) - 1
           /\ \A j \in 1..Len(puts') : StateOK(puts'[j], Written)
           /\ i = 1 /\ puts' # <<>> => puts'[Len(puts')] = puts[Len(puts)]
<1>1. puts \in Seq(State(Written)) /\ Len(puts) \in Nat /\ Len(puts) - 1 \in Nat
  BY DEF StoreOK
<1>2. \A j \in 1..(Len(puts) - 1) : j \in 1..Len(puts) /\ j + 1 \in 1..Len(puts)
  BY <1>1
<1>3. \A j \in 1..(Len(puts) - 1) :
         /\ StateOK(IF j < i THEN puts[j] ELSE puts[j + 1], Written)
         /\ (IF j < i THEN puts[j] ELSE puts[j + 1]) \in State(Written)
  BY <1>2 DEF StoreOK, StateOK
<1>4. puts' \in Seq(State(Written)) /\ Len(puts') = Len(puts) - 1
      /\ \A j \in 1..(Len(puts) - 1) : puts'[j] = IF j < i THEN puts[j] ELSE puts[j + 1]
  BY <1>1, <1>3
<1>5. \A j \in 1..Len(puts') : StateOK(puts'[j], Written)
  BY <1>3, <1>4
<1>6. ASSUME i = 1, puts' # <<>> PROVE puts'[Len(puts')] = puts[Len(puts)]
  <2>1. Len(puts') \in 1..(Len(puts) - 1)
    BY <1>1, <1>4, <1>6, EmptySeq
  <2>2. ~(Len(puts') < i)
    BY <2>1, <1>6, <1>1
  <2>3. puts'[Len(puts')] = puts[Len(puts') + 1]
    BY <1>4, <2>1, <2>2
  <2>4. Len(puts') + 1 = Len(puts)
    BY <1>1, <1>4
  <2> QED
    BY <2>3, <2>4
<1> QED
  BY <1>1, <1>4, <1>5, <1>6

LEMMA PutTypes == ASSUME NEW i \in 1..Len(puts) PROVE Types /\ Put(i) => Types'
<1> SUFFICES ASSUME Types, Put(i) PROVE Types'
  OBVIOUS
<1>1. /\ stored' = _with_valid_active(puts[i])
      /\ lossy' = (lossy \/ i > 1)
      /\ puts' = [j \in 1..(Len(puts) - 1) |-> IF j < i THEN puts[j] ELSE puts[j + 1]]
      /\ UNCHANGED <<file, visit, here, restoring, session, reading, armed,
                     saves, runs, moving, edits, clicks, work, muddled>>
  BY DEF Put, pageVars
<1>2. StateOK(puts[i], Written)
  BY DEF Types, StoreOK
<1>3. StateOK(stored', Written)
  BY <1>1, <1>2, ValidActive
<1>4. Written' = Written /\ Read' = Read /\ Save' = Save /\ Job' = Job /\ Moving' = Moving
  BY <1>1, SameTexts
<1>5. puts' \in Seq(State(Written)) /\ \A j \in 1..Len(puts') : StateOK(puts'[j], Written)
  BY <1>1, FewerPuts DEF Types
<1>6. StoreOK'
  BY <1>3, <1>4, <1>5 DEF StoreOK
<1>7. FilesOK' /\ PageOK' /\ WiresOK' /\ CountsOK'
  BY <1>1, <1>4 DEF Types, FilesOK, PageOK, WiresOK, CountsOK
<1>8. lossy' \in BOOLEAN
  BY <1>1 DEF Types, FlagsOK
<1>9. FlagsOK'
  BY <1>1, <1>8 DEF Types, FlagsOK
<1> QED
  BY <1>6, <1>7, <1>9 DEF Types

LEMMA PutLostTypes == Types /\ PutLost => Types'
<1> SUFFICES ASSUME Types, PutLost PROVE Types'
  OBVIOUS
<1>1. /\ puts # <<>> /\ puts' = Tail(puts) /\ lossy' = TRUE
      /\ UNCHANGED <<file, stored, visit, here, restoring, session, reading, armed,
                     saves, runs, moving, edits, clicks, work, muddled>>
  BY DEF PutLost, pageVars, serverVars
<1>2. Written' = Written /\ Read' = Read /\ Save' = Save /\ Job' = Job /\ Moving' = Moving
  BY <1>1, SameTexts
<1>3. StoreOK'
  <2>1. puts \in Seq(State(Written)) /\ Len(puts) \in Nat
    BY DEF Types, StoreOK
  <2>2. /\ puts' \in Seq(State(Written)) /\ Len(puts') = Len(puts) - 1
        /\ \A i \in 1..Len(puts') : puts'[i] = puts[i + 1]
    BY <1>1, <2>1, HeadTailProperties
  <2>3. \A i \in 1..Len(puts') : i + 1 \in 1..Len(puts)
    BY <2>1, <2>2
  <2>4. \A i \in 1..Len(puts') : StateOK(puts'[i], Written)
    BY <2>2, <2>3 DEF Types, StoreOK
  <2> QED
    BY <1>1, <1>2, <2>2, <2>4 DEF Types, StoreOK
<1>4. FilesOK' /\ PageOK' /\ WiresOK' /\ CountsOK'
  BY <1>1, <1>2 DEF Types, FilesOK, PageOK, WiresOK, CountsOK
<1>5. FlagsOK'
  BY <1>1 DEF Types, FlagsOK
<1> QED
  BY <1>3, <1>4, <1>5 DEF Types

LEMMA LeaveTypes == Types /\ Leave => Types'
<1> SUFFICES ASSUME Types, Leave PROVE Types'
  OBVIOUS
<1>1. /\ here' = FALSE /\ restoring' = FALSE /\ armed' = FALSE
      /\ session' = EMPTY_SESSION /\ reading' = NoRead
      /\ muddled' = muddled \cup {p \in Paths : Busy(p)}
      /\ lossy' = (lossy \/ armed \/ puts # <<>>)
      /\ UNCHANGED <<file, stored, visit, saves, runs, puts, moving, edits, clicks, work>>
  BY DEF Leave, serverVars, wires
<1>2. Written' = Written /\ Read' = Read /\ Save' = Save /\ Job' = Job /\ Moving' = Moving
  BY <1>1, SameTexts
<1>3. PageOK'
  <2>1. NoRead \in Read /\ NoRead.path = Nowhere
    BY DEF NoRead, Read
  <2> QED
    BY <1>1, <1>2, <2>1, EmptySession DEF PageOK
<1>4. muddled' \subseteq Paths
  BY <1>1 DEF Types, FilesOK
<1>5. FilesOK' /\ StoreOK' /\ WiresOK' /\ CountsOK'
  BY <1>1, <1>2, <1>4 DEF Types, FilesOK, StoreOK, WiresOK, CountsOK
<1>6. lossy' \in BOOLEAN
  BY <1>1 DEF Types, FlagsOK
<1>7. FlagsOK'
  BY <1>1, <1>6 DEF Types, FlagsOK
<1> QED
  BY <1>3, <1>5, <1>7 DEF Types

\* Edit types the next text into the active tab.
LEMMA EditedSession ==
    ASSUME Types, Edit
    PROVE  LET p == session.active
               s == edit(session, p, edits + 1)
           IN  /\ p \in Open(session) /\ p \in Paths /\ session.buffers[p].text # None
               /\ edits + 1 \in 0..MaxEdits /\ edits' = edits + 1
               /\ SessionOK(s, 0..(edits + 1))
               /\ s.active = p /\ Open(s) = Open(session)
               /\ s.buffers[p].text = edits + 1
               /\ s.buffers[p].saved = session.buffers[p].saved
               /\ \A q \in Open(session) : q # p => s.buffers[q] = session.buffers[q]
<1> DEFINE T == 0..(edits + 1)
<1>1. /\ session.active \in Open(session) /\ session.buffers[session.active].text # None
      /\ edits < MaxEdits /\ edits' = edits + 1
  BY DEF Edit
<1>2. edits \in Nat /\ MaxEdits \in Nat
  BY EditorAssumption DEF Types, CountsOK
<1>3. Written \subseteq T /\ edits + 1 \in T /\ edits + 1 # None /\ edits + 1 \in 0..MaxEdits
  BY <1>1, <1>2 DEF Written, None
<1>4. SessionOK(session, T) /\ session.active \in Paths
  <2>1. SessionOK(session, Written)
    BY DEF Types, PageOK
  <2>2. SessionOK(session, T)
    <3> HIDE DEF T
    <3> QED
      BY <1>3, <2>1, MoreTexts
  <2> QED
    BY <1>1, <2>1, <2>2 DEF SessionOK
<1> HIDE DEF T
<1>5. LET p == session.active
          s == edit(session, p, edits + 1)
      IN  /\ SessionOK(s, T)
          /\ s.active = session.active /\ Open(s) = Open(session)
          /\ s.buffers[p].text = edits + 1
          /\ s.buffers[p].saved = session.buffers[p].saved
          /\ \A q \in Open(session) : q # p => s.buffers[q] = session.buffers[q]
  BY <1>1, <1>3, <1>4, EditBuffer
<1> QED
  BY <1>1, <1>3, <1>4, <1>5 DEF T

LEMMA EditTypes == Types /\ Edit => Types'
<1> SUFFICES ASSUME Types, Edit PROVE Types'
  OBVIOUS
<1> DEFINE p == session.active
           s == edit(session, p, edits + 1)
<1>1. /\ edits' = edits + 1 /\ Shows(s)
      /\ work' = [work EXCEPT ![p] = edits + 1]
      /\ muddled' = muddled \cup {q \in {p} : Busy(q) \/ restoring}
      /\ UNCHANGED <<file, stored, visit, here, restoring, saves, runs, puts, moving,
                     clicks, lossy>>
  BY DEF Edit, serverVars, wires, Touch
<1>2. /\ p \in Paths /\ edits + 1 \in 0..MaxEdits
      /\ SessionOK(s, 0..(edits + 1))
      /\ p \in Open(session) /\ session.buffers[p].text # None
      /\ s.buffers[p].saved = session.buffers[p].saved /\ s.active = p
      /\ Open(s) = Open(session)
  BY EditedSession
<1> HIDE DEF s
<1>3. CountsOK' /\ edits <= edits' /\ visit <= visit' /\ Written' = 0..(edits + 1)
  BY <1>1, <1>2 DEF Types, CountsOK, Written
<1>4. /\ Written \subseteq Written' /\ Save \subseteq Save' /\ Job \subseteq Job'
      /\ Read \subseteq Read' /\ Moving \subseteq Moving'
  BY <1>3, MoreTime DEF Types
<1>5. PageOK'
  <2>1. /\ session' = s
        /\ Wants(s) = Wants(session) /\ s.active = session.active
    BY <1>1, <1>2 DEF Shows, Wants, needsLoad
  <2>2. reading' = reading
    BY <1>1, <2>1 DEF Shows, Reread
  <2> QED
    BY <1>2, <1>3, <1>4, <2>1, <2>2 DEF Types, PageOK
<1>6. FlagsOK'
  <2>1. armed' \in BOOLEAN
    BY <1>1 DEF Shows, Types, FlagsOK
  <2> QED
    BY <1>1, <2>1 DEF Types, FlagsOK
<1>7. FilesOK'
  <2>1. edits + 1 \in Written'
    BY <1>2, <1>3
  <2> QED
    BY <1>1, <1>2, <1>4, <2>1 DEF Types, FilesOK
<1>8. StoreOK'
  <2>1. /\ StateOK(stored, Written')
        /\ \A i \in 1..Len(puts) : StateOK(puts[i], Written')
    <3> HIDE <1>3
    <3> QED
      BY <1>4, MoreTexts DEF Types, StoreOK
  <2>2. puts \in Seq(State(Written'))
    <3>1. puts \in Seq(State(Written)) /\ Len(puts) \in Nat
      BY DEF Types, StoreOK
    <3>2. \A i \in 1..Len(puts) : puts[i] \in State(Written')
      BY <2>1 DEF StateOK
    <3>3. puts = [i \in 1..Len(puts) |-> puts[i]]
      BY <3>1
    <3> QED
      BY <3>1, <3>2, <3>3
  <2> QED
    BY <1>1, <2>1, <2>2 DEF StoreOK
<1>9. WiresOK'
  BY <1>1, <1>4 DEF Types, WiresOK
<1> QED
  BY <1>3, <1>5, <1>6, <1>7, <1>8, <1>9 DEF Types

\* Every step keeps the types: the tabs.
LEMMA OpenFileTypes == ASSUME NEW p \in Paths PROVE Types /\ OpenFile(p) => Types'
<1> SUFFICES ASSUME Types, OpenFile(p) PROVE Types'
  OBVIOUS
<1>1. /\ Shows(openTab(session, p))
      /\ muddled' = muddled \cup {q \in {p} : Busy(q) \/ restoring}
      /\ UNCHANGED <<file, stored, visit, here, restoring, saves, runs, puts, moving,
                     edits, clicks, work, lossy>>
  BY DEF OpenFile, serverVars, wires, Touch
<1>2. SessionOK(openTab(session, p), Written)
  BY OpenTab DEF Types, PageOK
<1>3. work' \in [Paths -> Written \cup {None}] /\ muddled' \subseteq Paths
  BY <1>1 DEF Types, FilesOK
<1> QED
  BY <1>1, <1>2, <1>3, ShowsOnlyTypes

LEMMA SwitchToTypes == ASSUME NEW p \in Paths PROVE Types /\ SwitchTo(p) => Types'
<1> SUFFICES ASSUME Types, SwitchTo(p) PROVE Types'
  OBVIOUS
<1>1. /\ Shows(activate(session, p))
      /\ muddled' = muddled \cup {q \in {p} : Busy(q) \/ restoring}
      /\ UNCHANGED <<file, stored, visit, here, restoring, saves, runs, puts, moving,
                     edits, clicks, work, lossy>>
  BY DEF SwitchTo, serverVars, wires, Touch
<1>2. SessionOK(activate(session, p), Written)
  BY Activate DEF Types, PageOK
<1>3. work' \in [Paths -> Written \cup {None}] /\ muddled' \subseteq Paths
  BY <1>1 DEF Types, FilesOK
<1> QED
  BY <1>1, <1>2, <1>3, ShowsOnlyTypes

LEMMA CloseTypes == ASSUME NEW p \in Paths PROVE Types /\ Close(p) => Types'
<1> SUFFICES ASSUME Types, Close(p) PROVE Types'
  OBVIOUS
<1>1. /\ Shows(closeTab(session, p))
      /\ work' = [work EXCEPT ![p] = IF isDirty(session, p) THEN file[p] ELSE @]
      /\ muddled' = muddled \cup {q \in {p} : Busy(q) \/ restoring}
      /\ UNCHANGED <<file, stored, visit, here, restoring, saves, runs, puts, moving,
                     edits, clicks, lossy>>
  BY DEF Close, serverVars, wires, Touch
<1>2. SessionOK(closeTab(session, p), Written)
  BY CloseTab DEF Types, PageOK
<1>3. work' \in [Paths -> Written \cup {None}] /\ muddled' \subseteq Paths
  BY <1>1 DEF Types, FilesOK
<1> QED
  BY <1>1, <1>2, <1>3, ShowsOnlyTypes

\* The actions that leave the session alone and send or answer a request.
LEMMA WiresOnlyTypes ==
    ASSUME Types, UNCHANGED <<stored, pageVars, puts, edits, lossy>>,
           clicks' \in Nat, file' \in [Paths -> Written \cup {None}],
           work' \in [Paths -> Written \cup {None}], muddled' \subseteq Paths,
           saves' \subseteq Save, runs' \subseteq Job, moving' \in Moving,
           moving'.stage # "idle" => moving'.from \in Paths /\ moving'.to # moving'.from
    PROVE  Types'
<1>1. Written' = Written /\ Read' = Read /\ Save' = Save /\ Job' = Job /\ Moving' = Moving
  BY SameTexts DEF pageVars
<1>2. FilesOK' /\ StoreOK' /\ WiresOK' /\ CountsOK' /\ PageOK'
  BY <1>1 DEF Types, FilesOK, StoreOK, WiresOK, CountsOK, PageOK, pageVars
<1>3. FlagsOK'
  BY DEF Types, FlagsOK, pageVars
<1> QED
  BY <1>2, <1>3 DEF Types

\* Every step keeps the types: the clicks and what the server does.
LEMMA ClickSaveTypes == Types /\ ClickSave => Types'
<1> SUFFICES ASSUME Types, ClickSave PROVE Types'
  OBVIOUS
<1> DEFINE p == session.active
           text == session.buffers[p].text
<1>1. /\ p \in Open(session) /\ text # None /\ clicks' = clicks + 1
      /\ saves' = saves \cup {Request(p, text, "save")}
      /\ muddled' = muddled \cup {q \in {p} : Busy(q) \/ restoring}
      /\ UNCHANGED <<file, stored, pageVars, runs, puts, moving, edits, work, lossy>>
  BY DEF ClickSave, Click, Touch, serverVars
<1>2. p \in Paths /\ text \in Written /\ clicks \in Nat /\ visit \in 0..visit
  BY <1>1, TextOf DEF Types, CountsOK
<1> HIDE DEF p, text
<1>3. Request(p, text, "save") \in Save
  BY <1>2 DEF Request, Save
<1>4. /\ saves' \subseteq Save /\ runs' \subseteq Job /\ moving' \in Moving /\ muddled' \subseteq Paths
      /\ moving'.stage # "idle" => moving'.from \in Paths /\ moving'.to # moving'.from
  BY <1>1, <1>2, <1>3 DEF Types, WiresOK, FilesOK
<1>5. /\ file' \in [Paths -> Written \cup {None}] /\ work' \in [Paths -> Written \cup {None}]
      /\ clicks' \in Nat
  BY <1>1, <1>2 DEF Types, FilesOK
<1> QED
  BY <1>1, <1>4, <1>5, WiresOnlyTypes

LEMMA ClickRunTypes == Types /\ ClickRun => Types'
<1> SUFFICES ASSUME Types, ClickRun PROVE Types'
  OBVIOUS
<1> DEFINE p == session.active
           text == session.buffers[p].text
<1>1. /\ p \in Open(session) /\ clicks' = clicks + 1
      /\ IF SaveFirst(p)
         THEN saves' = saves \cup {Request(p, text, "run")} /\ runs' = runs
         ELSE runs' = runs \cup {Submission(clicks + 1, p, text, FALSE)} /\ saves' = saves
      /\ muddled' = muddled \cup {q \in {p} : Busy(q) \/ restoring}
      /\ UNCHANGED <<file, stored, pageVars, puts, moving, edits, work, lossy>>
  BY DEF ClickRun, Click, Touch, serverVars
<1>2. p \in Paths /\ text \in Written \cup {None} /\ clicks \in Nat /\ visit \in 0..visit
  BY <1>1, TextOf DEF Types, CountsOK
<1>3. SaveFirst(p) => text # None
  BY DEF SaveFirst, isDirty
<1> HIDE DEF p, text
<1>4. /\ SaveFirst(p) => Request(p, text, "run") \in Save
      /\ Submission(clicks + 1, p, text, FALSE) \in Job
  BY <1>2, <1>3 DEF Request, Save, Submission, Job
<1>5. /\ saves' \subseteq Save /\ runs' \subseteq Job /\ moving' \in Moving /\ muddled' \subseteq Paths
      /\ moving'.stage # "idle" => moving'.from \in Paths /\ moving'.to # moving'.from
  BY <1>1, <1>2, <1>4 DEF Types, WiresOK, FilesOK
<1>6. /\ file' \in [Paths -> Written \cup {None}] /\ work' \in [Paths -> Written \cup {None}]
      /\ clicks' \in Nat
  BY <1>1, <1>2 DEF Types, FilesOK
<1> QED
  BY <1>1, <1>5, <1>6, WiresOnlyTypes

LEMMA ClickCreateTypes == ASSUME NEW p \in Paths PROVE Types /\ ClickCreate(p) => Types'
<1> SUFFICES ASSUME Types, ClickCreate(p) PROVE Types'
  OBVIOUS
<1>1. /\ clicks' = clicks + 1
      /\ saves' = saves \cup {Request(p, 0, "create")}
      /\ work' = [work EXCEPT ![p] = 0]
      /\ muddled' = muddled \cup {q \in {p} : Busy(q) \/ restoring \/ Exists(q)}
      /\ UNCHANGED <<file, stored, pageVars, runs, puts, moving, edits, lossy>>
  BY DEF ClickCreate, Click, serverVars
<1>2. clicks \in Nat /\ visit \in 0..visit /\ 0 \in Written
  BY DEF Types, CountsOK, Written
<1>3. Request(p, 0, "create") \in Save
  BY <1>2 DEF Request, Save
<1>4. /\ saves' \subseteq Save /\ runs' \subseteq Job /\ moving' \in Moving /\ muddled' \subseteq Paths
      /\ moving'.stage # "idle" => moving'.from \in Paths /\ moving'.to # moving'.from
  BY <1>1, <1>2, <1>3 DEF Types, WiresOK, FilesOK
<1>5. /\ file' \in [Paths -> Written \cup {None}] /\ work' \in [Paths -> Written \cup {None}]
      /\ clicks' \in Nat
  BY <1>1, <1>2 DEF Types, FilesOK
<1> QED
  BY <1>1, <1>4, <1>5, WiresOnlyTypes

LEMMA ClickMoveTypes ==
    ASSUME NEW p \in Paths, NEW to \in Paths \cup {Nowhere}
    PROVE  Types /\ ClickMove(p, to) => Types'
<1> SUFFICES ASSUME Types, ClickMove(p, to) PROVE Types'
  OBVIOUS
<1>1. /\ clicks' = clicks + 1 /\ p # to
      /\ moving' = [visit |-> visit, from |-> p, to |-> to, stage |-> "sent"]
      /\ work' = IF to = Nowhere THEN [work EXCEPT ![p] = None] ELSE work
      /\ muddled' = muddled \cup {q \in {p, to} \cap Paths : Busy(q) \/ Running(q) \/ restoring}
      /\ UNCHANGED <<file, stored, pageVars, saves, runs, puts, edits, lossy>>
  BY DEF ClickMove, Click, serverVars
<1>2. clicks \in Nat /\ visit \in 0..visit
  BY DEF Types, CountsOK
<1>3. moving' \in Moving /\ moving'.from = p /\ moving'.to = to
  BY <1>1, <1>2 DEF Moving
<1>4. /\ saves' \subseteq Save /\ runs' \subseteq Job /\ moving' \in Moving /\ muddled' \subseteq Paths
      /\ moving'.stage # "idle" => moving'.from \in Paths /\ moving'.to # moving'.from
  BY <1>1, <1>3 DEF Types, WiresOK, FilesOK
<1>5. work' \in [Paths -> Written \cup {None}]
  BY <1>1 DEF Types, FilesOK
<1>6. file' \in [Paths -> Written \cup {None}] /\ clicks' \in Nat
  BY <1>1, <1>2 DEF Types, FilesOK
<1> QED
  BY <1>1, <1>4, <1>5, <1>6, WiresOnlyTypes

LEMMA WriteTypes == ASSUME NEW s \in saves PROVE Types /\ Write(s) => Types'
<1> SUFFICES ASSUME Types, Write(s) PROVE Types'
  OBVIOUS
<1>0. UNCHANGED <<stored, pageVars, runs, puts, moving, edits, clicks, work, muddled, lossy>>
  BY DEF Write, observers
<1>1. PICK done, told \in BOOLEAN :
         /\ file' = IF done THEN [file EXCEPT ![s.path] = s.text] ELSE file
         /\ saves' = (saves \ {s}) \cup {[s EXCEPT !.stage = IF told THEN "ok" ELSE "failed"]}
  BY DEF Write
<1>2. s \in Save
  BY DEF Types, WiresOK
<1>3. [s EXCEPT !.stage = IF told THEN "ok" ELSE "failed"] \in Save
  BY <1>2 DEF Save
<1>4. s.path \in Paths /\ s.text \in Written
  BY <1>2 DEF Save
<1>5. /\ saves' \subseteq Save /\ runs' \subseteq Job /\ moving' \in Moving /\ muddled' \subseteq Paths
      /\ moving'.stage # "idle" => moving'.from \in Paths /\ moving'.to # moving'.from
  BY <1>0, <1>1, <1>3 DEF Types, WiresOK, FilesOK
<1>6. /\ file' \in [Paths -> Written \cup {None}] /\ work' \in [Paths -> Written \cup {None}]
      /\ clicks' \in Nat
  BY <1>0, <1>1, <1>4 DEF Types, FilesOK, CountsOK
<1> QED
  BY <1>0, <1>5, <1>6, WiresOnlyTypes

LEMMA RunTypes == ASSUME NEW r \in runs PROVE Types /\ Run(r) => Types'
<1> SUFFICES ASSUME Types, Run(r) PROVE Types'
  OBVIOUS
<1>1. /\ runs' = runs \ {r}
      /\ UNCHANGED <<file, stored, pageVars, saves, puts, moving, edits, clicks, work, muddled, lossy>>
  BY DEF Run, serverVars, observers
<1>2. /\ saves' \subseteq Save /\ runs' \subseteq Job /\ moving' \in Moving /\ muddled' \subseteq Paths
      /\ moving'.stage # "idle" => moving'.from \in Paths /\ moving'.to # moving'.from
  BY <1>1 DEF Types, WiresOK, FilesOK
<1>3. /\ file' \in [Paths -> Written \cup {None}] /\ work' \in [Paths -> Written \cup {None}]
      /\ clicks' \in Nat
  BY <1>1 DEF Types, FilesOK, CountsOK
<1> QED
  BY <1>1, <1>2, <1>3, WiresOnlyTypes

LEMMA MoveTypes == Types /\ Move => Types'
<1> SUFFICES ASSUME Types, Move PROVE Types'
  OBVIOUS
<1>1. /\ moving.stage = "sent"
      /\ UNCHANGED <<stored, pageVars, saves, runs, puts, edits, clicks, work, lossy>>
  BY DEF Move
<1>2. moving \in Moving /\ moving.from \in Paths /\ moving.to # moving.from
  BY <1>1 DEF Types, WiresOK
<1>3. /\ file' \in [Paths -> Written \cup {None}] /\ moving' \in Moving /\ muddled' \subseteq Paths
      /\ moving'.stage # "idle" => moving'.from \in Paths /\ moving'.to # moving'.from
  <2>1. CASE MayMove(moving)
    <3>1. /\ file' = [p \in Paths |-> IF p = moving.to THEN file[moving.from]
                                      ELSE IF p = moving.from THEN None ELSE file[p]]
          /\ moving' = [moving EXCEPT !.stage = "done"] /\ muddled' = muddled
      BY <2>1 DEF Move
    <3>2. moving' \in Moving /\ moving'.from = moving.from /\ moving'.to = moving.to
      BY <1>2, <3>1 DEF Moving
    <3>3. file' \in [Paths -> Written \cup {None}]
      BY <1>2, <3>1 DEF Types, FilesOK
    <3> QED
      BY <1>2, <3>1, <3>2, <3>3 DEF Types, FilesOK
  <2>2. CASE ~MayMove(moving)
    <3>1. /\ file' = file /\ moving' = Still
          /\ muddled' = muddled \cup ({moving.from} \cap {p \in Paths : moving.to = Nowhere})
      BY <2>2 DEF Move
    <3>2. Still \in Moving /\ Still.stage = "idle"
      BY DEF Still, Moving, Types, CountsOK
    <3> QED
      BY <3>1, <3>2 DEF Types, FilesOK
  <2> QED
    BY <2>1, <2>2
<1>4. /\ saves' \subseteq Save /\ runs' \subseteq Job /\ work' \in [Paths -> Written \cup {None}]
      /\ clicks' \in Nat
  BY <1>1 DEF Types, WiresOK, FilesOK, CountsOK
<1> QED
  BY <1>1, <1>3, <1>4, WiresOnlyTypes

\* What the page shows after the answer to a write.
AfterAnswer(s) ==
    IF s.kind = "create" THEN session
    ELSE IF s.stage = "ok" THEN markSaved(session, s.path, s.text)
    ELSE AfterRefusal(session, s.path, s.text)

LEMMA AnsweredSession ==
    ASSUME Types, NEW s \in saves
    PROVE  LET r == AfterAnswer(s)
           IN  /\ SessionOK(r, Written)
               /\ r.active = session.active /\ Open(r) = Open(session)
               /\ \A q \in Open(session) : q # s.path => r.buffers[q] = session.buffers[q]
               /\ s.path \in Open(session) =>
                     \/ r = session
                     \/ /\ s.stage = "ok" /\ s.kind # "create"
                        /\ r.buffers[s.path].text = s.text
                        /\ r.buffers[s.path].saved = s.text
               /\ s.kind # "create" /\ s.stage = "ok" /\ s.path \in Open(session)
                  => r.buffers[s.path].text = s.text /\ r.buffers[s.path].saved = s.text
               /\ s.kind = "create" \/ s.stage # "ok" \/ s.path \notin Open(session) => r = session
<1> DEFINE r == AfterAnswer(s)
<1>1. s \in Save /\ SessionOK(session, Written)
  BY DEF Types, WiresOK, PageOK
<1>2. s.path \in Paths /\ s.text \in Written /\ s.text # None
  BY <1>1 DEF Save, Written, None
<1>3. CASE s.kind = "create" \/ s.stage # "ok" \/ s.path \notin Open(session)
  <2>1. r = session
    BY <1>3 DEF AfterAnswer, AfterRefusal, markSaved
  <2> HIDE DEF r
  <2>2. SessionOK(r, Written) /\ r.active = session.active /\ Open(r) = Open(session)
    BY <1>1, <2>1
  <2> QED
    BY <1>3, <2>1, <2>2 DEF r
<1>4. CASE s.kind # "create" /\ s.stage = "ok" /\ s.path \in Open(session)
  <2>1. r = markSaved(session, s.path, s.text)
    BY <1>4 DEF AfterAnswer
  <2>2. LET m == markSaved(session, s.path, s.text)
        IN  /\ SessionOK(m, Written)
            /\ m.active = session.active /\ Open(m) = Open(session)
            /\ m.buffers[s.path].text = s.text /\ m.buffers[s.path].saved = s.text
            /\ \A q \in Open(session) : q # s.path => m.buffers[q] = session.buffers[q]
    BY <1>1, <1>2, <1>4, MarkSavedBuffer
  <2> HIDE DEF r
  <2> QED
    BY <1>4, <2>1, <2>2 DEF r
<1> QED
  BY <1>3, <1>4

\* Every step keeps the types: the answers.
LEMMA SaveAnsweredTypes == ASSUME NEW s \in saves PROVE Types /\ SaveAnswered(s) => Types'
<1> SUFFICES ASSUME Types, SaveAnswered(s) PROVE Types'
  OBVIOUS
<1>1. /\ saves' = saves \ {s} /\ s.stage \in {"ok", "failed"}
      /\ muddled' = IF s.kind = "create" /\ s.stage = "failed"
                    THEN muddled \cup {s.path} ELSE muddled
      /\ UNCHANGED <<file, stored, visit, here, restoring, puts, moving, edits, clicks,
                     work, lossy>>
  BY DEF SaveAnswered, serverVars
<1>2. s \in Save /\ s.path \in Paths /\ s.text \in Written /\ s.id \in Nat
  BY DEF Types, WiresOK, Save
<1>3. Written' = Written /\ Read' = Read /\ Save' = Save /\ Job' = Job /\ Moving' = Moving
  BY <1>1, SameTexts
<1>4. PageOK' /\ armed' \in BOOLEAN /\ runs' \subseteq Job
  <2>1. CASE here /\ s.visit = visit
    <3>1. /\ Shows(AfterAnswer(s))
          /\ runs' = IF s.kind = "run"
                     THEN runs \cup {Submission(s.id, s.path, s.text, s.stage = "failed")}
                     ELSE runs
      BY <2>1 DEF SaveAnswered, AfterAnswer
    <3>2. SessionOK(AfterAnswer(s), Written)
      BY AnsweredSession
    <3>3. visit \in 0..visit
      BY DEF Types, CountsOK
    <3>4. Submission(s.id, s.path, s.text, s.stage = "failed") \in Job
      BY <1>2, <3>3 DEF Submission, Job
    <3>5. PageOK' /\ armed' \in BOOLEAN
      BY <1>1, <3>1, <3>2, ShowsTypes DEF Types
    <3> QED
      BY <3>1, <3>4, <3>5 DEF Types, WiresOK
  <2>2. CASE ~(here /\ s.visit = visit)
    <3>1. UNCHANGED <<session, reading, armed, runs>>
      BY <2>2 DEF SaveAnswered
    <3> QED
      BY <1>3, <3>1 DEF Types, PageOK, FlagsOK, WiresOK
  <2> QED
    BY <2>1, <2>2
<1>5. FilesOK'
  BY <1>1, <1>2, <1>3 DEF Types, FilesOK
<1>6. StoreOK' /\ WiresOK' /\ CountsOK'
  BY <1>1, <1>3, <1>4 DEF Types, StoreOK, WiresOK, CountsOK
<1>7. FlagsOK'
  BY <1>1, <1>4 DEF Types, FlagsOK
<1> QED
  BY <1>4, <1>5, <1>6, <1>7 DEF Types

\* What the page shows after the answer to a rename or a deletion.
AfterMove ==
    IF moving.to = Nowhere THEN closeTab(session, moving.from)
    ELSE renamePath(session, moving.from, moving.to)

\* The session after a rename or a deletion: the tab has followed the file.
LEMMA MovedSession ==
    ASSUME Types, moving.stage = "done"
    PROVE  /\ SessionOK(AfterMove, Written)
           /\ Open(AfterMove) = IF moving.from \notin Open(session) THEN Open(session)
                                ELSE (Open(session) \ {moving.from}) \cup ({moving.to} \cap Paths)
           /\ \A q \in Open(session) :
                 q \notin {moving.from, moving.to} => AfterMove.buffers[q] = session.buffers[q]
           /\ moving.from \in Open(session) /\ moving.to \in Paths
              => AfterMove.buffers[moving.to] = session.buffers[moving.from]
           /\ moving.from \notin Open(session) /\ moving.to \in Paths => AfterMove = session
<1>1. moving \in Moving /\ moving.from \in Paths /\ moving.to # moving.from
      /\ moving.to \in Paths \cup {Nowhere} /\ SessionOK(session, Written)
  BY DEF Types, WiresOK, Moving, PageOK
<1>2. Nowhere \notin Paths
  BY EditorAssumption
<1>3. CASE moving.to = Nowhere
  <2>1. LET r == closeTab(session, moving.from)
        IN  /\ SessionOK(r, Written)
            /\ Open(r) = Open(session) \ {moving.from}
            /\ \A q \in Open(r) : r.buffers[q] = session.buffers[q]
    BY <1>1, CloseTab
  <2>2. AfterMove = closeTab(session, moving.from)
    BY <1>3 DEF AfterMove
  <2> QED
    BY <1>2, <1>3, <2>1, <2>2
<1>4. CASE moving.to \in Paths /\ moving.from \in Open(session)
  <2>1. LET r == renamePath(session, moving.from, moving.to)
        IN  /\ SessionOK(r, Written)
            /\ Open(r) = (Open(session) \ {moving.from}) \cup {moving.to}
            /\ r.buffers[moving.to] = session.buffers[moving.from]
            /\ \A q \in Open(session) : q \notin {moving.from, moving.to} =>
                                           r.buffers[q] = session.buffers[q]
    BY <1>1, <1>4, RenamePath
  <2>2. AfterMove = renamePath(session, moving.from, moving.to)
    BY <1>2, <1>4 DEF AfterMove
  <2>3. {moving.to} \cap Paths = {moving.to}
    BY <1>4
  <2> QED
    BY <1>4, <2>1, <2>2, <2>3
<1>5. CASE moving.to \in Paths /\ moving.from \notin Open(session)
  <2>1. AfterMove = session
    BY <1>2, <1>5 DEF AfterMove, renamePath
  <2> QED
    BY <1>1, <1>5, <2>1
<1> QED
  BY <1>1, <1>3, <1>4, <1>5

LEMMA MoveAnsweredTypes == Types /\ MoveAnswered => Types'
<1> SUFFICES ASSUME Types, MoveAnswered PROVE Types'
  OBVIOUS
<1>1. /\ moving.stage = "done" /\ moving' = Still
      /\ work' = [p \in Paths |-> IF p = moving.to THEN work[moving.from]
                                  ELSE IF p = moving.from THEN None ELSE work[p]]
      /\ muddled' = IF {moving.from, moving.to} \cap muddled = {} THEN muddled
                    ELSE muddled \cup ({moving.from, moving.to} \cap Paths)
      /\ UNCHANGED <<file, stored, visit, here, restoring, saves, runs, puts,
                     edits, clicks, lossy>>
  BY DEF MoveAnswered, serverVars
<1>2. moving.from \in Paths
  BY <1>1 DEF Types, WiresOK
<1>3. Written' = Written /\ Read' = Read /\ Save' = Save /\ Job' = Job /\ Moving' = Moving
  BY <1>1, SameTexts
<1>4. PageOK' /\ armed' \in BOOLEAN
  <2>1. CASE here /\ moving.visit = visit
    <3>1. Shows(AfterMove)
      BY <2>1 DEF MoveAnswered, AfterMove
    <3>2. SessionOK(AfterMove, Written)
      BY <1>1, MovedSession
    <3> QED
      BY <1>1, <3>1, <3>2, ShowsTypes DEF Types
  <2>2. CASE ~(here /\ moving.visit = visit)
    <3>1. UNCHANGED <<session, reading, armed>>
      BY <2>2 DEF MoveAnswered
    <3> QED
      BY <1>3, <3>1 DEF Types, PageOK, FlagsOK
  <2> QED
    BY <2>1, <2>2
<1>5. Still \in Moving /\ Still.stage = "idle"
  BY DEF Still, Moving, Types, CountsOK
<1>6. work' \in [Paths -> Written \cup {None}] /\ muddled' \subseteq Paths
  BY <1>1, <1>2 DEF Types, FilesOK
<1>7. FilesOK' /\ StoreOK' /\ WiresOK' /\ CountsOK'
  BY <1>1, <1>3, <1>5, <1>6 DEF Types, FilesOK, StoreOK, WiresOK, CountsOK
<1>8. FlagsOK'
  BY <1>1, <1>4 DEF Types, FlagsOK
<1> QED
  BY <1>4, <1>7, <1>8 DEF Types

LEMMA StutterTypes == Types /\ UNCHANGED vars => Types'
<1> SUFFICES ASSUME Types, UNCHANGED vars PROVE Types'
  OBVIOUS
<1>1. UNCHANGED <<file, stored, pageVars, saves, runs, puts, moving, edits, clicks,
                  work, muddled, lossy>>
  BY DEF vars, serverVars, wires, observers
<1> QED
  BY <1>1, WiresOnlyTypes DEF Types, WiresOK, FilesOK, CountsOK

\* All of them together.
LEMMA NextTypes == Types /\ [Next]_vars => Types'
<1> SUFFICES ASSUME Types, [Next]_vars PROVE Types'
  OBVIOUS
<1>1. CASE Load \/ Restored \/ RestoreFailed \/ Leave
  BY <1>1, LoadTypes, RestoredTypes, RestoreFailedTypes, LeaveTypes
<1>2. CASE ReadAnswered \/ ReadArrives
  BY <1>2, ReadAnsweredTypes, ReadArrivesTypes
<1>3. CASE Fire \/ PutLost \/ \E i \in 1..Len(puts) : Put(i)
  BY <1>3, FireTypes, PutLostTypes, PutTypes
<1>4. CASE Edit \/ ClickSave \/ ClickRun
  BY <1>4, EditTypes, ClickSaveTypes, ClickRunTypes
<1>5. CASE \E p \in Paths : OpenFile(p) \/ SwitchTo(p) \/ Close(p) \/ ClickCreate(p)
  BY <1>5, OpenFileTypes, SwitchToTypes, CloseTypes, ClickCreateTypes
<1>6. CASE \E p \in Paths, to \in Paths \cup {Nowhere} : ClickMove(p, to)
  BY <1>6, ClickMoveTypes
<1>7. CASE \E s \in saves : Write(s) \/ SaveAnswered(s)
  BY <1>7, WriteTypes, SaveAnsweredTypes
<1>8. CASE \E r \in runs : Run(r)
  BY <1>8, RunTypes
<1>9. CASE Move \/ MoveAnswered
  BY <1>9, MoveTypes, MoveAnsweredTypes
<1>10. CASE UNCHANGED vars
  BY <1>10, StutterTypes
<1> QED
  BY <1>1, <1>2, <1>3, <1>4, <1>5, <1>6, <1>7, <1>8, <1>9, <1>10 DEF Next

\* The session stays well-formed: whatever answers, renames, closings and restored
\* states it goes through, its tabs in order are exactly its buffers, each path is a
\* path of the workspace, and the active tab is one of them (editorSession.ts,
\* editorSession.persist.ts).
THEOREM TypesHold == Spec => []TypeOK
<1>1. Spec => []Types
  BY InitTypes, NextTypes, PTL DEF Spec
<1> QED
  BY <1>1, TypesAreTypeOK, PTL

-----------------------------------------------------------------------------
(* The invariant.                                                          *)

\* What a tab shows and what it knows to be saved.
Text(p)  == session.buffers[p].text
Saved(p) == session.buffers[p].saved
\* The paths of a rename or a deletion that was not answered yet.  When it is done,
\* the content of the old path is to be found at the new one, and of the new path
\* nothing is claimed until the tab has followed.
Ends     == IF moving.stage = "idle" THEN {} ELSE {moving.from, moving.to} \cap Paths
Moved    == moving.stage = "done"
Going(p) == moving.stage # "idle" /\ p = moving.from /\ moving.to = Nowhere
Content(p) ==
    IF Moved /\ p = moving.from
    THEN IF moving.to \in Paths THEN file[moving.to] ELSE None
    ELSE file[p]
Kept(p) ==
    /\ p \notin muddled
    /\ Moved => p # moving.to /\ (p = moving.from => moving.to \notin muddled)
SavesOf(p) == {s \in saves : s.path = p}
Created(p) == \E s \in SavesOf(p) : s.kind = "create"
Tabs(st, p) == {i \in 1..Len(st.tabs) : st.tabs[i].path = p}

\* A write on its way about a path that is not muddled was asked for on this page
\* and is the only request about the path; its tab still shows the text, or, for a
\* new file, there is none.
SaveWaits(s) ==
    /\ Settled /\ s.visit = visit /\ s.path \notin Ends
    /\ SavesOf(s.path) = {s}
    /\ s.stage = "ok" => file[s.path] = s.text
    /\ IF s.kind = "create"
       THEN s.path \notin Open(session) /\ work[s.path] = s.text
       ELSE s.path \in Open(session) /\ Text(s.path) = s.text

\* So was a rename or a deletion; after it the old path has no file and the new one
\* no tab.
EndWaits(p) ==
    /\ Settled /\ moving.visit = visit
    /\ Moved => IF p = moving.to THEN p \notin Open(session) ELSE ~Exists(p)

\* What a tab, its file and the user's work have to do with each other.  A read that
\* has its content but has not arrived holds the content of the file, or comes too
\* late to be shown.
Faithful(p) ==
    /\ p \in Open(session) => Content(p) # None
    /\ p \in Open(session) /\ Text(p) # None => Text(p) = work[p]
    /\ (p \notin Open(session) \/ Text(p) = None) /\ ~Created(p) => Content(p) = work[p]
    /\ p \in Open(session) /\ Saved(p) # None /\ Text(p) = Saved(p) => Content(p) = Text(p)
    /\ p \in Open(session) /\ reading.path = p /\ reading.got # None
          => reading.got = Content(p) \/ (Text(p) # None /\ Text(p) # reading.got)

\* What the page leaves behind: the work is a draft of every stored tab, or in the
\* file with no draft that would hide it.
Left(p) ==
    \/ /\ Exists(p)
       /\ \E i \in Tabs(stored, p) : stored.tabs[i].draft # None
       /\ \A i \in Tabs(stored, p) : stored.tabs[i].draft = work[p]
    \/ /\ file[p] = work[p]
       /\ Exists(p) => \A i \in Tabs(stored, p) : stored.tabs[i].draft = None

\* A run still finds its text: nothing that may be written before it is older.
RunFresh(r) ==
    /\ ~(here /\ restoring) /\ r.path \notin Ends /\ Exists(r.path)
    /\ file[r.path] >= r.shown
    /\ Settled => work[r.path] >= r.shown
    /\ \A s \in SavesOf(r.path) : s.text >= r.shown

\* All that is claimed of a path that is not muddled, and of the page.
Good(p) ==
    /\ \A s \in SavesOf(p) : SaveWaits(s)
    /\ p \in Ends => EndWaits(p)
    /\ Settled /\ Kept(p) => IF Going(p) THEN work[p] = None ELSE Faithful(p)
    /\ \A r \in runs : r.path = p /\ r.visit = visit /\ ~r.unsaved => RunFresh(r)
    /\ ~Settled /\ ~lossy => Left(p)

\* The stored session, or the last PUT on its way, is the one on the screen.
Sent ==
    Settled /\ ~lossy /\ ~armed =>
       IF puts = <<>> THEN stored.tabs = toPersisted(session).tabs
       ELSE puts[Len(puts)].tabs = toPersisted(session).tabs

Page ==
    /\ ~Settled => ~armed /\ Open(session) \subseteq muddled /\ (~lossy => puts = <<>>)
    /\ Sent

AllGood == \A p \in Paths \ muddled : Good(p)
SessionInv == Types /\ Page /\ AllGood

\* A path no unanswered rename or deletion is about.
LEMMA NoEnd ==
    ASSUME NEW p \in Paths \ muddled, p \notin Ends
    PROVE  Kept(p) /\ ~Going(p) /\ Content(p) = file[p]
BY DEF Ends, Kept, Going, Content, Moved

\* A path no request is about.
LEMMA NotBusy ==
    ASSUME NEW p \in Paths, ~Busy(p)
    PROVE  SavesOf(p) = {} /\ p \notin Ends /\ ~Created(p)
BY DEF Busy, SavesOf, Ends, Created

\* What touching a path while nothing is under way leaves unmuddled.
LEMMA Touched ==
    ASSUME NEW p \in Paths, here, FlagsOK, AllGood,
           p \notin muddled \cup {q \in {p} : Busy(q) \/ restoring}
    PROVE  /\ Settled /\ p \notin muddled /\ ~Busy(p) /\ SavesOf(p) = {} /\ p \notin Ends
           /\ ~Created(p) /\ Kept(p) /\ ~Going(p) /\ Content(p) = file[p]
           /\ Good(p) /\ Faithful(p)
<1>1. Settled /\ p \notin muddled /\ ~Busy(p)
  BY DEF Settled
<1>2. SavesOf(p) = {} /\ p \notin Ends /\ ~Created(p) /\ Kept(p) /\ ~Going(p) /\ Content(p) = file[p]
  BY <1>1, NotBusy, NoEnd
<1>3. Good(p)
  BY <1>1 DEF AllGood
<1> QED
  BY <1>1, <1>2, <1>3 DEF Good

\* A path whose tab and whose requests a step leaves alone, and one it does
\* nothing about.
SameTab(p) ==
    /\ work'[p] = work[p]
    /\ p \in Open(session)' <=> p \in Open(session)
    /\ p \in Open(session) => session'.buffers[p] = session.buffers[p]
    /\ SavesOf(p)' = SavesOf(p)
    /\ reading'.path = p /\ reading'.got # None => reading' = reading
Untouched(p) ==
    /\ SameTab(p) /\ file'[p] = file[p]
    /\ \A r \in runs' : r.path = p => r \in runs

LEMMA FaithfulStays ==
    ASSUME NEW p, Faithful(p), SameTab(p), Content(p)' = Content(p)
    PROVE  Faithful(p)'
<1>1. Created(p)' <=> Created(p)
  BY DEF SameTab, Created
<1>2. p \in Open(session) => Text(p)' = Text(p) /\ Saved(p)' = Saved(p)
  BY DEF SameTab, Text, Saved
<1> QED
  BY <1>1, <1>2 DEF Faithful, SameTab

\* A step that does nothing about a path keeps what is claimed of it, as long as it
\* is not a step of a rename.
LEMMA GoodStays ==
    ASSUME NEW p \in Paths, Good(p), Untouched(p), UNCHANGED <<visit, here, restoring, moving>>,
           p \notin muddled', muddled \subseteq muddled',
           Kept(p) => Content(p)' = Content(p),
           ~Settled /\ ~lossy' => ~lossy /\ stored' = stored
    PROVE  Good(p)'
<1>1. Settled' = Settled /\ Ends' = Ends /\ Moved' = Moved /\ Going(p)' = Going(p)
  BY DEF Settled, Ends, Moved, Going
<1>2. Kept(p)' => Kept(p)
  BY DEF Kept, Moved
<1>3. \A s \in SavesOf(p)' : SaveWaits(s)'
  <2> SUFFICES ASSUME NEW s \in SavesOf(p)' PROVE SaveWaits(s)'
    OBVIOUS
  <2>1. s \in SavesOf(p) /\ SaveWaits(s) /\ s.path = p
    BY DEF Untouched, SameTab, Good, SavesOf
  <2>2. p \in Open(session) => Text(p)' = Text(p)
    BY DEF Untouched, SameTab, Text
  <2> QED
    BY <1>1, <2>1, <2>2 DEF SaveWaits, Untouched, SameTab
<1>4. p \in Ends' => EndWaits(p)'
  BY <1>1 DEF Good, EndWaits, Untouched, SameTab, Exists
<1>5. (Settled /\ Kept(p) => IF Going(p) THEN work[p] = None ELSE Faithful(p))'
  <2> SUFFICES ASSUME Settled', Kept(p)'
      PROVE  (IF Going(p) THEN work[p] = None ELSE Faithful(p))'
    OBVIOUS
  <2>1. Settled /\ Kept(p)
    BY <1>1, <1>2
  <2>2. CASE Going(p)
    BY <1>1, <2>1, <2>2 DEF Good, Untouched, SameTab
  <2>3. CASE ~Going(p)
    <3>1. Faithful(p)
      BY <2>1, <2>3 DEF Good
    <3>2. Faithful(p)'
      BY <2>1, <3>1, FaithfulStays DEF Untouched
    <3> QED
      BY <1>1, <2>3, <3>2
  <2> QED
    BY <2>2, <2>3
<1>6. \A r \in runs' : r.path = p /\ r.visit = visit' /\ ~r.unsaved => RunFresh(r)'
  <2> SUFFICES ASSUME NEW r \in runs', r.path = p, r.visit = visit', ~r.unsaved
      PROVE  RunFresh(r)'
    OBVIOUS
  <2>1. RunFresh(r)
    BY DEF Good, Untouched, SameTab
  <2> QED
    BY <1>1, <2>1 DEF RunFresh, Untouched, SameTab, Exists
<1>7. (~Settled /\ ~lossy => Left(p))'
  BY <1>1 DEF Good, Left, Untouched, SameTab, Exists
<1> QED
  BY <1>3, <1>4, <1>5, <1>6, <1>7 DEF Good

\* The files and the rename stay what they are.
LEMMA SameContent ==
    ASSUME UNCHANGED <<file, moving>>, NEW p
    PROVE  Content(p)' = Content(p)
BY DEF Content, Moved

\* Showing another session keeps what is claimed of the page.
LEMMA PageShows ==
    ASSUME Types, Page, NEW s, SessionOK(s, Written), Shows(s), here, UNCHANGED edits,
           UNCHANGED <<here, restoring, stored, puts, lossy>>,
           muddled \subseteq muddled', restoring => Open(s) \subseteq muddled'
    PROVE  Page'
<1>1. /\ session' = s /\ (armed' \/ restoring \/ session' = session)
      /\ restoring => armed' = armed
      /\ armed' = (armed \/ (~restoring /\ s # session))
  BY ShowsTypes DEF Types, Shows
<1>2. Settled' = Settled
  BY DEF Settled
<1>3. CASE Settled
  <2>1. ~armed' => ~armed /\ session' = session
    BY <1>1, <1>3 DEF Settled
  <2> QED
    BY <1>2, <1>3, <2>1 DEF Page, Sent
<1>4. CASE ~Settled
  <2>1. restoring
    BY <1>4 DEF Settled
  <2> QED
    BY <1>1, <1>2, <1>4, <2>1 DEF Page, Sent
<1> QED
  BY <1>3, <1>4

-----------------------------------------------------------------------------
(* Every step keeps the invariant: the life of a page.                     *)

\* Before the first page is loaded, what an earlier visit left is stored or written.
LEMMA InitGood == Init => Page /\ AllGood
<1> SUFFICES ASSUME Init PROVE Page /\ AllGood
  OBVIOUS
<1>1. ~Settled /\ ~armed /\ puts = <<>> /\ Open(session) = {} /\ saves = {} /\ runs = {}
  BY EmptySession DEF Init, Settled
<1>2. Page
  BY <1>1 DEF Page, Sent
<1>3. \A p : SavesOf(p) = {} /\ p \notin Ends
  BY <1>1 DEF SavesOf, Ends, Still, Init
<1>4. \A p \in Paths : Left(p)
  <2> SUFFICES ASSUME NEW p \in Paths PROVE Left(p)
    OBVIOUS
  <2>1. CASE stored = EMPTY_STATE
    <3>0. stored.tabs = <<>>
      BY <2>1 DEF EMPTY_STATE
    <3>1. edits # 1
      <4> SUFFICES ASSUME edits = 1 PROVE FALSE
        OBVIOUS
      <4>1. PICK t \in Paths : stored = [tabs |-> <<[path |-> t, draft |-> 1]>>, active |-> t]
        BY DEF Init
      <4>2. stored.tabs # <<>>
        BY <4>1
      <4> QED
        BY <3>0, <4>2
    <3>2. file[p] = work[p]
      BY <3>1 DEF Init
    <3>3. Tabs(stored, p) = {}
      BY <3>0 DEF Tabs
    <3> QED
      BY <3>2, <3>3 DEF Left
  <2>2. CASE stored # EMPTY_STATE
    <3>1. PICK q \in Paths, d \in {None, 1} :
             stored = [tabs |-> <<[path |-> q, draft |-> d]>>, active |-> q] /\ file[q] = 0
      BY <2>2 DEF Init, LeftBehind
    <3>2. Len(stored.tabs) = 1 /\ stored.tabs[1].path = q /\ stored.tabs[1].draft = d
          /\ stored.active = q
      BY <3>1
    <3>3. Tabs(stored, p) = IF p = q THEN {1} ELSE {}
      BY <3>2 DEF Tabs
    <3>4. d = None => edits # 1
      <4> SUFFICES ASSUME d = None, edits = 1 PROVE FALSE
        OBVIOUS
      <4>1. PICK t \in Paths : stored = [tabs |-> <<[path |-> t, draft |-> 1]>>, active |-> t]
        BY DEF Init
      <4>2. stored.tabs[1].draft = 1
        BY <4>1
      <4> QED
        BY <3>2, <4>2 DEF None
    <3>5. d = 1 => edits = 1
      BY <3>1 DEF Init
    <3>6. work[p] = IF edits = 1 /\ p = q THEN 1 ELSE file[p]
      BY <3>2 DEF Init
    <3>7. CASE p = q /\ d = 1
      BY <3>1, <3>2, <3>3, <3>5, <3>6, <3>7 DEF Left, Exists, None
    <3>8. CASE ~(p = q /\ d = 1)
      BY <3>2, <3>3, <3>4, <3>6, <3>8 DEF Left
    <3> QED
      BY <3>7, <3>8
  <2> QED
    BY <2>1, <2>2
<1> QED
  BY <1>1, <1>2, <1>3, <1>4 DEF AllGood, Good

\* A new page: the runs asked for before are not of this visit.
LEMMA LoadKeeps == SessionInv /\ Load => Page' /\ AllGood'
<1> SUFFICES ASSUME SessionInv, Load PROVE Page' /\ AllGood'
  OBVIOUS
<1>1. /\ ~here /\ visit' = visit + 1 /\ restoring' = TRUE
      /\ session' = EMPTY_SESSION /\ armed' = FALSE
      /\ UNCHANGED <<file, stored, saves, runs, puts, moving, edits, work, muddled, lossy>>
  BY DEF Load, serverVars, wires, observers
<1>2. ~Settled /\ ~Settled' /\ Open(session)' = {}
  BY <1>1, EmptySession DEF Settled
<1>3. Page'
  BY <1>1, <1>2 DEF SessionInv, Page, Sent
<1>4. ASSUME NEW p \in Paths \ muddled PROVE Good(p)'
  <2>1. Good(p)
    BY DEF SessionInv, AllGood
  <2>2. SavesOf(p)' = SavesOf(p) /\ Ends' = Ends
    BY <1>1 DEF SavesOf, Ends
  <2>3. SavesOf(p) = {} /\ p \notin Ends
    BY <1>2, <2>1 DEF Good, SaveWaits, EndWaits
  <2>4. \A r \in runs : r.visit # visit'
    <3> SUFFICES ASSUME NEW r \in runs PROVE r.visit # visit'
      OBVIOUS
    <3>1. r \in Job /\ visit \in Nat
      BY DEF SessionInv, Types, WiresOK, CountsOK
    <3>2. r.visit \in 0..visit
      BY <3>1 DEF Job
    <3> QED
      BY <1>1, <3>1, <3>2
  <2>5. ~lossy => Left(p)'
    BY <1>1, <1>2, <2>1 DEF Good, Left, Exists
  <2> QED
    BY <1>1, <1>2, <2>2, <2>3, <2>4, <2>5 DEF Good
<1> QED
  BY <1>1, <1>3, <1>4 DEF AllGood

\* A tab of the session is stored with its draft.
LEMMA StoredDrafts ==
    ASSUME Types, NEW p \in Paths, stored.tabs = toPersisted(session).tabs
    PROVE  /\ p \in Open(session) <=> Tabs(stored, p) # {}
           /\ \A i \in Tabs(stored, p) : stored.tabs[i].draft = draftOf(session, p)
<1>1. LET st == toPersisted(session)
      IN  /\ \A q \in Paths :
                q \in Open(session) <=> \E i \in 1..Len(st.tabs) : st.tabs[i].path = q
          /\ \A i \in 1..Len(st.tabs) : st.tabs[i].draft = draftOf(session, st.tabs[i].path)
  BY ToPersisted DEF Types, PageOK
<1> QED
  BY <1>1 DEF Tabs

\* When the page is left with nothing pending, the text of every tab is in its file
\* or among the stored drafts.
LEMMA LeaveLeaves ==
    ASSUME SessionInv, NEW p \in Paths \ muddled, ~Busy(p), Settled, ~lossy, ~armed, puts = <<>>
    PROVE  Left(p)
<1>1. stored.tabs = toPersisted(session).tabs
  BY DEF SessionInv, Page, Sent
<1>2. /\ p \in Open(session) <=> Tabs(stored, p) # {}
      /\ \A i \in Tabs(stored, p) : stored.tabs[i].draft = draftOf(session, p)
  BY <1>1, StoredDrafts DEF SessionInv
<1>3. ~Created(p) /\ Kept(p) /\ ~Going(p) /\ Content(p) = file[p]
  BY NotBusy, NoEnd
<1>4. Faithful(p)
  BY <1>3 DEF SessionInv, AllGood, Good
<1>5. CASE p \notin Open(session)
  BY <1>2, <1>3, <1>4, <1>5 DEF Faithful, Left
<1>6. CASE p \in Open(session) /\ Text(p) = None
  <2>1. draftOf(session, p) = None
    BY <1>6 DEF draftOf, isDirty, Text
  <2> QED
    BY <1>2, <1>3, <1>4, <1>6, <2>1 DEF Faithful, Left
<1>7. CASE p \in Open(session) /\ Text(p) # None
  <2>1. Text(p) = work[p] /\ Exists(p)
    BY <1>3, <1>4, <1>7 DEF Faithful, Exists
  <2>2. CASE Text(p) # Saved(p)
    <3>1. draftOf(session, p) = Text(p)
      BY <1>7, <2>2 DEF draftOf, isDirty, Text, Saved
    <3> QED
      BY <1>2, <1>7, <2>1, <3>1 DEF Left
  <2>3. CASE Text(p) = Saved(p)
    <3>1. draftOf(session, p) = None
      BY <2>3 DEF draftOf, isDirty, Text, Saved
    <3>2. file[p] = work[p]
      BY <1>3, <1>4, <1>7, <2>1, <2>3 DEF Faithful
    <3> QED
      BY <1>2, <3>1, <3>2 DEF Left
  <2> QED
    BY <2>2, <2>3
<1> QED
  BY <1>5, <1>6, <1>7

\* The page is left: whatever is on its way muddles its path.
LEMMA LeaveKeeps == SessionInv /\ Leave => Page' /\ AllGood'
<1> SUFFICES ASSUME SessionInv, Leave PROVE Page' /\ AllGood'
  OBVIOUS
<1>1. /\ here /\ here' = FALSE /\ restoring' = FALSE /\ armed' = FALSE
      /\ session' = EMPTY_SESSION
      /\ muddled' = muddled \cup {p \in Paths : Busy(p)}
      /\ lossy' = (lossy \/ armed \/ puts # <<>>)
      /\ UNCHANGED <<file, stored, visit, saves, runs, puts, moving, edits, work>>
  BY DEF Leave, serverVars, wires
<1>2. ~Settled' /\ Open(session)' = {}
  BY <1>1, EmptySession DEF Settled
<1>3. Page'
  BY <1>1, <1>2 DEF Page, Sent
<1>4. ASSUME NEW p \in Paths \ muddled' PROVE Good(p)'
  <2>1. p \in Paths \ muddled /\ ~Busy(p)
    BY <1>1
  <2>2. Good(p) /\ SavesOf(p) = {} /\ p \notin Ends
    BY <2>1, NotBusy DEF SessionInv, AllGood
  <2>3. SavesOf(p)' = SavesOf(p) /\ Ends' = Ends
    BY <1>1 DEF SavesOf, Ends
  <2>4. ~lossy' => Left(p)'
    <3> SUFFICES ASSUME ~lossy' PROVE Left(p)'
      OBVIOUS
    <3>1. ~lossy /\ ~armed /\ puts = <<>>
      BY <1>1
    <3>2. Left(p)
      BY <2>1, <2>2, <3>1, LeaveLeaves DEF Good
    <3> QED
      BY <1>1, <3>2 DEF Left, Exists
  <2>5. \A r \in runs' : r.path = p /\ r.visit = visit' /\ ~r.unsaved => RunFresh(r)'
    <3> SUFFICES ASSUME NEW r \in runs', r.path = p, r.visit = visit', ~r.unsaved
        PROVE  RunFresh(r)'
      OBVIOUS
    <3>1. RunFresh(r)
      BY <1>1, <2>2 DEF Good
    <3> QED
      BY <1>1, <1>2, <2>3, <3>1 DEF RunFresh, Exists
  <2> QED
    BY <1>2, <2>2, <2>3, <2>4, <2>5 DEF Good
<1> QED
  BY <1>3, <1>4 DEF AllGood

\* While the stored session is asked for, nothing is on its way about a path that
\* is not muddled.
LEMMA Unsettled ==
    ASSUME SessionInv, ~Settled, NEW p \in Paths \ muddled
    PROVE  /\ Good(p) /\ SavesOf(p) = {} /\ p \notin Ends /\ ~Created(p)
           /\ p \notin Open(session) /\ Kept(p) /\ ~Going(p) /\ Content(p) = file[p]
<1>1. Good(p) /\ p \notin Open(session)
  BY DEF SessionInv, AllGood, Page
<1>2. SavesOf(p) = {} /\ p \notin Ends
  BY <1>1 DEF Good, SaveWaits, EndWaits
<1> QED
  BY <1>1, <1>2, NoEnd DEF Created

\* The session as it is when the page goes on after asking for the stored one.
LEMMA Settles ==
    ASSUME SessionInv, here, restoring, NEW p \in Paths \ muddled, Faithful(p)',
           UNCHANGED <<visit, moving, saves, runs, muddled>>, ~restoring', here'
    PROVE  Good(p)'
<1>1. ~Settled /\ Settled'
  BY DEF Settled
<1>2. Good(p) /\ SavesOf(p) = {} /\ p \notin Ends /\ ~Going(p)
  BY <1>1, Unsettled
<1>3. SavesOf(p)' = SavesOf(p) /\ Ends' = Ends /\ Going(p)' = Going(p)
  BY DEF SavesOf, Ends, Going
<1>4. \A r \in runs : ~(r.path = p /\ r.visit = visit /\ ~r.unsaved)
  BY <1>2 DEF Good, RunFresh
<1> QED
  BY <1>1, <1>2, <1>3, <1>4 DEF Good

\* The stored session is there: every draft is the work of its path again.
LEMMA RestoredKeeps == SessionInv /\ Restored => Page' /\ AllGood'
<1> SUFFICES ASSUME SessionInv, Restored PROVE Page' /\ AllGood'
  OBVIOUS
<1> DEFINE s == fromPersisted(read_state)
<1>1. /\ here /\ restoring
      /\ session' = s /\ reading' = Reread(s) /\ work' = Seen(s)
      /\ restoring' = FALSE /\ armed' = TRUE /\ lossy' = FALSE
      /\ UNCHANGED <<file, stored, visit, here, saves, runs, puts, moving, edits, muddled>>
  BY DEF Restored, serverVars, wires
<1>2. /\ SessionOK(s, Written)
      /\ \A p \in Paths :
            p \in Open(s) <=> /\ Exists(p)
                              /\ \E i \in 1..Len(stored.tabs) : stored.tabs[i].path = p
      /\ \A i \in 1..Len(stored.tabs) :
            Exists(stored.tabs[i].path)
            => /\ s.buffers[stored.tabs[i].path].text = stored.tabs[i].draft
               /\ s.buffers[stored.tabs[i].path].saved = None
  BY RestoredSession DEF SessionInv
<1> HIDE DEF s
<1>3. Settled' /\ ~Settled
  BY <1>1 DEF Settled
<1>4. Page'
  BY <1>1, <1>3 DEF Page, Sent
<1>5. reading'.got # None => reading' = reading
  BY <1>1, <1>2, ShownSession DEF SessionInv, Types
<1>6. ASSUME NEW p \in Paths \ muddled PROVE Faithful(p)'
  <2>1. /\ Good(p) /\ p \notin Open(session) /\ ~Created(p) /\ Content(p) = file[p]
    BY <1>3, Unsettled
  <2>2. Content(p)' = file[p] /\ Created(p)' = Created(p)
    BY <1>1, <2>1 DEF Content, Moved, Created, SavesOf
  <2>3. p \in Open(s) => /\ Exists(p) /\ Saved(p)' = None
                         /\ \A i \in Tabs(stored, p) : Text(p)' = stored.tabs[i].draft
                         /\ Tabs(stored, p) # {}
    BY <1>1, <1>2 DEF Tabs, Text, Saved
  <2>4. p \notin Open(s) => ~Exists(p) \/ Tabs(stored, p) = {}
    BY <1>2 DEF Tabs
  <2>5. /\ p \in Open(s) /\ Text(p)' # None => Text(p)' = work'[p]
        /\ p \notin Open(s) \/ Text(p)' = None => file[p] = work'[p]
    <3>1. CASE lossy
      <4>1. work'[p] = IF p \in Open(s) /\ s.buffers[p].text # None
                       THEN s.buffers[p].text ELSE file[p]
        BY <1>1, <3>1 DEF Seen
      <4>2. Text(p)' = s.buffers[p].text
        BY <1>1 DEF Text
      <4> QED
        BY <4>1, <4>2
    <3>2. CASE ~lossy
      <4>1. work'[p] = work[p] /\ Left(p)
        BY <1>1, <1>3, <2>1, <3>2 DEF Seen, Good
      <4> QED
        BY <2>3, <2>4, <4>1 DEF Left
    <3> QED
      BY <3>1, <3>2
  <2>6. ~(reading'.path = p /\ reading'.got # None)
    <3>1. reading.path = p => p \in Open(session)
      BY ReadingIsWanted, EditorAssumption DEF SessionInv, Types
    <3> QED
      BY <1>5, <2>1, <3>1
  <2>7. p \in Open(session)' <=> p \in Open(s)
    BY <1>1
  <2> QED
    BY <2>2, <2>3, <2>5, <2>6, <2>7, <2>1 DEF Faithful, Exists
<1>7. ASSUME NEW p \in Paths \ muddled PROVE Good(p)'
  BY <1>1, <1>6, Settles
<1> QED
  BY <1>1, <1>4, <1>7 DEF AllGood

\* The stored session could not be read: the user goes on from the files.
LEMMA RestoreFailedKeeps == SessionInv /\ RestoreFailed => Page' /\ AllGood'
<1> SUFFICES ASSUME SessionInv, RestoreFailed PROVE Page' /\ AllGood'
  OBVIOUS
<1>1. /\ here /\ restoring /\ restoring' = FALSE /\ armed' = TRUE /\ lossy' = FALSE
      /\ work' = file
      /\ UNCHANGED <<file, stored, visit, here, session, reading, saves, runs, puts, moving,
                     edits, muddled>>
  BY DEF RestoreFailed, serverVars, wires
<1>2. Settled' /\ ~Settled
  BY <1>1 DEF Settled
<1>3. Page'
  BY <1>1, <1>2 DEF Page, Sent
<1>4. ASSUME NEW p \in Paths \ muddled PROVE Faithful(p)'
  <2>1. p \notin Open(session) /\ Content(p) = file[p]
    BY <1>2, Unsettled
  <2>2. Content(p)' = file[p] /\ work'[p] = file[p] /\ p \notin Open(session)'
    BY <1>1, <2>1 DEF Content, Moved
  <2> QED
    BY <2>2 DEF Faithful
<1>5. ASSUME NEW p \in Paths \ muddled PROVE Good(p)'
  BY <1>1, <1>4, Settles
<1> QED
  BY <1>1, <1>3, <1>5 DEF AllGood

-----------------------------------------------------------------------------
(* Every step keeps the invariant: reads and PUTs.                         *)

\* The read asks for the path it waits for and for no other.
LEMMA ReadAnsweredKeeps == SessionInv /\ ReadAnswered => Page' /\ AllGood'
<1> SUFFICES ASSUME SessionInv, ReadAnswered PROVE Page' /\ AllGood'
  OBVIOUS
<1> DEFINE p == reading.path
<1>1. /\ p # Nowhere /\ Exists(p)
      /\ reading' = [reading EXCEPT !.got = file[p]]
      /\ UNCHANGED <<file, stored, visit, here, restoring, session, armed, saves, runs, puts,
                     moving, edits, clicks, work, muddled, lossy>>
  BY DEF ReadAnswered, serverVars, wires, observers
<1>2. Page'
  BY <1>1 DEF SessionInv, Page, Sent, Settled
<1>3. reading'.path = p /\ reading'.got = file[p]
  <2>1. reading \in Read
    BY DEF SessionInv, Types, PageOK
  <2> QED
    BY <1>1, <2>1 DEF Read
<1> HIDE DEF p
<1>4. ASSUME NEW q \in Paths \ muddled PROVE Good(q)'
  <2>1. Good(q)
    BY DEF SessionInv, AllGood
  <2>2. Content(q)' = Content(q)
    BY <1>1, SameContent
  <2>3. CASE q # p
    <3>1. Untouched(q)
      BY <1>1, <1>3, <2>3 DEF Untouched, SameTab, SavesOf
    <3> QED
      BY <1>1, <2>1, <2>2, <3>1, GoodStays
  <2>4. CASE q = p
    <3>1. /\ Settled' = Settled /\ Ends' = Ends /\ Kept(q)' = Kept(q) /\ Going(q)' = Going(q)
          /\ SavesOf(q)' = SavesOf(q) /\ Created(q)' = Created(q)
      BY <1>1 DEF Settled, Ends, Kept, Going, Moved, SavesOf, Created
    <3>2. Settled /\ Kept(q) /\ ~Going(q) => Faithful(q)'
      <4> SUFFICES ASSUME Settled, Kept(q), ~Going(q) PROVE Faithful(q)'
        OBVIOUS
      <4>1. Faithful(q)
        BY <2>1 DEF Good
      <4>2. Content(q) = file[q]
        <5>1. CASE Moved /\ q = moving.from
          <6>1. q \in Ends
            BY <5>1 DEF Moved, Ends
          <6>2. q # moving.to
            BY <5>1 DEF Kept
          <6>3. ~Exists(q)
            BY <2>1, <5>1, <6>1, <6>2 DEF Good, EndWaits
          <6> QED
            BY <1>1, <2>4, <6>3
        <5>2. CASE ~(Moved /\ q = moving.from)
          BY <5>2 DEF Content
        <5> QED
          BY <5>1, <5>2
      <4>3. /\ Text(q)' = Text(q) /\ Saved(q)' = Saved(q) /\ work' = work
            /\ Open(session)' = Open(session)
        BY <1>1 DEF Text, Saved
      <4> QED
        BY <1>3, <2>2, <2>4, <3>1, <4>1, <4>2, <4>3 DEF Faithful
    <3>3. \A s \in SavesOf(q) : SaveWaits(s)'
      BY <1>1, <2>1, <3>1 DEF Good, SaveWaits, SavesOf, Text
    <3>4. q \in Ends => EndWaits(q)'
      BY <1>1, <2>1, <3>1 DEF Good, EndWaits, Moved, Exists
    <3>5. \A r \in runs : r.path = q /\ r.visit = visit /\ ~r.unsaved => RunFresh(r)'
      BY <1>1, <2>1, <3>1 DEF Good, RunFresh, Exists, SavesOf
    <3>6. ~Settled /\ ~lossy => Left(q)'
      BY <1>1, <2>1 DEF Good, Left, Exists
    <3> QED
      BY <1>1, <2>1, <3>1, <3>2, <3>3, <3>4, <3>5, <3>6 DEF Good
  <2> QED
    BY <2>3, <2>4
<1> QED
  BY <1>1, <1>2, <1>4 DEF AllGood

\* A content that arrives is the file's, unless the user has typed over it.
LEMMA ArrivedIsFaithful ==
    ASSUME SessionInv, ReadArrives, NEW p \in Paths \ muddled, p = reading.path,
           Settled, Kept(p), ~Going(p), Content(p)' = Content(p)
    PROVE  Faithful(p)'
<1> DEFINE s == loaded(session, p, reading.got)
<1>1. /\ Shows(s)
      /\ UNCHANGED <<file, stored, visit, here, restoring, saves, runs, puts, moving,
                     edits, clicks, work, muddled, lossy>>
  BY DEF ReadArrives, serverVars, wires, observers
<1>2. /\ p \in Open(session) /\ reading.got # None
      /\ SessionOK(s, Written) /\ Open(s) = Open(session)
      /\ s.buffers[p].text = IF Text(p) = None THEN reading.got ELSE Text(p)
      /\ s.buffers[p].saved = reading.got
  BY ArrivedSession DEF SessionInv, Text
<1> HIDE DEF s
<1>3. session' = s /\ PageOK'
  BY <1>1, <1>2, ShowsTypes DEF SessionInv, Types
<1>4. Faithful(p) /\ Good(p)
  BY DEF SessionInv, AllGood, Good
<1>5. ~Created(p)
  BY <1>2, <1>4 DEF Created, Good, SaveWaits, SavesOf
<1>6. Text(p)' = (IF Text(p) = None THEN reading.got ELSE Text(p)) /\ Saved(p)' = reading.got
  BY <1>2, <1>3 DEF Text, Saved
<1>7. reading'.path # p
  <2>1. Saved(p)' # None
    BY <1>2, <1>6
  <2>2. p # Nowhere
    BY EditorAssumption
  <2> QED
    BY <1>3, <2>1, <2>2 DEF PageOK, Wants, needsLoad, Saved
<1>8. p \in Open(session)' /\ work' = work
  BY <1>1, <1>2, <1>3
<1> QED
  BY <1>2, <1>4, <1>5, <1>6, <1>7, <1>8 DEF Faithful

LEMMA ReadArrivesKeeps == SessionInv /\ ReadArrives => Page' /\ AllGood'
<1> SUFFICES ASSUME SessionInv, ReadArrives PROVE Page' /\ AllGood'
  OBVIOUS
<1> DEFINE p == reading.path
           s == loaded(session, p, reading.got)
<1>1. /\ here /\ Shows(s)
      /\ UNCHANGED <<file, stored, visit, here, restoring, saves, runs, puts, moving,
                     edits, clicks, work, muddled, lossy>>
  BY DEF ReadArrives, serverVars, wires, observers
<1>2. /\ p \in Open(session) /\ reading.got # None
      /\ SessionOK(s, Written) /\ Open(s) = Open(session)
      /\ s.buffers[p].text = IF Text(p) = None THEN reading.got ELSE Text(p)
      /\ \A q \in Open(session) : q # p => s.buffers[q] = session.buffers[q]
  BY ArrivedSession DEF SessionInv, Text
<1> HIDE DEF s
<1>3. session' = s /\ (reading'.got # None => reading' = reading)
  BY <1>1, <1>2, ShowsTypes DEF SessionInv, Types
<1>4. Page'
  <2>1. restoring => Open(s) \subseteq muddled'
    BY <1>1, <1>2 DEF SessionInv, Page, Settled
  <2> QED
    BY <1>1, <1>2, <2>1, PageShows DEF SessionInv
<1>5. ASSUME NEW q \in Paths \ muddled PROVE Good(q)'
  <2>1. Good(q)
    BY DEF SessionInv, AllGood
  <2>2. Content(q)' = Content(q)
    BY <1>1, SameContent
  <2>3. CASE q # p
    <3>1. Untouched(q)
      BY <1>1, <1>2, <1>3, <2>3 DEF Untouched, SameTab, SavesOf
    <3> QED
      BY <1>1, <2>1, <2>2, <3>1, GoodStays
  <2>4. CASE q = p
    <3>1. /\ Settled' = Settled /\ Ends' = Ends /\ Kept(q)' = Kept(q) /\ Going(q)' = Going(q)
          /\ SavesOf(q)' = SavesOf(q)
      BY <1>1 DEF Settled, Ends, Kept, Going, Moved, SavesOf
    <3>2. Settled /\ Kept(q) /\ ~Going(q) => Faithful(q)'
      BY <2>2, <2>4, ArrivedIsFaithful
    <3>3. \A x \in SavesOf(q) : SaveWaits(x)'
      <4> SUFFICES ASSUME NEW x \in SavesOf(q) PROVE SaveWaits(x)'
        OBVIOUS
      <4>1. SaveWaits(x) /\ x.path = q
        BY <2>1 DEF Good, SavesOf
      <4>2. x.text # None
        <5>1. x \in Save
          BY DEF SavesOf, SessionInv, Types, WiresOK
        <5> QED
          BY <5>1 DEF Save, Written, None
      <4>3. Text(q) = x.text => Text(q)' = x.text
        BY <1>2, <1>3, <2>4, <4>2 DEF Text
      <4> QED
        BY <1>1, <1>2, <1>3, <3>1, <4>1, <4>3 DEF SaveWaits
    <3>4. q \in Ends => EndWaits(q)'
      BY <1>1, <1>2, <1>3, <2>1, <3>1 DEF Good, EndWaits, Moved, Exists
    <3>5. \A r \in runs : r.path = q /\ r.visit = visit /\ ~r.unsaved => RunFresh(r)'
      BY <1>1, <2>1, <3>1 DEF Good, RunFresh, Exists, SavesOf
    <3>6. ~Settled /\ ~lossy => Left(q)'
      BY <1>1, <2>1 DEF Good, Left, Exists
    <3> QED
      BY <1>1, <2>1, <3>1, <3>2, <3>3, <3>4, <3>5, <3>6 DEF Good
  <2> QED
    BY <2>3, <2>4
<1> QED
  BY <1>1, <1>4, <1>5 DEF AllGood

\* The steps that are only about the stored session.
LEMMA OnlyStored ==
    ASSUME SessionInv, UNCHANGED <<file, visit, here, restoring, session, reading, saves, runs,
                             moving, work, muddled>>,
           ~Settled /\ ~lossy' => ~lossy /\ stored' = stored
    PROVE  AllGood'
<1> SUFFICES ASSUME NEW q \in Paths \ muddled PROVE Good(q)'
  BY DEF AllGood
<1>1. Good(q) /\ Content(q)' = Content(q)
  BY SameContent DEF SessionInv, AllGood
<1>2. Untouched(q)
  BY DEF Untouched, SameTab, SavesOf
<1> QED
  BY <1>1, <1>2, GoodStays

\* The timer fires: what is sent is what the page shows.
LEMMA FireKeeps == SessionInv /\ Fire => Page' /\ AllGood'
<1> SUFFICES ASSUME SessionInv, Fire PROVE Page' /\ AllGood'
  OBVIOUS
<1> DEFINE st == toPersisted(session)
<1>1. /\ armed /\ armed' = FALSE /\ puts' = Append(puts, st)
      /\ UNCHANGED <<file, stored, visit, here, restoring, session, reading,
                     saves, runs, moving, edits, clicks, work, muddled, lossy>>
  BY DEF Fire, serverVars, observers
<1>2. AllGood'
  BY <1>1, OnlyStored
<1>3. Settled /\ Settled'
  BY <1>1 DEF SessionInv, Page, Settled
<1>4. puts' # <<>> /\ puts'[Len(puts')] = st
  <2>1. puts \in Seq(State(Written)) /\ StateOK(st, Written)
    BY ToPersisted DEF SessionInv, Types, StoreOK, PageOK
  <2> HIDE DEF st
  <2>2. st \in State(Written)
    BY <2>1 DEF StateOK
  <2>3. Len(puts') = Len(puts) + 1 /\ Len(puts) \in Nat /\ puts'[Len(puts) + 1] = st
        /\ puts' \in Seq(State(Written))
    BY <1>1, <2>1, <2>2, AppendProperties
  <2>4. puts' # <<>>
    BY <2>3, EmptySeq
  <2> QED
    BY <2>3, <2>4
<1>5. Page'
  BY <1>1, <1>3, <1>4 DEF Page, Sent
<1> QED
  BY <1>2, <1>5

\* The oldest PUT is written, or a later one overtakes it and that one may win.
LEMMA PutKeeps == ASSUME NEW i \in 1..Len(puts) PROVE SessionInv /\ Put(i) => Page' /\ AllGood'
<1> SUFFICES ASSUME SessionInv, Put(i) PROVE Page' /\ AllGood'
  OBVIOUS
<1>1. /\ stored' = _with_valid_active(puts[i])
      /\ lossy' = (lossy \/ i > 1)
      /\ puts' = [j \in 1..(Len(puts) - 1) |-> IF j < i THEN puts[j] ELSE puts[j + 1]]
      /\ UNCHANGED <<file, visit, here, restoring, session, reading, armed,
                     saves, runs, moving, edits, clicks, work, muddled>>
  BY DEF Put, pageVars
<1>2. puts # <<>> /\ Settled' = Settled
  <2>1. Len(<<>>) = 0 /\ 1..0 = {}
    BY EmptySeq
  <2>2. puts # <<>>
    BY <2>1
  <2>3. Settled' = Settled
    BY <1>1 DEF Settled
  <2> QED
    BY <2>2, <2>3
<1>3. ~Settled => lossy /\ lossy'
  <2>1. ~Settled => lossy
    BY <1>2 DEF SessionInv, Page
  <2>2. lossy => lossy'
    BY <1>1
  <2> QED
    BY <2>1, <2>2
<1>4. AllGood'
  BY <1>1, <1>3, OnlyStored
<1>5. StateOK(puts[i], Written)
  BY DEF SessionInv, Types, StoreOK
<1>6. stored'.tabs = puts[i].tabs
  BY <1>1, <1>5, ValidActive
<1>7. /\ Len(puts) \in Nat /\ Len(puts') = Len(puts) - 1 /\ puts' \in Seq(State(Written))
      /\ i = 1 /\ puts' # <<>> => puts'[Len(puts')] = puts[Len(puts)]
  BY <1>1, FewerPuts DEF SessionInv, Types
<1>8. ~lossy' => ~lossy /\ i = 1
  <2>1. ~lossy' => ~lossy /\ ~(i > 1)
    BY <1>1
  <2>2. i \in Nat /\ i >= 1
    BY <1>7
  <2> QED
    BY <2>1, <2>2
<1>9. puts' = <<>> => Len(puts) = 1
  BY <1>7, EmptySeq
<1>10. Sent'
  <2> SUFFICES ASSUME Settled', ~lossy', ~armed'
      PROVE  IF puts' = <<>> THEN stored'.tabs = toPersisted(session)'.tabs
             ELSE puts'[Len(puts')].tabs = toPersisted(session)'.tabs
    BY DEF Sent
  <2>1. puts[Len(puts)].tabs = toPersisted(session).tabs
    BY <1>1, <1>2, <1>8 DEF SessionInv, Page, Sent
  <2>2. toPersisted(session)' = toPersisted(session)
    BY <1>1
  <2> QED
    BY <1>6, <1>7, <1>8, <1>9, <2>1, <2>2
<1> QED
  BY <1>1, <1>2, <1>3, <1>4, <1>10 DEF SessionInv, Page

LEMMA PutLostKeeps == SessionInv /\ PutLost => Page' /\ AllGood'
<1> SUFFICES ASSUME SessionInv, PutLost PROVE Page' /\ AllGood'
  OBVIOUS
<1>1. /\ lossy' = TRUE
      /\ UNCHANGED <<file, stored, visit, here, restoring, session, reading, armed,
                     saves, runs, moving, edits, clicks, work, muddled>>
  BY DEF PutLost, pageVars, serverVars
<1>2. AllGood'
  BY <1>1, OnlyStored
<1>3. Page'
  BY <1>1 DEF SessionInv, Page, Sent, Settled
<1> QED
  BY <1>2, <1>3

-----------------------------------------------------------------------------
(* Every step keeps the invariant: the tabs.                               *)

\* A path the user touches while no request is on its way about it.
LEMMA TouchedGood ==
    ASSUME NEW p \in Paths, Settled', p \notin Ends', SavesOf(p)' = {}, Faithful(p)',
           \A r \in runs' : r.path = p /\ r.visit = visit' /\ ~r.unsaved => RunFresh(r)'
    PROVE  Good(p)'
<1>1. ~Going(p)'
  BY DEF Going, Ends
<1> QED
  BY <1>1 DEF Good

\* Steps that show another session, which differs in one path at most.
LEMMA OnePathShown ==
    ASSUME SessionInv, here, NEW p \in Paths,
           Open(session)' \ {p} = Open(session) \ {p},
           \A q \in Open(session) : q # p => session'.buffers[q] = session.buffers[q],
           \A q \in Paths : q # p => work'[q] = work[q],
           muddled' = muddled \cup {q \in {p} : Busy(q) \/ restoring},
           reading'.got # None => reading' = reading,
           UNCHANGED <<file, stored, visit, here, restoring, saves, runs, moving, lossy>>,
           p \notin muddled' =>
              /\ Faithful(p)'
              /\ \A r \in runs : RunFresh(r) /\ r.path = p => work'[p] >= r.shown
    PROVE  AllGood' /\ (restoring => Open(session)' \subseteq muddled')
<1>1. ASSUME NEW q \in Paths \ muddled' PROVE Good(q)'
  <2>1. q \in Paths \ muddled /\ Good(q)
    BY DEF SessionInv, AllGood
  <2>2. Content(q)' = Content(q)
    BY SameContent
  <2>3. CASE q # p
    <3>1. Untouched(q)
      BY <2>3 DEF Untouched, SameTab, SavesOf
    <3> QED
      BY <2>1, <2>2, <3>1, GoodStays
  <2>4. CASE q = p
    <3>1. Settled /\ SavesOf(p) = {} /\ p \notin Ends
      BY <2>4, Touched DEF SessionInv, Types
    <3>2. Settled' = Settled /\ SavesOf(p)' = SavesOf(p) /\ Ends' = Ends
      BY DEF Settled, SavesOf, Ends
    <3>3. ASSUME NEW r \in runs, r.path = p, r.visit = visit, ~r.unsaved PROVE RunFresh(r)'
      <4>1. RunFresh(r) /\ work'[p] >= r.shown
        BY <2>1, <2>4, <3>3 DEF Good
      <4> QED
        BY <3>2, <3>3, <4>1 DEF RunFresh, Exists
    <3> QED
      BY <2>4, <3>1, <3>2, <3>3, TouchedGood
  <2> QED
    BY <2>3, <2>4
<1>2. ASSUME restoring PROVE Open(session)' \subseteq muddled'
  <2>1. Open(session) \subseteq muddled /\ p \in muddled'
    BY <1>2 DEF SessionInv, Page, Settled
  <2> QED
    BY <2>1
<1> QED
  BY <1>1, <1>2 DEF AllGood

\* A keystroke makes the newest text of one path.
LEMMA EditKeeps == SessionInv /\ Edit => Page' /\ AllGood'
<1> SUFFICES ASSUME SessionInv, Edit PROVE Page' /\ AllGood'
  OBVIOUS
<1>0. PICK p \in Paths : p = session.active
  BY EditedSession DEF SessionInv
<1> DEFINE s == edit(session, p, edits + 1)
<1>1. /\ here /\ edits' = edits + 1 /\ Shows(s)
      /\ work' = [work EXCEPT ![p] = edits + 1]
      /\ muddled' = muddled \cup {q \in {p} : Busy(q) \/ restoring}
      /\ UNCHANGED <<file, stored, visit, here, restoring, saves, runs, puts, moving,
                     clicks, lossy>>
  BY <1>0 DEF Edit, serverVars, wires, Touch
<1>2. /\ p \in Open(session) /\ Text(p) # None
      /\ s.active = p /\ Open(s) = Open(session)
      /\ s.buffers[p].text = edits + 1
      /\ s.buffers[p].saved = Saved(p)
      /\ \A q \in Open(session) : q # p => s.buffers[q] = session.buffers[q]
  BY <1>0, EditedSession DEF SessionInv, Text, Saved
<1>3. edits \in Nat /\ work \in [Paths -> Written \cup {None}]
  BY DEF SessionInv, Types, CountsOK, FilesOK
<1>4. /\ \A t \in Written \cup {None} : t # edits + 1 /\ edits + 1 >= t
      /\ edits + 1 # None
  BY <1>3 DEF Written, None
<1> HIDE DEF s
<1>5. session' = s /\ armed' = (armed \/ (~restoring /\ s # session))
  BY <1>1 DEF Shows
<1>6. Wants(s) = Wants(session) /\ s.active = session.active
  BY <1>0, <1>2 DEF Wants, needsLoad, Saved
<1>7. reading' = reading
  BY <1>1, <1>6 DEF Shows, Reread
<1>8. work'[p] = edits + 1 /\ \A q \in Paths : q # p => work'[q] = work[q]
  BY <1>1, <1>2, <1>3
<1>9. ASSUME p \notin muddled' PROVE Faithful(p)'
  <2>1. Faithful(p) /\ Settled
    BY <1>1, <1>2, <1>9, Touched DEF SessionInv, Types
  <2>2. Text(p)' = edits + 1 /\ Saved(p)' = Saved(p) /\ p \in Open(session)'
    BY <1>2, <1>5 DEF Text, Saved
  <2>3. Content(p)' = Content(p)
    BY <1>1, SameContent
  <2>4. Saved(p) # edits + 1 /\ reading.got # edits + 1
    <3>1. Saved(p) \in Written \cup {None}
      BY <1>2, TextOf DEF SessionInv, Saved
    <3>2. reading.got \in Written \cup {None}
      BY DEF SessionInv, Types, PageOK, Read
    <3> QED
      BY <1>4, <3>1, <3>2
  <2> QED
    BY <1>2, <1>4, <1>7, <1>8, <2>1, <2>2, <2>3, <2>4 DEF Faithful
<1>10. \A r \in runs : work'[p] >= r.shown
  <2> SUFFICES ASSUME NEW r \in runs PROVE work'[p] >= r.shown
    OBVIOUS
  <2>1. r.shown \in Written \cup {None}
    BY DEF SessionInv, Types, WiresOK, Job
  <2> QED
    BY <1>4, <1>8, <2>1
<1>11. Open(session)' \ {p} = Open(session) \ {p}
       /\ \A q \in Open(session) : q # p => session'.buffers[q] = session.buffers[q]
  BY <1>2, <1>5
<1>12. AllGood' /\ (restoring => Open(session)' \subseteq muddled')
  BY <1>1, <1>2, <1>7, <1>8, <1>9, <1>10, <1>11, OnePathShown
<1>13. Page'
  <2>1. Settled' = Settled
    BY <1>1 DEF Settled
  <2>2. CASE Settled
    <3>1. ~armed' => ~armed /\ session' = session
      BY <1>5, <2>2 DEF Settled
    <3> QED
      BY <1>1, <2>1, <2>2, <3>1 DEF SessionInv, Page, Sent
  <2>3. CASE ~Settled
    <3>1. restoring
      BY <1>1, <2>3 DEF Settled
    <3>2. ~armed'
      BY <1>5, <2>3, <3>1 DEF SessionInv, Page
    <3> QED
      BY <1>1, <1>12, <2>1, <2>3, <3>1, <3>2 DEF SessionInv, Page, Sent
  <2> QED
    BY <2>2, <2>3
<1> QED
  BY <1>12, <1>13

\* A tab that is opened shows nothing until its content is there.
LEMMA OpenFileKeeps == ASSUME NEW p \in Paths PROVE SessionInv /\ OpenFile(p) => Page' /\ AllGood'
<1> SUFFICES ASSUME SessionInv, OpenFile(p) PROVE Page' /\ AllGood'
  OBVIOUS
<1> DEFINE s == openTab(session, p)
<1>1. /\ here /\ Exists(p) /\ Shows(s)
      /\ muddled' = muddled \cup {q \in {p} : Busy(q) \/ restoring}
      /\ UNCHANGED <<file, stored, visit, here, restoring, saves, runs, puts, moving,
                     edits, clicks, work, lossy>>
  BY DEF OpenFile, serverVars, wires, Touch
<1>2. /\ SessionOK(s, Written)
      /\ Open(s) = Open(session) \cup {p}
      /\ \A q \in Open(session) : s.buffers[q] = session.buffers[q]
      /\ p \notin Open(session) => s.buffers[p] = [text |-> None, saved |-> None]
  BY OpenTab DEF SessionInv, Types, PageOK
<1> HIDE DEF s
<1>3. session' = s /\ (reading'.got # None => reading' = reading)
  BY <1>1, <1>2, ShowsTypes DEF SessionInv, Types
<1>4. ASSUME p \notin muddled' PROVE Faithful(p)'
  <2>1. Faithful(p) /\ ~Created(p) /\ Content(p) = file[p]
    BY <1>1, <1>4, Touched DEF SessionInv, Types
  <2>2. Content(p)' = Content(p) /\ Created(p)' = Created(p)
    BY <1>1, SameContent DEF Created, SavesOf
  <2>3. CASE p \in Open(session)
    <3>1. Untouched(p)
      BY <1>1, <1>2, <1>3, <2>3 DEF Untouched, SameTab, SavesOf
    <3> QED
      BY <2>1, <2>2, <3>1, FaithfulStays DEF Untouched
  <2>4. CASE p \notin Open(session)
    <3>1. Text(p)' = None /\ Saved(p)' = None /\ p \in Open(session)'
      BY <1>2, <1>3, <2>4 DEF Text, Saved
    <3>2. reading.path # p
      BY <2>4, ReadingIsWanted, EditorAssumption DEF SessionInv, Types
    <3>3. ~(reading'.path = p /\ reading'.got # None)
      BY <1>3, <3>2
    <3> QED
      BY <1>1, <2>1, <2>2, <2>4, <3>1, <3>3 DEF Faithful, Exists
  <2> QED
    BY <2>3, <2>4
<1>5. p \notin muddled' => \A r \in runs : RunFresh(r) /\ r.path = p => work'[p] >= r.shown
  <2> SUFFICES ASSUME p \notin muddled' PROVE \A r \in runs : RunFresh(r) /\ r.path = p => work'[p] >= r.shown
    OBVIOUS
  <2>1. Settled
    BY <1>1, Touched DEF SessionInv, Types
  <2> QED
    BY <1>1, <2>1 DEF RunFresh
<1>6. Open(session)' \ {p} = Open(session) \ {p}
      /\ \A q \in Open(session) : q # p => session'.buffers[q] = session.buffers[q]
  BY <1>2, <1>3
<1>7. AllGood' /\ (restoring => Open(session)' \subseteq muddled')
  BY <1>1, <1>3, <1>4, <1>5, <1>6, OnePathShown
<1>8. Page'
  BY <1>1, <1>2, <1>3, <1>7, PageShows DEF SessionInv
<1> QED
  BY <1>7, <1>8

LEMMA SwitchToKeeps == ASSUME NEW p \in Paths PROVE SessionInv /\ SwitchTo(p) => Page' /\ AllGood'
<1> SUFFICES ASSUME SessionInv, SwitchTo(p) PROVE Page' /\ AllGood'
  OBVIOUS
<1> DEFINE s == activate(session, p)
<1>1. /\ here /\ Shows(s)
      /\ muddled' = muddled \cup {q \in {p} : Busy(q) \/ restoring}
      /\ UNCHANGED <<file, stored, visit, here, restoring, saves, runs, puts, moving,
                     edits, clicks, work, lossy>>
  BY DEF SwitchTo, serverVars, wires, Touch
<1>2. SessionOK(s, Written) /\ s.buffers = session.buffers
  BY Activate DEF SessionInv, Types, PageOK
<1> HIDE DEF s
<1>3. session' = s /\ (reading'.got # None => reading' = reading)
  BY <1>1, <1>2, ShowsTypes DEF SessionInv, Types
<1>4. Open(s) = Open(session) /\ Open(session)' = Open(session)
  BY <1>2, <1>3 DEF Open
<1>5. ASSUME p \notin muddled' PROVE Faithful(p)'
  <2>1. Faithful(p)
    BY <1>1, <1>5, Touched DEF SessionInv, Types
  <2>2. Untouched(p) /\ Content(p)' = Content(p)
    BY <1>1, <1>2, <1>3, <1>4, SameContent DEF Untouched, SameTab, SavesOf
  <2> QED
    BY <2>1, <2>2, FaithfulStays DEF Untouched
<1>6. p \notin muddled' => \A r \in runs : RunFresh(r) /\ r.path = p => work'[p] >= r.shown
  <2> SUFFICES ASSUME p \notin muddled' PROVE \A r \in runs : RunFresh(r) /\ r.path = p => work'[p] >= r.shown
    OBVIOUS
  <2>1. Settled
    BY <1>1, Touched DEF SessionInv, Types
  <2> QED
    BY <1>1, <2>1 DEF RunFresh
<1>7. \A q \in Open(session) : q # p => session'.buffers[q] = session.buffers[q]
  BY <1>2, <1>3
<1>8. AllGood' /\ (restoring => Open(session)' \subseteq muddled')
  BY <1>1, <1>3, <1>4, <1>5, <1>6, <1>7, OnePathShown
<1>9. Page'
  BY <1>1, <1>2, <1>3, <1>8, PageShows DEF SessionInv
<1> QED
  BY <1>8, <1>9

\* A dirty tab that is closed is given up; a clean one is in the file.
LEMMA CloseKeeps == ASSUME NEW p \in Paths PROVE SessionInv /\ Close(p) => Page' /\ AllGood'
<1> SUFFICES ASSUME SessionInv, Close(p) PROVE Page' /\ AllGood'
  OBVIOUS
<1> DEFINE s == closeTab(session, p)
<1>1. /\ here /\ Shows(s) /\ p \in Open(session)
      /\ work' = [work EXCEPT ![p] = IF isDirty(session, p) THEN file[p] ELSE @]
      /\ muddled' = muddled \cup {q \in {p} : Busy(q) \/ restoring}
      /\ UNCHANGED <<file, stored, visit, here, restoring, saves, runs, puts, moving,
                     edits, clicks, lossy>>
  BY DEF Close, serverVars, wires, Touch
<1>2. /\ SessionOK(s, Written)
      /\ Open(s) = Open(session) \ {p}
      /\ \A q \in Open(s) : s.buffers[q] = session.buffers[q]
  BY CloseTab DEF SessionInv, Types, PageOK
<1> HIDE DEF s
<1>3. session' = s /\ (reading'.got # None => reading' = reading)
  BY <1>1, <1>2, ShowsTypes DEF SessionInv, Types
<1>4. /\ work'[p] = IF isDirty(session, p) THEN file[p] ELSE work[p]
      /\ \A q \in Paths : q # p => work'[q] = work[q]
  BY <1>1 DEF SessionInv, Types, FilesOK
<1>5. isDirty(session, p) <=> Text(p) # None /\ Text(p) # Saved(p)
  BY <1>1 DEF isDirty, Text, Saved
<1>6. ASSUME p \notin muddled' PROVE Faithful(p)'
  <2>1. Faithful(p) /\ ~Created(p) /\ Content(p) = file[p]
    BY <1>1, <1>6, Touched DEF SessionInv, Types
  <2>2. Content(p)' = file[p]
    BY <1>1, <2>1, SameContent
  <2>3. file[p] = work'[p]
    BY <1>1, <1>4, <1>5, <2>1 DEF Faithful
  <2>4. p \notin Open(session)'
    BY <1>2, <1>3
  <2> QED
    BY <2>2, <2>3, <2>4 DEF Faithful
<1>7. p \notin muddled' => \A r \in runs : RunFresh(r) /\ r.path = p => work'[p] >= r.shown
  <2> SUFFICES ASSUME p \notin muddled' PROVE \A r \in runs : RunFresh(r) /\ r.path = p => work'[p] >= r.shown
    OBVIOUS
  <2>1. Settled
    BY <1>1, Touched DEF SessionInv, Types
  <2> QED
    BY <1>4, <2>1 DEF RunFresh
<1>8. Open(session)' \ {p} = Open(session) \ {p}
      /\ \A q \in Open(session) : q # p => session'.buffers[q] = session.buffers[q]
  BY <1>2, <1>3
<1>9. AllGood' /\ (restoring => Open(session)' \subseteq muddled')
  BY <1>1, <1>3, <1>4, <1>6, <1>7, <1>8, OnePathShown
<1>10. Page'
  BY <1>1, <1>2, <1>3, <1>9, PageShows DEF SessionInv
<1> QED
  BY <1>9, <1>10

-----------------------------------------------------------------------------
(* Every step keeps the invariant: the clicks.                             *)

\* Requests and answers that change neither session nor store.
LEMMA PageSame ==
    ASSUME Page, UNCHANGED <<here, restoring, session, armed, stored, puts, lossy>>,
           muddled \subseteq muddled'
    PROVE  Page'
<1>1. Settled' = Settled
  BY DEF Settled
<1> QED
  BY <1>1 DEF Page, Sent

\* One more request to write.
LEMMA SaveAdded ==
    ASSUME NEW p, NEW x, x.path = p, saves' = saves \cup {x}
    PROVE  /\ SavesOf(p)' = SavesOf(p) \cup {x}
           /\ \A q : q # p => SavesOf(q)' = SavesOf(q)
BY DEF SavesOf

\* A request to write what the tab shows.
LEMMA WriteAsked ==
    ASSUME SessionInv, here, NEW p \in Paths, p \in Open(session), Text(p) # None,
           NEW kind \in {"save", "run"},
           saves' = saves \cup {Request(p, Text(p), kind)},
           muddled' = muddled \cup {q \in {p} : Busy(q) \/ restoring},
           UNCHANGED <<file, stored, pageVars, runs, puts, moving, work, lossy>>
    PROVE  Page' /\ AllGood'
<1>0. UNCHANGED <<visit, here, restoring, session, reading, armed>>
  BY DEF pageVars
<1>1. Page'
  BY <1>0, PageSame DEF SessionInv
<1>2. PICK x : x = Request(p, Text(p), kind)
  OBVIOUS
<1>3. /\ x.path = p /\ x.visit = visit /\ x.text = Text(p) /\ x.kind = kind /\ x.stage = "sent"
      /\ saves' = saves \cup {x}
  BY <1>2 DEF Request
<1>4. /\ SavesOf(p)' = SavesOf(p) \cup {x}
      /\ \A q : q # p => SavesOf(q)' = SavesOf(q)
  BY <1>3, SaveAdded
<1>5. ASSUME NEW q \in Paths \ muddled' PROVE Good(q)'
  <2>1. q \in Paths \ muddled /\ Good(q)
    BY DEF SessionInv, AllGood
  <2>2. Content(q)' = Content(q)
    BY SameContent
  <2>3. CASE q # p
    <3>1. Untouched(q)
      BY <1>0, <1>4, <2>3 DEF Untouched, SameTab
    <3> QED
      BY <1>0, <2>1, <2>2, <3>1, GoodStays
  <2>4. CASE q = p
    <3>1. /\ Settled /\ SavesOf(p) = {} /\ p \notin Ends /\ ~Created(p) /\ Faithful(p) /\ Good(p)
      BY <2>4, Touched DEF SessionInv, Types
    <3>2. /\ Settled' /\ SavesOf(p)' = {x} /\ p \notin Ends' /\ ~Created(p)'
          /\ Open(session)' = Open(session) /\ Text(p)' = Text(p) /\ Saved(p)' = Saved(p)
      BY <1>0, <1>3, <1>4, <3>1 DEF Settled, Ends, Created, Text, Saved
    <3>3. ~Going(p)'
      BY <3>2 DEF Going, Ends
    <3>4. Faithful(p)'
      BY <1>0, <2>2, <2>4, <3>1, <3>2 DEF Faithful
    <3>5. SaveWaits(x)'
      BY <1>0, <1>3, <3>2 DEF SaveWaits
    <3>6. ASSUME NEW r \in runs, r.path = p, r.visit = visit, ~r.unsaved PROVE RunFresh(r)'
      <4>1. RunFresh(r) /\ Text(p) = work[p]
        BY <3>1, <3>6 DEF Good, Faithful
      <4> QED
        BY <1>0, <1>3, <3>1, <3>2, <3>6, <4>1 DEF RunFresh, Exists
    <3> QED
      BY <1>0, <2>4, <3>2, <3>3, <3>4, <3>5, <3>6 DEF Good
  <2> QED
    BY <2>3, <2>4
<1> QED
  BY <1>1, <1>5 DEF AllGood

\* The two ways a tab is asked to be written, and the ways a job is asked for.
LEMMA ClickSaveKeeps == SessionInv /\ ClickSave => Page' /\ AllGood'
<1> SUFFICES ASSUME SessionInv, ClickSave PROVE Page' /\ AllGood'
  OBVIOUS
<1>0. session.active \in Open(session)
  BY DEF ClickSave
<1>1. PICK p \in Paths : p = session.active
  BY <1>0, TextOf DEF SessionInv
<1>2. /\ here /\ p \in Open(session) /\ Text(p) # None
      /\ saves' = saves \cup {Request(p, Text(p), "save")}
      /\ muddled' = muddled \cup {q \in {p} : Busy(q) \/ restoring}
      /\ UNCHANGED <<file, stored, pageVars, runs, puts, moving, edits, work, lossy>>
  BY <1>1 DEF ClickSave, Click, Touch, serverVars, Text
<1> QED
  BY <1>2, WriteAsked

\* A run that is asked for at once shows what is in the file.
LEMMA RunAsked ==
    ASSUME SessionInv, here, NEW p \in Paths, p \in Open(session), ~isDirty(session, p),
           NEW x, x.path = p, x.visit = visit, x.shown = Text(p),
           runs' = runs \cup {x},
           muddled' = muddled \cup {q \in {p} : Busy(q) \/ restoring},
           UNCHANGED <<file, stored, pageVars, saves, puts, moving, work, lossy>>
    PROVE  Page' /\ AllGood'
<1>0. UNCHANGED <<visit, here, restoring, session, reading, armed>>
  BY DEF pageVars
<1>1. Page'
  BY <1>0, PageSame DEF SessionInv
<1>2. ASSUME NEW q \in Paths \ muddled' PROVE Good(q)'
  <2>1. q \in Paths \ muddled /\ Good(q)
    BY DEF SessionInv, AllGood
  <2>2. Content(q)' = Content(q)
    BY SameContent
  <2>3. CASE q # p
    <3>1. Untouched(q)
      BY <1>0, <2>3 DEF Untouched, SameTab, SavesOf
    <3> QED
      BY <1>0, <2>1, <2>2, <3>1, GoodStays
  <2>4. CASE q = p
    <3>1. /\ Settled /\ SavesOf(p) = {} /\ p \notin Ends /\ Faithful(p) /\ Good(p)
          /\ Content(p) = file[p]
      BY <2>4, Touched DEF SessionInv, Types
    <3>2. /\ Settled' /\ SavesOf(p)' = {} /\ p \notin Ends'
      BY <1>0, <3>1 DEF Settled, Ends, SavesOf
    <3>3. Faithful(p)'
      <4>1. ~Created(p) /\ ~Created(p)'
        BY <3>1, <3>2 DEF Created
      <4>2. /\ Open(session)' = Open(session) /\ Text(p)' = Text(p) /\ Saved(p)' = Saved(p)
            /\ work' = work
        BY <1>0 DEF Text, Saved
      <4> QED
        BY <1>0, <2>2, <2>4, <3>1, <4>1, <4>2 DEF Faithful
    <3>4. file[p] \in Written \cup {None} /\ work[p] \in Written \cup {None}
      BY DEF SessionInv, Types, FilesOK
    <3>5. /\ Exists(p) /\ file[p] >= Text(p) /\ work[p] >= Text(p)
      <4>1. file[p] # None
        BY <3>1 DEF Faithful
      <4>2. CASE Text(p) = None
        BY <3>4, <4>1, <4>2 DEF Written, None, Exists, SessionInv, Types, CountsOK
      <4>3. CASE Text(p) # None
        <5>1. Text(p) = Saved(p) /\ Text(p) = work[p] /\ file[p] = Text(p)
          BY <3>1, <4>3 DEF Faithful, isDirty, Text, Saved
        <5>2. Text(p) \in Int
          BY <3>4, <5>1 DEF Written, None
        <5> QED
          BY <4>1, <5>1, <5>2 DEF Exists
      <4> QED
        BY <4>2, <4>3
    <3>6. ASSUME NEW r \in runs', r.path = p, r.visit = visit, ~r.unsaved PROVE RunFresh(r)'
      <4>1. Exists(p)' = Exists(p)
        BY DEF Exists
      <4>2. CASE r = x
        BY <1>0, <3>2, <3>5, <4>1, <4>2 DEF RunFresh, Settled
      <4>3. CASE r \in runs
        <5>1. RunFresh(r)
          BY <3>1, <3>6, <4>3 DEF Good
        <5> QED
          BY <1>0, <3>1, <3>2, <3>6, <4>1, <5>1 DEF RunFresh
      <4> QED
        BY <4>2, <4>3
    <3> QED
      BY <1>0, <2>4, <3>2, <3>3, <3>6, TouchedGood
  <2> QED
    BY <2>3, <2>4
<1> QED
  BY <1>1, <1>2 DEF AllGood

LEMMA ClickRunKeeps == SessionInv /\ ClickRun => Page' /\ AllGood'
<1> SUFFICES ASSUME SessionInv, ClickRun PROVE Page' /\ AllGood'
  OBVIOUS
<1>0. session.active \in Open(session)
  BY DEF ClickRun
<1>1. PICK p \in Paths : p = session.active
  BY <1>0, TextOf DEF SessionInv
<1>2. /\ here /\ p \in Open(session)
      /\ IF isDirty(session, p)
         THEN saves' = saves \cup {Request(p, Text(p), "run")} /\ runs' = runs
         ELSE runs' = runs \cup {Submission(clicks + 1, p, Text(p), FALSE)} /\ saves' = saves
      /\ muddled' = muddled \cup {q \in {p} : Busy(q) \/ restoring}
      /\ UNCHANGED <<file, stored, pageVars, puts, moving, edits, work, lossy>>
  BY <1>1 DEF ClickRun, Click, SaveFirst, Touch, serverVars, Text
<1>3. CASE isDirty(session, p)
  <2>1. Text(p) # None
    BY <1>3 DEF isDirty, Text
  <2> QED
    BY <1>2, <1>3, <2>1, WriteAsked
<1>4. CASE ~isDirty(session, p)
  <2>1. PICK x : x = Submission(clicks + 1, p, Text(p), FALSE)
    OBVIOUS
  <2>2. x.path = p /\ x.visit = visit /\ x.shown = Text(p) /\ runs' = runs \cup {x}
    BY <1>2, <1>4, <2>1 DEF Submission
  <2> QED
    BY <1>2, <1>4, <2>2, RunAsked
<1> QED
  BY <1>3, <1>4

\* A file is created only where there is no tab.
LEMMA ClickCreateKeeps ==
    ASSUME NEW p \in Paths PROVE SessionInv /\ ClickCreate(p) => Page' /\ AllGood'
<1> SUFFICES ASSUME SessionInv, ClickCreate(p) PROVE Page' /\ AllGood'
  OBVIOUS
<1>0. /\ here
      /\ saves' = saves \cup {Request(p, 0, "create")}
      /\ work' = [work EXCEPT ![p] = 0]
      /\ muddled' = muddled \cup {q \in {p} : Busy(q) \/ restoring \/ Exists(q)}
      /\ UNCHANGED <<file, stored, visit, here, restoring, session, reading, armed,
                     runs, puts, moving, edits, lossy>>
  BY DEF ClickCreate, Click, serverVars, pageVars
<1>1. Page'
  BY <1>0, PageSame DEF SessionInv
<1>2. PICK x : x = Request(p, 0, "create")
  OBVIOUS
<1>3. /\ x.path = p /\ x.visit = visit /\ x.text = 0 /\ x.kind = "create" /\ x.stage = "sent"
      /\ saves' = saves \cup {x}
  BY <1>0, <1>2 DEF Request
<1>4. /\ SavesOf(p)' = SavesOf(p) \cup {x}
      /\ \A q : q # p => SavesOf(q)' = SavesOf(q)
  BY <1>3, SaveAdded
<1>5. work'[p] = 0 /\ \A q \in Paths : q # p => work'[q] = work[q]
  BY <1>0 DEF SessionInv, Types, FilesOK
<1>6. ASSUME NEW q \in Paths \ muddled' PROVE Good(q)'
  <2>1. q \in Paths \ muddled /\ Good(q)
    BY <1>0 DEF SessionInv, AllGood
  <2>2. Content(q)' = Content(q)
    BY <1>0, SameContent
  <2>3. CASE q # p
    <3>1. Untouched(q)
      BY <1>0, <1>4, <1>5, <2>3 DEF Untouched, SameTab
    <3> QED
      BY <1>0, <2>1, <2>2, <3>1, GoodStays
  <2>4. CASE q = p
    <3>0. p \notin muddled \cup {t \in {p} : Busy(t) \/ restoring} /\ ~Exists(p)
      BY <1>0, <2>4
    <3>1. /\ Settled /\ SavesOf(p) = {} /\ p \notin Ends /\ Faithful(p) /\ Good(p)
          /\ Content(p) = file[p]
      BY <1>0, <3>0, Touched DEF SessionInv, Types
    <3>2. p \notin Open(session)
      BY <3>0, <3>1 DEF Faithful, Exists
    <3>3. /\ Settled' /\ SavesOf(p)' = {x} /\ p \notin Ends' /\ Created(p)'
          /\ p \notin Open(session)'
      BY <1>0, <1>3, <1>4, <3>1, <3>2 DEF Settled, Ends, Created
    <3>4. ~Going(p)'
      BY <3>3 DEF Going, Ends
    <3>5. Faithful(p)'
      BY <3>3 DEF Faithful
    <3>6. SaveWaits(x)'
      BY <1>0, <1>3, <1>5, <3>3 DEF SaveWaits
    <3>7. \A r \in runs : ~(r.path = p /\ r.visit = visit /\ ~r.unsaved)
      BY <3>0, <3>1 DEF Good, RunFresh
    <3> QED
      BY <1>0, <2>4, <3>3, <3>4, <3>5, <3>6, <3>7 DEF Good
  <2> QED
    BY <2>3, <2>4
<1> QED
  BY <1>1, <1>6 DEF AllGood

LEMMA RunKeeps == ASSUME NEW r \in runs PROVE SessionInv /\ Run(r) => Page' /\ AllGood'
<1> SUFFICES ASSUME SessionInv, Run(r) PROVE Page' /\ AllGood'
  OBVIOUS
<1>1. /\ runs' = runs \ {r}
      /\ UNCHANGED <<file, stored, visit, here, restoring, session, reading, armed,
                     saves, puts, moving, edits, clicks, work, muddled, lossy>>
  BY DEF Run, serverVars, observers, pageVars
<1>2. Page'
  BY <1>1, PageSame DEF SessionInv
<1>3. ASSUME NEW q \in Paths \ muddled PROVE Good(q)'
  <2>1. Good(q) /\ Content(q)' = Content(q)
    BY <1>1, SameContent DEF SessionInv, AllGood
  <2>2. Untouched(q)
    BY <1>1 DEF Untouched, SameTab, SavesOf
  <2> QED
    BY <1>1, <2>1, <2>2, GoodStays
<1> QED
  BY <1>1, <1>2, <1>3 DEF AllGood

-----------------------------------------------------------------------------
(* Every step keeps the invariant: the server, renames and answers.        *)

\* A path no rename or deletion is about, before the step and after it.
LEMMA GoodStaysOff ==
    ASSUME NEW q \in Paths \ muddled, Good(q), Untouched(q), UNCHANGED <<visit, here, restoring>>,
           q \notin Ends, q \notin Ends',
           ~Settled /\ ~lossy' => ~lossy /\ stored' = stored
    PROVE  Good(q)'
<1>1. Settled' = Settled
  BY DEF Settled
<1>2. Kept(q) /\ ~Going(q) /\ Content(q) = file[q]
  BY NoEnd
<1>3. ~Going(q)' /\ Content(q)' = file'[q]
  BY DEF Going, Ends, Content, Moved
<1>4. Content(q)' = Content(q)
  BY <1>2, <1>3 DEF Untouched
<1>5. \A s \in SavesOf(q)' : SaveWaits(s)'
  <2> SUFFICES ASSUME NEW s \in SavesOf(q)' PROVE SaveWaits(s)'
    OBVIOUS
  <2>1. s \in SavesOf(q) /\ SaveWaits(s) /\ s.path = q
    BY DEF Untouched, SameTab, Good, SavesOf
  <2>2. q \in Open(session) => Text(q)' = Text(q)
    BY DEF Untouched, SameTab, Text
  <2> QED
    BY <1>1, <2>1, <2>2 DEF SaveWaits, Untouched, SameTab
<1>6. Settled' => Faithful(q)'
  BY <1>1, <1>2, <1>4, FaithfulStays DEF Good, Untouched
<1>7. \A r \in runs' : r.path = q /\ r.visit = visit' /\ ~r.unsaved => RunFresh(r)'
  <2> SUFFICES ASSUME NEW r \in runs', r.path = q, r.visit = visit', ~r.unsaved
      PROVE  RunFresh(r)'
    OBVIOUS
  <2>1. RunFresh(r)
    BY DEF Good, Untouched
  <2> QED
    BY <1>1, <2>1 DEF RunFresh, Untouched, SameTab, Exists
<1>8. (~Settled /\ ~lossy => Left(q))'
  BY <1>1 DEF Good, Left, Untouched, SameTab, Exists
<1> QED
  BY <1>3, <1>5, <1>6, <1>7, <1>8 DEF Good

\* What waits for a rename or a deletion waits for nothing else.
LEMMA AtEnd ==
    ASSUME NEW q \in Paths \ muddled, Good(q), q \in Ends
    PROVE  /\ EndWaits(q) /\ Settled /\ SavesOf(q) = {}
           /\ \A r \in runs : ~(r.path = q /\ r.visit = visit /\ ~r.unsaved)
<1>1. EndWaits(q) /\ Settled
  BY DEF Good, EndWaits
<1>2. SavesOf(q) = {}
  <2> SUFFICES ASSUME NEW s \in SavesOf(q) PROVE FALSE
    OBVIOUS
  <2>1. SaveWaits(s) /\ s.path = q
    BY DEF Good, SavesOf
  <2> QED
    BY <2>1 DEF SaveWaits
<1>3. \A r \in runs : ~(r.path = q /\ r.visit = visit /\ ~r.unsaved)
  BY DEF Good, RunFresh
<1> QED
  BY <1>1, <1>2, <1>3

\* A rename or a deletion waits for no request about its paths.
LEMMA ClickMoveKeeps ==
    ASSUME NEW p \in Paths, NEW to \in Paths \cup {Nowhere}
    PROVE  SessionInv /\ ClickMove(p, to) => Page' /\ AllGood'
<1> SUFFICES ASSUME SessionInv, ClickMove(p, to) PROVE Page' /\ AllGood'
  OBVIOUS
<1>1. /\ here /\ moving.stage = "idle" /\ p # to
      /\ moving' = [visit |-> visit, from |-> p, to |-> to, stage |-> "sent"]
      /\ work' = IF to = Nowhere THEN [work EXCEPT ![p] = None] ELSE work
      /\ muddled' = muddled \cup {q \in {p, to} \cap Paths : Busy(q) \/ Running(q) \/ restoring}
      /\ UNCHANGED <<file, stored, visit, here, restoring, session, reading, armed,
                     saves, runs, puts, edits, lossy>>
  BY DEF ClickMove, Click, serverVars, pageVars
<1>2. Page'
  BY <1>1, PageSame DEF SessionInv
<1>3. Ends = {} /\ ~Moved
  BY <1>1 DEF Ends, Moved
<1>4. /\ moving'.visit = visit /\ moving'.from = p /\ moving'.to = to /\ moving'.stage = "sent"
      /\ Ends' = {p, to} \cap Paths /\ ~Moved'
  BY <1>1 DEF Ends, Moved
<1>5. \A q : SavesOf(q)' = SavesOf(q)
  BY <1>1 DEF SavesOf
<1>6. ASSUME NEW q \in Paths \ muddled' PROVE Good(q)'
  <2>1. q \in Paths \ muddled /\ Good(q)
    BY <1>1 DEF SessionInv, AllGood
  <2>2. work \in [Paths -> Written \cup {None}]
    BY DEF SessionInv, Types, FilesOK
  <2>3. CASE q \notin {p, to}
    <3>1. work'[q] = work[q]
      BY <1>1, <2>2, <2>3
    <3>2. Untouched(q)
      BY <1>1, <1>5, <3>1 DEF Untouched, SameTab
    <3> QED
      BY <1>1, <1>3, <1>4, <2>1, <2>3, <3>2, GoodStaysOff
  <2>4. CASE q \in {p, to}
    <3>1. ~Busy(q) /\ ~Running(q) /\ Settled
      BY <1>1, <2>4 DEF SessionInv, Types, FlagsOK, Settled
    <3>2. SavesOf(q) = {} /\ Kept(q) /\ ~Going(q) /\ Content(q) = file[q] /\ Faithful(q)
      BY <1>3, <2>1, <3>1, NotBusy, NoEnd DEF Good
    <3>3. \A r \in runs : r.path # q
      BY <3>1 DEF Running
    <3>4. Settled' /\ EndWaits(q)'
      BY <1>1, <1>4, <3>1 DEF Settled, EndWaits
    <3>5. Going(q)' => work'[q] = None
      BY <1>1, <1>4, <2>2 DEF Going
    <3>6. ~Going(q)' => Faithful(q)'
      <4> SUFFICES ASSUME ~Going(q)' PROVE Faithful(q)'
        OBVIOUS
      <4>1. work'[q] = work[q]
        BY <1>1, <1>4, <2>2, <2>4 DEF Going
      <4>2. Content(q)' = Content(q)
        BY <1>1, <1>4, <3>2 DEF Content
      <4>3. SameTab(q)
        BY <1>1, <1>5, <4>1 DEF SameTab
      <4> QED
        BY <3>2, <4>2, <4>3, FaithfulStays
    <3> QED
      BY <1>1, <1>5, <3>2, <3>3, <3>4, <3>5, <3>6 DEF Good
  <2> QED
    BY <2>3, <2>4
<1> QED
  BY <1>2, <1>6 DEF AllGood

\* The file of a path whose write is done holds what its tab shows.
LEMMA WrittenGood ==
    ASSUME SessionInv, NEW s \in saves, s.path \notin muddled, NEW t,
           t.path = s.path, t.text = s.text, t.kind = s.kind, t.visit = s.visit,
           t.stage = "ok" => file'[s.path] = s.text,
           file'[s.path] \in {file[s.path], s.text},
           saves' = (saves \ {s}) \cup {t},
           UNCHANGED <<visit, here, restoring, session, reading, runs, moving, work, muddled>>
    PROVE  Good(s.path)'
<1> DEFINE p == s.path
<1>0. s \in Save /\ p \in Paths /\ s.text \in Written /\ s.text # None
  <2>1. s \in Save
    BY DEF SessionInv, Types, WiresOK
  <2> QED
    BY <2>1 DEF Save, Written, None
<1>1. Good(p) /\ s \in SavesOf(p)
  BY <1>0 DEF SessionInv, AllGood, SavesOf
<1>2. SaveWaits(s)
  BY <1>1 DEF Good
<1>3. /\ Settled /\ p \notin Ends /\ SavesOf(p) = {s} /\ s.visit = visit
      /\ IF s.kind = "create" THEN p \notin Open(session) /\ work[p] = s.text
         ELSE p \in Open(session) /\ Text(p) = s.text
  BY <1>2 DEF SaveWaits
<1>4. Kept(p) /\ ~Going(p) /\ Content(p) = file[p] /\ Faithful(p)
  BY <1>0, <1>1, <1>3, NoEnd DEF Good
<1>5. /\ Settled' = Settled /\ Ends' = Ends /\ Going(p)' = Going(p)
      /\ SavesOf(p)' = {t} /\ Open(session)' = Open(session)
      /\ Text(p)' = Text(p) /\ Saved(p)' = Saved(p)
  <2>1. SavesOf(p)' = (SavesOf(p) \ {s}) \cup {t}
    BY DEF SavesOf
  <2> QED
    BY <1>3, <2>1 DEF Settled, Ends, Going, Text, Saved
<1>6. Content(p)' = file'[p]
  BY <1>0, <1>3 DEF Content, Moved, Ends
<1>7. Faithful(p)'
  <2>1. CASE s.kind = "create"
    <3>1. Created(p)' /\ p \notin Open(session)'
      BY <1>3, <1>5, <2>1 DEF Created
    <3> QED
      BY <3>1 DEF Faithful
  <2>2. CASE s.kind # "create"
    <3>1. p \in Open(session) /\ Text(p) = s.text
      BY <1>3, <2>2
    <3>2. Content(p)' \in {Content(p), Text(p)}
      BY <1>4, <1>6, <3>1
    <3> QED
      BY <1>0, <1>4, <1>5, <3>1, <3>2 DEF Faithful
  <2> QED
    BY <2>1, <2>2
<1>8. SaveWaits(t)'
  BY <1>2, <1>3, <1>5 DEF SaveWaits
<1>9. ASSUME NEW r \in runs, r.path = p, r.visit = visit, ~r.unsaved PROVE RunFresh(r)'
  <2>1. RunFresh(r)
    BY <1>1, <1>9 DEF Good
  <2>2. s.text >= r.shown /\ file[p] >= r.shown /\ file[p] # None
    BY <1>3, <1>9, <2>1 DEF RunFresh, Exists
  <2>3. file'[p] # None /\ file'[p] >= r.shown
    BY <1>0, <2>2
  <2> QED
    BY <1>3, <1>5, <1>9, <2>1, <2>2, <2>3 DEF RunFresh, Exists
<1> HIDE DEF p
<1>10. Good(p)'
  BY <1>3, <1>4, <1>5, <1>7, <1>8, <1>9 DEF Good
<1> QED
  BY <1>10 DEF p

\* A write is done, or is not: no tab of another path notices.
LEMMA WriteKeeps == ASSUME NEW s \in saves PROVE SessionInv /\ Write(s) => Page' /\ AllGood'
<1> SUFFICES ASSUME SessionInv, Write(s) PROVE Page' /\ AllGood'
  OBVIOUS
<1>0. UNCHANGED <<stored, visit, here, restoring, session, reading, armed, runs, puts, moving,
                  edits, clicks, work, muddled, lossy>>
  BY DEF Write, observers, pageVars
<1>1. PICK done, told \in BOOLEAN :
         /\ told => done
         /\ file' = IF done THEN [file EXCEPT ![s.path] = s.text] ELSE file
         /\ saves' = (saves \ {s}) \cup {[s EXCEPT !.stage = IF told THEN "ok" ELSE "failed"]}
  BY DEF Write
<1>2. s \in Save /\ file \in [Paths -> Written \cup {None}] /\ s.path \in Paths
  BY DEF SessionInv, Types, WiresOK, FilesOK, Save
<1>3. PICK t : t = [s EXCEPT !.stage = IF told THEN "ok" ELSE "failed"]
  OBVIOUS
<1>4. /\ t.path = s.path /\ t.text = s.text /\ t.kind = s.kind /\ t.visit = s.visit
      /\ t.stage = (IF told THEN "ok" ELSE "failed") /\ saves' = (saves \ {s}) \cup {t}
  BY <1>1, <1>2, <1>3 DEF Save
<1>5. /\ file'[s.path] = IF done THEN s.text ELSE file[s.path]
      /\ \A q \in Paths : q # s.path => file'[q] = file[q]
  BY <1>1, <1>2
<1>6. Page'
  BY <1>0, PageSame DEF SessionInv
<1>7. ASSUME NEW q \in Paths \ muddled PROVE Good(q)'
  <2>1. Good(q)
    BY DEF SessionInv, AllGood
  <2>2. CASE q = s.path
    <3>1. file'[s.path] \in {file[s.path], s.text} /\ (t.stage = "ok" => file'[s.path] = s.text)
      BY <1>1, <1>4, <1>5
    <3> QED
      BY <1>0, <1>4, <2>2, <3>1, WrittenGood
  <2>3. CASE q # s.path
    <3>1. SavesOf(q)' = SavesOf(q)
      BY <1>4, <2>3 DEF SavesOf
    <3>2. Untouched(q)
      BY <1>0, <1>5, <2>3, <3>1 DEF Untouched, SameTab
    <3>3. Kept(q) => Content(q)' = Content(q)
      <4> SUFFICES ASSUME Kept(q) PROVE Content(q)' = Content(q)
        OBVIOUS
      <4>1. CASE Moved /\ q = moving.from /\ moving.to \in Paths
        <5>1. moving.to \in Paths \ muddled /\ moving.to \in Ends
          BY <4>1 DEF Kept, Ends, Moved
        <5>2. SavesOf(moving.to) = {}
          BY <5>1, AtEnd DEF SessionInv, AllGood
        <5>3. moving.to # s.path
          BY <5>2 DEF SavesOf
        <5> QED
          BY <1>0, <1>5, <4>1, <5>3 DEF Content, Moved
      <4>2. CASE ~(Moved /\ q = moving.from /\ moving.to \in Paths)
        BY <1>0, <1>5, <2>3, <4>2 DEF Content, Moved
      <4> QED
        BY <4>1, <4>2
    <3> QED
      BY <1>0, <2>1, <3>2, <3>3, GoodStays
  <2> QED
    BY <2>2, <2>3
<1> QED
  BY <1>0, <1>6, <1>7 DEF AllGood

\* The page is told that the text its tab shows was written, or that the new file
\* is there.
LEMMA AnswerIsFaithful ==
    ASSUME SessionInv, NEW s \in saves, s.path \notin muddled, SaveWaits(s), Faithful(s.path),
           s.stage \in {"ok", "failed"}, s.kind = "create" => s.stage = "ok",
           saves' = saves \ {s}, session' = AfterAnswer(s), PageOK',
           reading'.got # None => reading' = reading,
           UNCHANGED <<file, moving, work>>
    PROVE  Faithful(s.path)'
<1> DEFINE p == s.path
<1>1. /\ s.path \notin Ends /\ SavesOf(s.path) = {s}
      /\ s.stage = "ok" => file[s.path] = s.text
      /\ IF s.kind = "create"
         THEN s.path \notin Open(session) /\ work[s.path] = s.text
         ELSE s.path \in Open(session) /\ Text(s.path) = s.text
  BY DEF SaveWaits
<1>2. s \in Save /\ p \in Paths /\ s.text # None /\ p # Nowhere
  <2>1. s \in Save
    BY DEF SessionInv, Types, WiresOK
  <2> QED
    BY <2>1, EditorAssumption DEF Save, Written, None
<1>3. /\ Open(session)' = Open(session)
      /\ s.kind # "create" /\ s.stage = "ok" =>
            /\ session'.buffers[s.path].text = s.text
            /\ session'.buffers[s.path].saved = s.text
      /\ s.kind = "create" \/ s.stage # "ok" => session' = session
  BY <1>1, AnsweredSession DEF SessionInv
<1>4. SavesOf(p)' = {} /\ ~Created(p)'
  BY <1>1 DEF SavesOf, Created
<1>5. Content(p) = file[p] /\ Content(p)' = file[p]
  BY <1>1, <1>2, NoEnd, SameContent
<1>6. CASE s.kind = "create"
  <2>1. p \notin Open(session)' /\ Content(p)' = work'[p]
    BY <1>1, <1>3, <1>5, <1>6
  <2> HIDE DEF p
  <2>2. Faithful(p)'
    BY <2>1 DEF Faithful
  <2> QED
    BY <2>2 DEF p
<1>7. CASE s.kind # "create" /\ s.stage = "ok"
  <2>1. p \in Open(session)' /\ Text(p)' = s.text /\ Saved(p)' = s.text /\ Content(p)' = s.text
    BY <1>1, <1>3, <1>5, <1>7 DEF Text, Saved
  <2>2. work'[p] = s.text
    BY <1>1, <1>2, <1>7 DEF Faithful
  <2>3. reading'.path # p
    BY <1>2, <2>1 DEF PageOK, Wants, needsLoad, Saved
  <2> HIDE DEF p
  <2>4. Faithful(p)'
    BY <1>2, <2>1, <2>2, <2>3 DEF Faithful
  <2> QED
    BY <2>4 DEF p
<1>8. CASE s.kind # "create" /\ s.stage # "ok"
  <2>1. /\ p \in Open(session) /\ Text(p) # None /\ Text(p)' = Text(p) /\ Saved(p)' = Saved(p)
        /\ p \in Open(session)' /\ Content(p)' = Content(p) /\ Faithful(p)
    BY <1>1, <1>2, <1>3, <1>5, <1>8 DEF Text, Saved
  <2> HIDE DEF p
  <2>2. Faithful(p)'
    BY <2>1 DEF Faithful
  <2> QED
    BY <2>2 DEF p
<1> QED
  BY <1>6, <1>7, <1>8

\* The answer to a write: the tab is clean, the job of a run is asked for.
LEMMA SaveAnsweredKeeps ==
    ASSUME NEW s \in saves PROVE SessionInv /\ SaveAnswered(s) => Page' /\ AllGood'
<1> SUFFICES ASSUME SessionInv, SaveAnswered(s) PROVE Page' /\ AllGood'
  OBVIOUS
<1>1. /\ saves' = saves \ {s} /\ s.stage \in {"ok", "failed"}
      /\ muddled' = IF s.kind = "create" /\ s.stage = "failed"
                    THEN muddled \cup {s.path} ELSE muddled
      /\ UNCHANGED <<file, stored, visit, here, restoring, puts, moving, edits, clicks,
                     work, lossy>>
  BY DEF SaveAnswered, serverVars
<1>2. s.path \in Paths /\ s.text \in Written
  <2>1. s \in Save
    BY DEF SessionInv, Types, WiresOK
  <2> QED
    BY <2>1 DEF Save
<1>3. CASE here /\ s.visit = visit
  <2>1. /\ Shows(AfterAnswer(s))
        /\ runs' = IF s.kind = "run"
                   THEN runs \cup {Submission(s.id, s.path, s.text, s.stage = "failed")}
                   ELSE runs
    BY <1>3 DEF SaveAnswered, AfterAnswer
  <2>2. /\ SessionOK(AfterAnswer(s), Written) /\ Open(AfterAnswer(s)) = Open(session)
        /\ \A q \in Open(session) : q # s.path => AfterAnswer(s).buffers[q] = session.buffers[q]
    BY AnsweredSession DEF SessionInv
  <2>3. session' = AfterAnswer(s) /\ (reading'.got # None => reading' = reading) /\ PageOK'
    BY <1>1, <2>1, <2>2, ShowsTypes DEF SessionInv, Types
  <2>4. Page'
    <3>1. muddled \subseteq muddled'
      BY <1>1
    <3>2. restoring => Open(AfterAnswer(s)) \subseteq muddled'
      BY <2>2, <3>1 DEF SessionInv, Page, Settled
    <3> QED
      BY <1>1, <1>3, <2>1, <2>2, <3>1, <3>2, PageShows DEF SessionInv
  <2>5. PICK x : x = Submission(s.id, s.path, s.text, s.stage = "failed")
    OBVIOUS
  <2>6. /\ x.path = s.path /\ x.shown = s.text /\ x.unsaved = (s.stage = "failed")
        /\ runs' \subseteq runs \cup {x}
    BY <2>1, <2>5 DEF Submission
  <2>7. ASSUME NEW q \in Paths \ muddled' PROVE Good(q)'
    <3>1. q \in Paths \ muddled /\ Good(q) /\ muddled \subseteq muddled'
      BY <1>1 DEF SessionInv, AllGood
    <3>2. Content(q)' = Content(q)
      BY <1>1, SameContent
    <3>3. CASE q # s.path
      <4>1. SavesOf(q)' = SavesOf(q)
        BY <1>1, <3>3 DEF SavesOf
      <4>2. Open(session)' = Open(session)
            /\ (q \in Open(session) => session'.buffers[q] = session.buffers[q])
        BY <2>2, <2>3, <3>3
      <4>3. Untouched(q)
        BY <1>1, <2>3, <2>6, <3>3, <4>1, <4>2 DEF Untouched, SameTab
      <4> QED
        BY <1>1, <3>1, <3>2, <4>3, GoodStays
    <3>4. CASE q = s.path
      <4>1. SaveWaits(s) /\ SavesOf(q) = {s} /\ q \notin Ends /\ Settled
        BY <3>1, <3>4 DEF Good, SavesOf, SaveWaits
      <4>2. Faithful(s.path)
        BY <3>1, <3>4, <4>1, NoEnd DEF Good
      <4>3. s.kind = "create" => s.stage = "ok"
        BY <1>1, <3>4
      <4>4. Faithful(q)'
        BY <1>1, <2>3, <3>1, <3>4, <4>1, <4>2, <4>3, AnswerIsFaithful
      <4>5. /\ Settled' /\ q \notin Ends' /\ SavesOf(q)' = {}
        BY <1>1, <4>1 DEF Settled, Ends, SavesOf
      <4>6. ASSUME NEW r \in runs', r.path = q, r.visit = visit, ~r.unsaved PROVE RunFresh(r)'
        <5>1. CASE r \in runs
          <6>1. RunFresh(r)
            BY <3>1, <4>6, <5>1 DEF Good
          <6> QED
            BY <1>1, <4>1, <4>5, <4>6, <6>1 DEF RunFresh, Exists
        <5>2. CASE r \notin runs
          <6>1. r = x /\ s.stage = "ok" /\ s.kind = "run"
            <7>1. r = x /\ s.kind = "run"
              BY <2>1, <2>5, <5>2
            <7>2. ~(s.stage = "failed")
              BY <2>6, <4>6, <7>1
            <7> QED
              BY <1>1, <7>1, <7>2
          <6>2. file[q] = s.text /\ s.text \in Nat /\ s.text # None /\ r.shown = s.text
            BY <1>2, <2>6, <3>4, <4>1, <6>1 DEF SaveWaits, Written, None
          <6>3. work[q] = s.text
            BY <3>4, <4>1, <4>2, <6>1, <6>2 DEF SaveWaits, Faithful
          <6> QED
            BY <1>1, <4>1, <4>5, <4>6, <6>2, <6>3 DEF RunFresh, Exists, Settled
        <5> QED
          BY <5>1, <5>2
      <4> QED
        BY <1>1, <3>1, <4>4, <4>5, <4>6, TouchedGood
    <3> QED
      BY <3>3, <3>4
  <2> QED
    BY <2>4, <2>7 DEF AllGood
<1>4. CASE ~(here /\ s.visit = visit)
  <2>1. UNCHANGED <<session, reading, armed, runs>>
    BY <1>4 DEF SaveAnswered
  <2>2. Page'
    BY <1>1, <2>1, PageSame DEF SessionInv
  <2>3. ASSUME NEW q \in Paths \ muddled' PROVE Good(q)'
    <3>1. q \in Paths \ muddled /\ Good(q) /\ muddled \subseteq muddled'
      BY <1>1 DEF SessionInv, AllGood
    <3>2. Content(q)' = Content(q)
      BY <1>1, SameContent
    <3>3. s \notin SavesOf(q)
      BY <1>4, <3>1 DEF Good, SaveWaits, Settled
    <3>4. SavesOf(q)' = SavesOf(q)
      BY <1>1, <3>3 DEF SavesOf
    <3>5. Untouched(q)
      BY <1>1, <2>1, <3>4 DEF Untouched, SameTab
    <3> QED
      BY <1>1, <3>1, <3>2, <3>5, GoodStays
  <2> QED
    BY <2>2, <2>3 DEF AllGood
<1> QED
  BY <1>3, <1>4

\* The server moves the file, and the tab of the old path still shows it.
LEMMA MoveKeeps == SessionInv /\ Move => Page' /\ AllGood'
<1> SUFFICES ASSUME SessionInv, Move PROVE Page' /\ AllGood'
  OBVIOUS
<1>1. /\ moving.stage = "sent"
      /\ UNCHANGED <<stored, visit, here, restoring, session, reading, armed, saves, runs, puts,
                     edits, clicks, work, lossy>>
  BY DEF Move, pageVars
<1>2. /\ moving \in Moving /\ moving.from \in Paths /\ moving.to # moving.from
      /\ moving.to \in Paths \cup {Nowhere} /\ ~Moved
      /\ Ends = {moving.from, moving.to} \cap Paths
  BY <1>1 DEF SessionInv, Types, WiresOK, Moving, Moved, Ends
<1>3. \A q : SavesOf(q)' = SavesOf(q)
  BY <1>1 DEF SavesOf
<1>4. Settled' = Settled
  BY <1>1 DEF Settled
<1>5. CASE MayMove(moving)
  <2>1. /\ file' = [p \in Paths |-> IF p = moving.to THEN file[moving.from]
                                    ELSE IF p = moving.from THEN None ELSE file[p]]
        /\ moving' = [moving EXCEPT !.stage = "done"] /\ muddled' = muddled
    BY <1>5 DEF Move
  <2>2. /\ moving'.from = moving.from /\ moving'.to = moving.to /\ moving'.stage = "done"
        /\ moving'.visit = moving.visit /\ Moved' /\ Ends' = Ends
    BY <1>2, <2>1 DEF Moving, Moved, Ends
  <2>3. Page'
    BY <1>1, <2>1, PageSame DEF SessionInv
  <2>4. ASSUME NEW q \in Paths \ muddled PROVE Good(q)'
    <3>1. Good(q)
      BY DEF SessionInv, AllGood
    <3>2. CASE q \notin Ends
      <4>1. file'[q] = file[q]
        BY <1>2, <2>1, <3>2
      <4>2. Untouched(q)
        BY <1>1, <1>3, <4>1 DEF Untouched, SameTab
      <4> QED
        BY <1>1, <2>2, <3>1, <3>2, <4>2, GoodStaysOff
    <3>3. CASE q \in Ends
      <4>1. /\ EndWaits(q) /\ Settled /\ SavesOf(q) = {}
            /\ \A r \in runs : ~(r.path = q /\ r.visit = visit /\ ~r.unsaved)
        BY <3>1, <3>3, AtEnd
      <4>2. /\ Kept(q) /\ Content(q) = file[q]
            /\ IF Going(q) THEN work[q] = None ELSE Faithful(q)
        BY <1>2, <3>1, <4>1 DEF Kept, Content, Good
      <4>3. EndWaits(q)'
        <5>1. CASE q = moving.to
          <6>1. ~Exists(q) /\ ~Going(q)
            BY <1>2, <1>5, <5>1, EditorAssumption DEF MayMove, Going
          <6>2. q \notin Open(session)
            BY <4>2, <6>1 DEF Faithful, Exists
          <6> QED
            BY <1>1, <1>4, <2>2, <4>1, <5>1, <6>2 DEF EndWaits
        <5>2. CASE q # moving.to
          <6>1. file'[q] = None
            BY <1>2, <2>1, <3>3, <5>2
          <6> QED
            BY <1>1, <1>4, <2>2, <4>1, <5>2, <6>1 DEF EndWaits, Exists
        <5> QED
          BY <5>1, <5>2
      <4>4. Going(q)' = Going(q)
        BY <1>1, <2>2 DEF Going
      <4>5. ~Going(q) /\ Kept(q)' => Faithful(q)'
        <5> SUFFICES ASSUME ~Going(q), Kept(q)' PROVE Faithful(q)'
          OBVIOUS
        <5>1. q # moving.to /\ q = moving.from /\ moving.to \in Paths
          BY <1>1, <1>2, <2>2, <3>3 DEF Kept, Going
        <5>2. Content(q)' = file[moving.from]
          BY <1>2, <2>1, <2>2, <5>1 DEF Content
        <5>3. SameTab(q)
          BY <1>1, <1>3 DEF SameTab
        <5> QED
          BY <4>2, <5>1, <5>2, <5>3, FaithfulStays
      <4> QED
        BY <1>1, <1>3, <1>4, <4>1, <4>2, <4>3, <4>4, <4>5 DEF Good
    <3> QED
      BY <3>2, <3>3
  <2> QED
    BY <2>1, <2>3, <2>4 DEF AllGood
<1>6. CASE ~MayMove(moving)
  <2>1. /\ file' = file /\ moving' = Still
        /\ muddled' = muddled \cup ({moving.from} \cap {p \in Paths : moving.to = Nowhere})
    BY <1>6 DEF Move
  <2>2. Ends' = {} /\ ~Moved'
    BY <2>1 DEF Still, Moved, Ends
  <2>3. Page'
    BY <1>1, <2>1, PageSame DEF SessionInv
  <2>4. ASSUME NEW q \in Paths \ muddled' PROVE Good(q)'
    <3>1. q \in Paths \ muddled /\ Good(q)
      BY <2>1 DEF SessionInv, AllGood
    <3>2. SameTab(q) /\ Untouched(q)
      BY <1>1, <1>3, <2>1 DEF Untouched, SameTab
    <3>3. CASE q \notin Ends
      BY <1>1, <2>2, <3>1, <3>2, <3>3, GoodStaysOff
    <3>4. CASE q \in Ends
      <4>1. /\ Settled /\ SavesOf(q) = {}
            /\ \A r \in runs : ~(r.path = q /\ r.visit = visit /\ ~r.unsaved)
        BY <3>1, <3>4, AtEnd
      <4>2. ~Going(q)
        BY <1>2, <2>1 DEF Going
      <4>3. Kept(q) /\ Content(q) = file[q] /\ Content(q)' = file[q]
        BY <1>2, <2>1, <2>2, <3>1 DEF Kept, Content
      <4>4. Faithful(q)'
        BY <3>1, <3>2, <4>1, <4>2, <4>3, FaithfulStays DEF Good
      <4> QED
        BY <1>1, <1>3, <1>4, <2>2, <4>1, <4>4, TouchedGood
    <3> QED
      BY <3>3, <3>4
  <2> QED
    BY <2>3, <2>4 DEF AllGood
<1> QED
  BY <1>5, <1>6

\* The old path has no tab and no file any more, the new one has both.
LEMMA MovedIsFaithful ==
    ASSUME SessionInv, moving.stage = "done", {moving.from, moving.to} \cap muddled = {},
           moving' = Still, session' = AfterMove, reading'.got # None => reading' = reading,
           work' = [p \in Paths |-> IF p = moving.to THEN work[moving.from]
                                    ELSE IF p = moving.from THEN None ELSE work[p]],
           UNCHANGED <<file, saves>>, NEW q \in Ends
    PROVE  Faithful(q)'
<1> DEFINE from == moving.from
           to   == moving.to
<1>1. /\ from \in Paths /\ to # from /\ to \in Paths \cup {Nowhere} /\ Moved
      /\ Ends = {from, to} \cap Paths
  BY DEF SessionInv, Types, WiresOK, Moving, Moved, Ends
<1>2. /\ from \in Paths \ muddled /\ from \in Ends /\ EndWaits(from) /\ Settled
      /\ SavesOf(from) = {}
  BY <1>1, AtEnd DEF SessionInv, AllGood
<1>3. ~Exists(from) /\ Kept(from)
  BY <1>1, <1>2 DEF EndWaits, Kept
<1>4. Content(q)' = file[q]
  BY DEF Content, Moved, Still
<1>5. /\ Open(session)' = IF from \notin Open(session) THEN Open(session)
                          ELSE (Open(session) \ {from}) \cup ({to} \cap Paths)
      /\ from \in Open(session) /\ to \in Paths
         => session'.buffers[to] = session.buffers[from]
  BY MovedSession DEF SessionInv
<1>6. CASE q = from
  <2>1. q \notin Open(session)' /\ work'[q] = None /\ file[q] = None
    BY <1>1, <1>3, <1>5, <1>6 DEF Exists
  <2> QED
    BY <1>4, <2>1 DEF Faithful
<1>7. CASE q = to
  <2>1. /\ to \in Paths \ muddled /\ to \in Ends /\ EndWaits(to) /\ SavesOf(to) = {}
    BY <1>1, <1>7, AtEnd DEF SessionInv, AllGood
  <2>2. to \notin Open(session)
    BY <1>1, <2>1 DEF EndWaits
  <2>3. /\ Faithful(from) /\ ~Created(from) /\ Content(from) = file[to]
    <3>1. ~Going(from)
      BY <2>1, EditorAssumption DEF Going
    <3>2. Good(from)
      BY <1>2 DEF SessionInv, AllGood
    <3>3. Content(from) = file[to]
      BY <1>1, <2>1 DEF Content
    <3> QED
      BY <1>2, <1>3, <3>1, <3>2, <3>3 DEF Good, Created
  <2>4. /\ Content(q)' = Content(from) /\ work'[q] = work[from]
        /\ q \in Open(session)' <=> from \in Open(session)
    BY <1>1, <1>4, <1>5, <1>7, <2>1, <2>2, <2>3
  <2>5. from \in Open(session) => Text(q)' = Text(from) /\ Saved(q)' = Saved(from)
    BY <1>5, <1>7, <2>1 DEF Text, Saved
  <2>6. ~(reading'.path = q /\ reading'.got # None)
    <3>1. reading.path # q
      BY <1>7, <2>1, <2>2, ReadingIsWanted, EditorAssumption DEF SessionInv, Types
    <3> QED
      BY <3>1
  <2> HIDE DEF from, to
  <2>7. Faithful(q)'
    BY <2>3, <2>4, <2>5, <2>6 DEF Faithful
  <2> QED
    BY <2>7
<1> QED
  BY <1>1, <1>6, <1>7

\* The tab follows.
LEMMA MoveAnsweredKeeps == SessionInv /\ MoveAnswered => Page' /\ AllGood'
<1> SUFFICES ASSUME SessionInv, MoveAnswered PROVE Page' /\ AllGood'
  OBVIOUS
<1>1. /\ moving.stage = "done" /\ moving' = Still
      /\ work' = [p \in Paths |-> IF p = moving.to THEN work[moving.from]
                                  ELSE IF p = moving.from THEN None ELSE work[p]]
      /\ muddled' = IF {moving.from, moving.to} \cap muddled = {} THEN muddled
                    ELSE muddled \cup ({moving.from, moving.to} \cap Paths)
      /\ UNCHANGED <<file, stored, visit, here, restoring, saves, runs, puts,
                     edits, clicks, lossy>>
  BY DEF MoveAnswered, serverVars
<1>2. /\ moving.from \in Paths /\ Ends = {moving.from, moving.to} \cap Paths
      /\ moving.to # moving.from /\ muddled \subseteq muddled'
  BY <1>1 DEF SessionInv, Types, WiresOK, Ends
<1>3. Ends' = {} /\ Settled' = Settled /\ \A q : SavesOf(q)' = SavesOf(q)
  BY <1>1 DEF Ends, Still, Settled, SavesOf
<1>4. /\ \A q \in Paths \ Ends :
            /\ q \in Open(session)' <=> q \in Open(session)
            /\ q \in Open(session) => session'.buffers[q] = session.buffers[q]
      /\ reading'.got # None => reading' = reading
      /\ here /\ moving.visit = visit => session' = AfterMove
      /\ Page'
  <2>1. CASE here /\ moving.visit = visit
    <3>1. Shows(AfterMove)
      BY <2>1 DEF MoveAnswered, AfterMove
    <3>2. /\ SessionOK(AfterMove, Written)
          /\ Open(AfterMove) = IF moving.from \notin Open(session) THEN Open(session)
                               ELSE (Open(session) \ {moving.from}) \cup ({moving.to} \cap Paths)
          /\ \A q \in Open(session) :
                q \notin {moving.from, moving.to} => AfterMove.buffers[q] = session.buffers[q]
      BY <1>1, MovedSession DEF SessionInv
    <3>3. session' = AfterMove /\ (reading'.got # None => reading' = reading)
      BY <1>1, <3>1, <3>2, ShowsTypes DEF SessionInv, Types
    <3>4. restoring => Open(AfterMove) \subseteq muddled'
      <4> SUFFICES ASSUME restoring PROVE Open(AfterMove) \subseteq muddled'
        OBVIOUS
      <4>1. Open(session) \subseteq muddled
        BY DEF SessionInv, Page, Settled
      <4>2. moving.from \in Open(session) => {moving.from, moving.to} \cap Paths \subseteq muddled'
        BY <1>1, <4>1
      <4> QED
        BY <1>2, <3>2, <4>1, <4>2
    <3>5. Page'
      BY <1>1, <1>2, <2>1, <3>1, <3>2, <3>4, PageShows DEF SessionInv
    <3> QED
      BY <1>2, <3>2, <3>3, <3>5
  <2>2. CASE ~(here /\ moving.visit = visit)
    <3>1. UNCHANGED <<session, reading, armed>>
      BY <2>2 DEF MoveAnswered
    <3>2. Page'
      BY <1>1, <1>2, <3>1, PageSame DEF SessionInv
    <3> QED
      BY <2>2, <3>1, <3>2
  <2> QED
    BY <2>1, <2>2
<1>5. ASSUME NEW q \in Paths \ muddled' PROVE Good(q)'
  <2>1. q \in Paths \ muddled /\ Good(q)
    BY <1>2 DEF SessionInv, AllGood
  <2>2. CASE q \notin Ends
    <3>1. work'[q] = work[q]
      BY <1>1, <1>2, <2>1, <2>2
    <3>2. Untouched(q)
      BY <1>1, <1>3, <1>4, <2>1, <2>2, <3>1 DEF Untouched, SameTab
    <3> QED
      BY <1>1, <1>3, <2>1, <2>2, <3>2, GoodStaysOff
  <2>3. CASE q \in Ends
    <3>1. {moving.from, moving.to} \cap muddled = {}
      BY <1>1, <1>2, <2>3
    <3>2. /\ EndWaits(q) /\ Settled /\ SavesOf(q) = {}
          /\ \A r \in runs : ~(r.path = q /\ r.visit = visit /\ ~r.unsaved)
      BY <2>1, <2>3, AtEnd
    <3>3. session' = AfterMove
      BY <1>4, <3>2 DEF EndWaits, Settled
    <3>4. Faithful(q)'
      BY <1>1, <1>4, <2>3, <3>1, <3>3, MovedIsFaithful
    <3> QED
      BY <1>1, <1>3, <2>1, <3>2, <3>4, TouchedGood
  <2> QED
    BY <2>2, <2>3
<1> QED
  BY <1>4, <1>5 DEF AllGood

LEMMA StutterKeeps == SessionInv /\ UNCHANGED vars => Page' /\ AllGood'
<1> SUFFICES ASSUME SessionInv, UNCHANGED vars PROVE Page' /\ AllGood'
  OBVIOUS
<1>1. UNCHANGED <<file, stored, visit, here, restoring, session, reading, armed, saves, runs,
                  puts, moving, work, muddled, lossy>>
  BY DEF vars, serverVars, pageVars, wires, observers
<1>2. Page'
  BY <1>1, PageSame DEF SessionInv
<1>3. AllGood'
  BY <1>1, OnlyStored
<1> QED
  BY <1>2, <1>3

-----------------------------------------------------------------------------
(* The theorems.                                                           *)

\* The invariant is inductive.
LEMMA NextKeeps == SessionInv /\ [Next]_vars => SessionInv'
<1> SUFFICES ASSUME SessionInv, [Next]_vars PROVE SessionInv'
  OBVIOUS
<1>0. Types'
  BY NextTypes DEF SessionInv
<1>1. CASE Load \/ Restored \/ RestoreFailed \/ Leave
  BY <1>0, <1>1, LoadKeeps, RestoredKeeps, RestoreFailedKeeps, LeaveKeeps DEF SessionInv
<1>2. CASE ReadAnswered \/ ReadArrives
  BY <1>0, <1>2, ReadAnsweredKeeps, ReadArrivesKeeps DEF SessionInv
<1>3. CASE Fire \/ PutLost \/ \E i \in 1..Len(puts) : Put(i)
  BY <1>0, <1>3, FireKeeps, PutLostKeeps, PutKeeps DEF SessionInv
<1>4. CASE Edit \/ ClickSave \/ ClickRun
  BY <1>0, <1>4, EditKeeps, ClickSaveKeeps, ClickRunKeeps DEF SessionInv
<1>5. CASE \E p \in Paths : OpenFile(p) \/ SwitchTo(p) \/ Close(p) \/ ClickCreate(p)
  BY <1>0, <1>5, OpenFileKeeps, SwitchToKeeps, CloseKeeps, ClickCreateKeeps DEF SessionInv
<1>6. CASE \E p \in Paths, to \in Paths \cup {Nowhere} : ClickMove(p, to)
  BY <1>0, <1>6, ClickMoveKeeps DEF SessionInv
<1>7. CASE \E s \in saves : Write(s) \/ SaveAnswered(s)
  BY <1>0, <1>7, WriteKeeps, SaveAnsweredKeeps DEF SessionInv
<1>8. CASE \E r \in runs : Run(r)
  BY <1>0, <1>8, RunKeeps DEF SessionInv
<1>9. CASE Move \/ MoveAnswered
  BY <1>0, <1>9, MoveKeeps, MoveAnsweredKeeps DEF SessionInv
<1>10. CASE UNCHANGED vars
  BY <1>0, <1>10, StutterKeeps DEF SessionInv
<1> QED
  BY <1>1, <1>2, <1>3, <1>4, <1>5, <1>6, <1>7, <1>8, <1>9, <1>10 DEF Next

\* The inductive invariant holds: of every path that is not muddled, what the tab
\* shows, what is on its way and what is stored agree (useEditorSession.ts,
\* WorkspacePage.tsx).
THEOREM SessionInvariant == Spec => []SessionInv
<1>1. Init => SessionInv
  BY InitTypes, InitGood DEF SessionInv
<1> QED
  BY <1>1, NextKeeps, PTL DEF Spec

\* The invariant implies the three properties.
LEMMA KeepsWork == SessionInv => WorkIsKept
<1> SUFFICES ASSUME SessionInv, NEW p \in Paths \ muddled, work[p] # None, ~Busy(p)
    PROVE IF Settled /\ p \in Open(session) /\ session.buffers[p].text # None
          THEN session.buffers[p].text = work[p]
          ELSE \/ file[p] = work[p]
               \/ ~Settled /\ (lossy \/ (Exists(p) /\ DraftStored(p)))
  BY DEF WorkIsKept
<1>1. Good(p) /\ ~Created(p) /\ Kept(p) /\ ~Going(p) /\ Content(p) = file[p]
  BY NotBusy, NoEnd DEF SessionInv, AllGood
<1>2. CASE Settled
  BY <1>1, <1>2 DEF Good, Faithful, Text
<1>3. CASE ~Settled /\ ~lossy /\ file[p] # work[p]
  <2>1. /\ Exists(p)
        /\ \E i \in Tabs(stored, p) : stored.tabs[i].draft # None
        /\ \A i \in Tabs(stored, p) : stored.tabs[i].draft = work[p]
    BY <1>1, <1>3 DEF Good, Left
  <2>2. PICK i \in 1..Len(stored.tabs) :
           stored.tabs[i].path = p /\ stored.tabs[i].draft = work[p]
    BY <2>1 DEF Tabs
  <2>3. stored.tabs[i] \in Tab(Written)
    <3>1. stored.tabs \in Seq(Tab(Written))
      BY DEF SessionInv, Types, StoreOK, StateOK, State
    <3> QED
      BY <3>1, ElementOfSeq
  <2>4. stored.tabs[i] = [path |-> p, draft |-> work[p]]
    BY <2>2, <2>3 DEF Tab
  <2> QED
    BY <1>3, <2>1, <2>4 DEF DraftStored
<1> QED
  BY <1>2, <1>3

LEMMA CleanIsSaved == SessionInv => CleanMeansSaved
<1> SUFFICES ASSUME SessionInv, NEW p \in Paths \ muddled, Settled, p \in Open(session), ~Busy(p),
                    ~isDirty(session, p), ~needsLoad(session, p)
    PROVE file[p] = session.buffers[p].text
  BY DEF CleanMeansSaved
<1>1. Good(p) /\ Kept(p) /\ ~Going(p) /\ Content(p) = file[p]
  BY NotBusy, NoEnd DEF SessionInv, AllGood
<1>2. Saved(p) # None /\ Text(p) # None
  BY TextOf DEF SessionInv, needsLoad, Text, Saved
<1>3. Text(p) = Saved(p)
  BY <1>2 DEF isDirty, Text, Saved
<1> QED
  BY <1>1, <1>2, <1>3 DEF Good, Faithful, Text

LEMMA FreshIsNotStale == SessionInv => RunIsNotStale
<1> SUFFICES ASSUME SessionInv, NEW r \in runs, r.visit = visit, r.path \notin muddled, ~r.unsaved
    PROVE Exists(r.path) /\ file[r.path] >= r.shown
  BY DEF RunIsNotStale
<1>1. r.path \in Paths \ muddled
  BY DEF SessionInv, Types, WiresOK, Job
<1>2. RunFresh(r)
  BY <1>1 DEF SessionInv, AllGood, Good
<1> QED
  BY <1>2 DEF RunFresh

\* No text that was typed is lost: through saves, refused saves, reads that arrive
\* late, renames, deletions, closed tabs and reloaded pages, it stays in the tab, in
\* the file or among the stored drafts, unless the last PUT of the session was lost
\* or the user did not wait for an answer about the file (editorSession.ts loaded,
\* markSaved, renamePath; editorSession.persist.ts).
THEOREM TypedWorkIsKept == Spec => []WorkIsKept
BY SessionInvariant, KeepsWork, PTL

\* A tab without the mark of unsaved changes shows what is in its file: the answer
\* that clears the mark (WorkspacePage.tsx applySaved) is about the text the tab
\* still shows, and about a write that was done.
THEOREM CleanTabsAreSaved == Spec => []CleanMeansSaved
BY SessionInvariant, CleanIsSaved, PTL

\* A run asked for on this page finds in its file a text at least as new as the one
\* on the screen when the button was pressed, unless the save before it failed
\* (WorkspacePage.tsx run, routes_files.py run).
THEOREM RunsAreNotStale == Spec => []RunIsNotStale
BY SessionInvariant, FreshIsNotStale, PTL
=============================================================================
