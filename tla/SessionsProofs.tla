--------------------------- MODULE SessionsProofs ---------------------------
(***************************************************************************)
(* Theorems about Sessions, for every finite set of users and handlers,    *)
(* every supply of session ids, every timeout and every bound on the time  *)
(* a request takes.  TypeStep and TrailStep show that a step preserves the *)
(* types and the trail of a person's last request, from which SeatIsFreed  *)
(* follows; LoginStep keeps account of what a login found and what others  *)
(* wrote behind its back, from which NobodyTooMany and SoleAfterLogin      *)
(* follow for any number of requests at a time.                            *)
(***************************************************************************)
EXTENDS Sessions, TLAPS, FiniteSetTheorems

USE SessionAssumption DEF SessionAssumption, Forever, AgeLimit, storeVars, requestVars

-----------------------------------------------------------------------------
(* Types.                                                                  *)

\* Older stays within the cap.
LEMMA OlderInRange ==
    /\ \A n \in 0..AgeLimit : Older(n) \in 0..AgeLimit
    /\ \A m, n \in 0..AgeLimit : m <= n => Older(m) <= Older(n)
BY DEF Older

\* A write to the store keeps its shape.
LEMMA SaveTyped ==
    ASSUME TypeOK, NEW s \in Ids, NEW h \in Handlers, Save(s, h)
    PROVE  /\ kept' \in [Ids -> BOOLEAN]
           /\ age' \in [Ids -> 0..AgeLimit]
           /\ left' \in [Ids -> {Forever} \cup 0..IdleTimeout]
<1>1. since[h] \in 0..AgeLimit
  BY DEF TypeOK
<1>2. TtlFor(user[h]) \in {Forever} \cup 0..IdleTimeout
  BY DEF TtlFor
<1>. QED  BY <1>1, <1>2 DEF TypeOK, Save

\* So does a deletion, which leaves the other sessions as they are.
LEMMA GoneTyped ==
    ASSUME TypeOK, NEW S, Gone(S)
    PROVE  /\ kept' \in [Ids -> BOOLEAN]
           /\ age' \in [Ids -> 0..AgeLimit]
           /\ left' \in [Ids -> {Forever} \cup 0..IdleTimeout]
           /\ \A s \in Ids : kept'[s] => kept[s] /\ s \notin S /\ age'[s] = age[s]
<1>1. kept' \in [Ids -> BOOLEAN]
  BY DEF Gone
<1>2. age' \in [Ids -> 0..AgeLimit]
  BY DEF TypeOK, Gone
<1>3. left' \in [Ids -> {Forever} \cup 0..IdleTimeout]
  BY DEF TypeOK, Gone
<1>4. \A s \in Ids : kept'[s] => kept[s] /\ s \notin S /\ age'[s] = age[s]
  BY Zenon DEF Gone
<1>. QED  BY <1>1, <1>2, <1>3, <1>4

\* Ids are never taken back, and history records people and issued ids.
LEMMA HistoryTyped ==
    ASSUME TypeOK, Blank, [Next]_vars
    PROVE  /\ seen' \in [Handlers -> SUBSET Issued']
           /\ counted' \in [Handlers -> SUBSET Users]
           /\ behind' \in [Handlers -> SUBSET Issued']
<1>1. Issued \subseteq Issued'
  <2>1. UNCHANGED owner \/ \E h \in Handlers : Open(h)
    BY DEF Next, Login, Request, Scan, Read, Admit, Revoke, Get, Expire, Refresh, Close,
           Tick, vars
  <2>2. ASSUME NEW h \in Handlers, Open(h) PROVE Issued \subseteq Issued'
    <3>1. PICK s \in Ids \ Issued : owner' = [owner EXCEPT ![s] = user[h]]
      BY <2>2 DEF Open
    <3>2. \A t \in Issued : owner'[t] = owner[t]
      BY <3>1 DEF TypeOK, Issued
    <3>. QED  BY <3>2 DEF Issued
  <2>. QED  BY <2>1, <2>2 DEF Issued
<1>2. counted' \in [Handlers -> SUBSET Users]
  <2>1. CASE UNCHANGED counted
    BY <2>1 DEF TypeOK
  <2>2. ASSUME NEW h \in Handlers, Finish(h) PROVE counted' \in [Handlers -> SUBSET Users]
    BY <2>2 DEF TypeOK, Finish
  <2>3. ASSUME NEW h \in Handlers, Admit(h) PROVE counted' \in [Handlers -> SUBSET Users]
    <3>1. Occupants(seen[h]) \subseteq Users
      BY DEF TypeOK, Occupants, People, Issued
    <3>. QED  BY <2>2, <2>3, <3>1 DEF TypeOK, Admit
  <2>. QED
    BY <2>1, <2>2, <2>3
       DEF Next, Login, Request, Arrive, Scan, Read, Revoke, Open, Get, Expire, Refresh,
           Close, Tick, vars
<1>3. behind' \in [Handlers -> SUBSET Issued']
  <2>1. CASE UNCHANGED behind
    BY <1>1, <2>1 DEF TypeOK
  <2>2. ASSUME NEW h \in Handlers, NEW s \in Issued', Missed(s, h)
        PROVE  behind' \in [Handlers -> SUBSET Issued']
    BY <1>1, <2>2 DEF TypeOK, Missed
  <2>3. ASSUME NEW h \in Handlers, Scan(h) PROVE behind' \in [Handlers -> SUBSET Issued']
    BY <1>1, <2>3 DEF TypeOK, Scan, Looks
  <2>4. ASSUME NEW h \in Handlers, Admit(h) PROVE behind' \in [Handlers -> SUBSET Issued']
    BY <1>1, <2>4 DEF TypeOK, Admit
  <2>5. ASSUME NEW h \in Handlers, Open(h) PROVE behind' \in [Handlers -> SUBSET Issued']
    <3>1. PICK s \in Ids \ Issued : owner' = [owner EXCEPT ![s] = user[h]] /\ Save(s, h)
      BY <2>5 DEF Open
    <3>2. user[h] # NoUser
      BY <2>5 DEF Open, TypeOK, Busy
    <3>3. s \in Issued'
      BY <3>1, <3>2 DEF TypeOK, Issued
    <3>. QED  BY <2>2, <3>1, <3>3 DEF Save
  <2>6. ASSUME NEW h \in Handlers, Refresh(h) PROVE behind' \in [Handlers -> SUBSET Issued']
    <3>1. sid[h] \in Issued
      BY <2>6 DEF Refresh, Blank, TypeOK, Busy, Issued
    <3>. QED  BY <1>1, <2>2, <2>6, <3>1 DEF Refresh, Save
  <2>. QED
    BY <2>1, <2>3, <2>4, <2>5, <2>6
       DEF Next, Login, Request, Arrive, Read, Revoke, Get, Expire, Close, Tick, vars
<1>4. seen' \in [Handlers -> SUBSET Issued']
  <2>1. CASE UNCHANGED seen
    BY <1>1, <2>1 DEF TypeOK
  <2>2. ASSUME NEW h \in Handlers, NEW S \in SUBSET Issued, seen' = [seen EXCEPT ![h] = S]
        PROVE  seen' \in [Handlers -> SUBSET Issued']
    BY <1>1, <2>2 DEF TypeOK
  <2>3. ASSUME NEW h \in Handlers, Read(h) PROVE seen' \in [Handlers -> SUBSET Issued']
    <3>1. PICK s \in todo[h] :
             seen' = [seen EXCEPT ![h] = IF kept[s] /\ IsActive(s, since[h]) THEN @ \cup {s} ELSE @]
      BY <2>3 DEF Read
    <3>2. kept[s] => s \in Issued
      BY DEF TypeOK, Issued
    <3>. QED  BY <1>1, <3>1, <3>2 DEF TypeOK
  <2>4. ASSUME NEW h \in Handlers, Revoke(h) PROVE seen' \in [Handlers -> SUBSET Issued']
    BY <1>1, <2>4 DEF TypeOK, Revoke
  <2>. QED
    BY <2>1, <2>2, <2>3, <2>4
       DEF Next, Login, Request, Arrive, Scan, Admit, Goto, Finish, Open, Get, Expire,
           Refresh, Close, Tick, vars
<1>. QED  BY <1>2, <1>3, <1>4

\* Every step keeps the types, and leaves a free handler blank.
LEMMA TypeStep ==
    ASSUME TypeOK, Blank, [Next]_vars
    PROVE  TypeOK' /\ Blank'
<1>0. /\ seen' \in [Handlers -> SUBSET Issued']
      /\ counted' \in [Handlers -> SUBSET Users]
      /\ behind' \in [Handlers -> SUBSET Issued']
  BY HistoryTyped
<1>1. ASSUME NEW h \in Handlers, NEW u \in Users, Login(h, u) PROVE TypeOK' /\ Blank'
  BY <1>0, <1>1 DEF TypeOK, Blank, Busy, Login, Arrive, Issued
<1>2. ASSUME NEW h \in Handlers, NEW s \in Ids, NEW what \in {"act", "logout"},
             Request(h, s, what)
      PROVE  TypeOK' /\ Blank'
  <2>1. owner[s] \in Users
    BY <1>2 DEF TypeOK, Request, Issued
  <2>a. quiet' = [quiet EXCEPT ![owner[s]] = 0]
    BY <1>2 DEF Request
  <2>2. quiet' \in [Users -> 0..AgeLimit]
    BY <2>1, <2>a DEF TypeOK
  <2>3. /\ pc[h] = "free"
        /\ pc' = [pc EXCEPT ![h] = "get"] /\ kind' = [kind EXCEPT ![h] = what]
        /\ user' = [user EXCEPT ![h] = owner[s]] /\ sid' = [sid EXCEPT ![h] = s]
        /\ UNCHANGED <<since, todo, seen, counted, behind, storeVars>>
    BY <1>2 DEF Request, Arrive
  <2>. QED  BY <1>0, <2>1, <2>2, <2>3 DEF TypeOK, Blank, Busy, Issued
<1>3. ASSUME NEW h \in Handlers, Scan(h) PROVE TypeOK' /\ Blank'
  <2>1. {s \in Ids : kept[s]} \in SUBSET Ids
    OBVIOUS
  <2>. QED  BY <1>0, <1>3, <2>1 DEF TypeOK, Blank, Busy, Scan
<1>4. ASSUME NEW h \in Handlers, Read(h) PROVE TypeOK' /\ Blank'
  <2>1. todo[h] # {} /\ Busy(h)
    BY <1>4 DEF Read, Blank
  <2>2. todo' \in [Handlers -> SUBSET Ids]
    BY <1>4 DEF TypeOK, Read
  <2>3. /\ UNCHANGED <<pc, kind, user, sid, since, counted, behind, storeVars, quiet>>
        /\ \A g \in Handlers : g # h => todo'[g] = todo[g] /\ seen'[g] = seen[g]
    BY <1>4 DEF TypeOK, Read
  <2>. QED  BY <1>0, <2>1, <2>2, <2>3 DEF TypeOK, Blank, Busy
<1>5. ASSUME NEW h \in Handlers, Admit(h) PROVE TypeOK' /\ Blank'
  <2>1. pc[h] = "counting" /\ UNCHANGED <<storeVars, quiet>>
    BY <1>5 DEF Admit
  <2>2. CASE Goto(h, "revoke")
    BY <1>0, <2>1, <2>2 DEF TypeOK, Blank, Busy, Goto
  <2>3. CASE Finish(h)
    BY <1>0, <2>1, <2>3 DEF TypeOK, Blank, Busy, Finish
  <2>. QED  BY <1>5, <2>2, <2>3 DEF Admit
<1>6. ASSUME NEW h \in Handlers, Revoke(h) PROVE TypeOK' /\ Blank'
  <2>1. PICK s \in ToRevoke(h) : Gone({s}) /\ seen' = [seen EXCEPT ![h] = @ \ {s}]
    BY <1>6 DEF Revoke
  <2>2. /\ pc[h] = "revoking"
        /\ UNCHANGED <<owner, pc, kind, user, sid, since, todo, counted, behind, quiet>>
    BY <1>6 DEF Revoke
  <2>. QED  BY <1>0, <2>1, <2>2, GoneTyped DEF TypeOK, Blank, Busy
<1>7. ASSUME NEW h \in Handlers, Open(h) PROVE TypeOK' /\ Blank'
  <2>1. PICK s \in Ids \ Issued : owner' = [owner EXCEPT ![s] = user[h]] /\ Save(s, h)
    BY <1>7 DEF Open
  <2>2. owner[s] = NoUser /\ pc[h] = "revoking" /\ user[h] \in Users
    BY <1>7, <2>1 DEF TypeOK, Busy, Issued, Open
  <2>3. owner' \in [Ids -> Users \cup {NoUser}]
    BY <2>1, <2>2 DEF TypeOK
  <2>4. quiet' \in [Users -> 0..AgeLimit]
    BY <1>7, <2>2 DEF TypeOK, Open
  <2>5. \A t \in Ids : kept'[t] => owner'[t] # NoUser
    BY <2>1, <2>2 DEF TypeOK, Save
  <2>6. Finish(h)
    BY <1>7 DEF Open
  <2>7. \A g \in Handlers : sid'[g] # NoId => sid'[g] = sid[g] /\ sid[g] # s
    BY <2>2, <2>6 DEF TypeOK, Busy, Finish
  <2>8. /\ kept' \in [Ids -> BOOLEAN]
        /\ age' \in [Ids -> 0..AgeLimit]
        /\ left' \in [Ids -> {Forever} \cup 0..IdleTimeout]
    BY <2>1, SaveTyped
  <2>9. /\ pc' \in [Handlers -> {"free", "count", "counting", "revoke", "revoking",
                            "get", "expire", "refresh", "close"}]
        /\ kind' \in [Handlers -> {"none", "login", "act", "logout"}]
        /\ user' \in [Handlers -> Users \cup {NoUser}]
        /\ sid' \in [Handlers -> Ids \cup {NoId}]
        /\ since' \in [Handlers -> 0..MaxLag]
        /\ todo' \in [Handlers -> SUBSET Ids]
    BY <2>6 DEF TypeOK, Finish
  <2>10. \A g \in Handlers : Busy(g)' <=> user'[g] # NoUser
    BY <2>6 DEF TypeOK, Busy, Finish
  <2>11. \A g \in Handlers : sid'[g] # NoId => Busy(g)' /\ owner'[sid'[g]] = user'[g]
    BY <2>1, <2>6, <2>7 DEF TypeOK, Busy, Finish
  <2>12. Blank'
    BY <2>6 DEF TypeOK, Blank, Busy, Finish
  <2>. QED  BY <1>0, <2>3, <2>4, <2>5, <2>8, <2>9, <2>10, <2>11, <2>12 DEF TypeOK
<1>8. ASSUME NEW h \in Handlers, Get(h) PROVE TypeOK' /\ Blank'
  <2>1. \/ Goto(h, "refresh") \/ Goto(h, "expire") \/ Finish(h)
    BY <1>8 DEF Get
  <2>2. pc[h] = "get" /\ UNCHANGED <<storeVars, quiet>>
    BY <1>8 DEF Get
  <2>3. CASE Goto(h, "refresh") \/ Goto(h, "expire")
    BY <1>0, <2>2, <2>3 DEF TypeOK, Blank, Busy, Goto
  <2>4. CASE Finish(h)
    BY <1>0, <2>2, <2>4 DEF TypeOK, Blank, Busy, Finish
  <2>. QED  BY <2>1, <2>3, <2>4
<1>9. ASSUME NEW h \in Handlers, Expire(h) \/ Close(h) PROVE TypeOK' /\ Blank'
  <2>1. Gone({sid[h]}) /\ Finish(h) /\ UNCHANGED <<owner, quiet>>
    BY <1>9 DEF Expire, Close
  <2>. QED  BY <1>0, <2>1, GoneTyped DEF TypeOK, Blank, Busy, Finish
<1>10. ASSUME NEW h \in Handlers, Refresh(h) PROVE TypeOK' /\ Blank'
  <2>1. /\ sid[h] \in Ids /\ owner[sid[h]] # NoUser
        /\ Save(sid[h], h) /\ UNCHANGED <<owner, quiet>> /\ pc[h] = "refresh"
    BY <1>10 DEF TypeOK, Blank, Refresh
  <2>2. \A t \in Ids : kept'[t] => owner'[t] # NoUser
    BY <2>1 DEF TypeOK, Save
  <2>3. CASE Goto(h, "close")
    BY <1>0, <2>1, <2>2, <2>3, SaveTyped DEF TypeOK, Blank, Busy, Goto
  <2>4. CASE Finish(h)
    BY <1>0, <2>1, <2>2, <2>4, SaveTyped DEF TypeOK, Blank, Busy, Finish
  <2>5. Goto(h, "close") \/ Finish(h)
    BY <1>10 DEF Refresh
  <2>. QED  BY <2>3, <2>4, <2>5
<1>11. ASSUME Tick PROVE TypeOK' /\ Blank'
  <2>1. /\ \A s \in Ids : kept'[s] => kept[s]
        /\ kept' \in [Ids -> BOOLEAN]
        /\ UNCHANGED <<owner, pc, kind, user, sid, todo, seen>>
    BY <1>11 DEF Tick, TypeOK
  <2>2. age' \in [Ids -> 0..AgeLimit]
    BY <1>11, OlderInRange DEF Tick, TypeOK
  <2>3. left' \in [Ids -> {Forever} \cup 0..IdleTimeout]
    <3>. DEFINE stay == {s \in Ids : kept[s] /\ left[s] # 0}
                after == [s \in Ids |-> IF s \notin stay THEN 0
                            ELSE IF left[s] = Forever THEN Forever ELSE left[s] - 1]
    <3>1. left' = after
      BY <1>11 DEF Tick
    <3>2. ASSUME NEW s \in Ids PROVE after[s] \in {Forever} \cup 0..IdleTimeout
      <4>1. left[s] \in {Forever} \cup 0..IdleTimeout
        BY DEF TypeOK
      <4>2. CASE s \notin stay \/ left[s] = Forever
        BY <4>2
      <4>3. CASE s \in stay /\ left[s] # Forever
        <5>1. left[s] # 0 /\ after[s] = left[s] - 1
          BY <4>3
        <5>. QED  BY <4>1, <4>3, <5>1
      <4>. QED  BY <4>2, <4>3
    <3>. QED  BY <3>1, <3>2
  <2>4. since' \in [Handlers -> 0..MaxLag] /\ \A h \in Handlers : ~Busy(h) => since'[h] = 0
    BY <1>11 DEF Tick, TypeOK
  <2>5. quiet' \in [Users -> 0..AgeLimit]
    BY <1>11, OlderInRange DEF Tick, TypeOK
  <2>. QED  BY <1>0, <2>1, <2>2, <2>3, <2>4, <2>5 DEF TypeOK, Blank, Busy
<1>12. ASSUME UNCHANGED vars PROVE TypeOK' /\ Blank'
  BY <1>0, <1>12 DEF TypeOK, Blank, Busy, vars
<1>. QED
  BY <1>1, <1>2, <1>3, <1>4, <1>5, <1>6, <1>7, <1>8, <1>9, <1>10, <1>11, <1>12
     DEF Next

\* The shape of the store and of the requests: a stored session has an owner, a
\* request with a cookie acts for the owner of that session.
THEOREM TypesHold == Spec => [](TypeOK /\ Blank)
<1>1. Init => TypeOK /\ Blank
  BY DEF Init, TypeOK, Blank, Busy
<1>2. TypeOK /\ Blank /\ [Next]_vars => TypeOK' /\ Blank'
  BY TypeStep
<1>. QED  BY <1>1, <1>2, PTL DEF Spec

-----------------------------------------------------------------------------
(* Seats are freed.                                                        *)

\* The trail of a person's last request is never ahead of what is stored: every
\* write stores the `now` of a request whose sender has been quiet no longer.
LEMMA TrailStep ==
    ASSUME TypeOK, Blank, Trail, [Next]_vars
    PROVE  Trail'
<1>. USE DEF TypeOK, Trail
<1>1. ASSUME NEW h \in Handlers, NEW u \in Users, Login(h, u) PROVE Trail'
  <2>1. /\ UNCHANGED <<storeVars, quiet, since>>
        /\ \A g \in Handlers : sid'[g] # NoId => sid'[g] = sid[g] /\ user'[g] = user[g]
    BY <1>1 DEF Login, Arrive
  <2>. QED  BY <2>1
<1>2. ASSUME NEW h \in Handlers, NEW s \in Ids, NEW what \in {"act", "logout"},
             Request(h, s, what)
      PROVE  Trail'
  <2>1. /\ owner[s] \in Users
        /\ quiet' = [quiet EXCEPT ![owner[s]] = 0]
        /\ user' = [user EXCEPT ![h] = owner[s]] /\ sid' = [sid EXCEPT ![h] = s]
        /\ UNCHANGED <<storeVars, since>>
    BY <1>2 DEF Request, Arrive, Issued
  <2>2. \A u \in Users : quiet'[u] <= quiet[u]
    BY <2>1
  <2>3. ASSUME NEW t \in Ids, kept'[t], ~Exempt(owner'[t]) PROVE quiet'[owner'[t]] <= age'[t]
    <3>1. owner[t] \in Users /\ quiet[owner[t]] <= age[t]
      BY <2>1, <2>3
    <3>2. quiet'[owner[t]] \in Int /\ quiet[owner[t]] \in Int /\ age[t] \in Int
      BY <2>1, <3>1
    <3>. QED  BY <2>1, <2>2, <3>1, <3>2
  <2>4. ASSUME NEW g \in Handlers, sid'[g] # NoId PROVE quiet'[user'[g]] <= since'[g]
    <3>1. CASE g = h
      BY <2>1, <3>1
    <3>2. CASE g # h
      <4>1. user[g] \in Users /\ quiet[user[g]] <= since[g]
        BY <2>1, <2>4, <3>2
      <4>2. quiet'[user[g]] \in Int /\ quiet[user[g]] \in Int /\ since[g] \in Int
        BY <2>1, <4>1
      <4>. QED  BY <2>1, <2>2, <3>2, <4>1, <4>2
    <3>. QED  BY <3>1, <3>2
  <2>. QED  BY <2>3, <2>4
<1>3. ASSUME NEW h \in Handlers, Scan(h) PROVE Trail'
  BY <1>3 DEF Scan
<1>4. ASSUME NEW h \in Handlers, Read(h) PROVE Trail'
  <2>1. UNCHANGED <<pc, kind, user, sid, since, counted, behind, storeVars, quiet>>
    BY <1>4 DEF Read
  <2>. QED  BY <2>1
<1>5. ASSUME NEW h \in Handlers, Admit(h) PROVE Trail'
  <2>1. UNCHANGED <<storeVars, quiet>> /\ (Goto(h, "revoke") \/ Finish(h))
    BY <1>5 DEF Admit
  <2>2. \A g \in Handlers : sid'[g] # NoId =>
           sid'[g] = sid[g] /\ user'[g] = user[g] /\ since'[g] = since[g]
    BY <2>1 DEF Goto, Finish
  <2>. QED  BY <2>1, <2>2
<1>6. ASSUME NEW h \in Handlers, Revoke(h) PROVE Trail'
  <2>1. PICK s \in ToRevoke(h) : Gone({s})
    BY <1>6 DEF Revoke
  <2>2. UNCHANGED <<owner, pc, kind, user, sid, since, todo, counted, behind, quiet>>
    BY <1>6 DEF Revoke
  <2>3. \A t \in Ids : kept'[t] => kept[t] /\ age'[t] = age[t]
    BY <2>1, GoneTyped
  <2>. QED  BY <2>2, <2>3
<1>7. ASSUME NEW h \in Handlers, Open(h) PROVE Trail'
  <2>1. PICK s \in Ids \ Issued : owner' = [owner EXCEPT ![s] = user[h]] /\ Save(s, h)
    BY <1>7 DEF Open
  <2>2. owner[s] = NoUser /\ user[h] \in Users
    BY <1>7, <2>1 DEF Busy, Issued, Open
  <2>3. quiet' = [quiet EXCEPT ![user[h]] = IF @ < since[h] THEN @ ELSE since[h]] /\ Finish(h)
    BY <1>7 DEF Open
  <2>4. since[h] \in Int /\ quiet[user[h]] \in Int
    BY <2>2
  <2>5. quiet'[user[h]] = IF quiet[user[h]] < since[h] THEN quiet[user[h]] ELSE since[h]
    BY <2>2, <2>3
  <2>6. /\ quiet'[user[h]] <= since[h] /\ quiet'[user[h]] <= quiet[user[h]]
        /\ quiet'[user[h]] \in Int
    BY <2>4, <2>5
  <2>7. \A u \in Users : u # user[h] => quiet'[u] = quiet[u]
    BY <2>3
  <2>8. ASSUME NEW t \in Ids, kept'[t], ~Exempt(owner'[t]) PROVE quiet'[owner'[t]] <= age'[t]
    <3>1. CASE t = s
      <4>1. owner'[t] = user[h]
        BY <2>1, <3>1
      <4>2. age'[t] = since[h]
        BY <2>1, <2>8, <3>1, <4>1 DEF Save
      <4>. QED  BY <2>6, <4>1, <4>2
    <3>2. CASE t # s
      <4>1. kept[t] /\ owner'[t] = owner[t] /\ age'[t] = age[t]
        BY <2>1, <2>8, <3>2 DEF Save
      <4>2. owner[t] \in Users /\ quiet[owner[t]] <= age[t] /\ age[t] \in Int
        BY <2>8, <4>1
      <4>. QED  BY <2>4, <2>6, <2>7, <4>1, <4>2
    <3>. QED  BY <3>1, <3>2
  <2>9. ASSUME NEW g \in Handlers, sid'[g] # NoId PROVE quiet'[user'[g]] <= since'[g]
    <3>1. /\ sid[g] # NoId /\ user'[g] = user[g] /\ since'[g] = since[g]
          /\ user[g] \in Users /\ since[g] \in Int
      BY <2>3, <2>9 DEF Finish, Busy
    <3>2. quiet[user[g]] <= since[g]
      BY <3>1
    <3>. QED  BY <2>4, <2>6, <2>7, <3>1, <3>2
  <2>. QED  BY <2>8, <2>9
<1>8. ASSUME NEW h \in Handlers, Get(h) PROVE Trail'
  <2>1. /\ UNCHANGED <<storeVars, quiet>>
        /\ Goto(h, "refresh") \/ Goto(h, "expire") \/ Finish(h)
    BY <1>8 DEF Get
  <2>2. \A g \in Handlers : sid'[g] # NoId =>
           sid'[g] = sid[g] /\ user'[g] = user[g] /\ since'[g] = since[g]
    BY <2>1 DEF Goto, Finish
  <2>. QED  BY <2>1, <2>2
<1>9. ASSUME NEW h \in Handlers, Expire(h) \/ Close(h) PROVE Trail'
  <2>1. Gone({sid[h]}) /\ Finish(h) /\ UNCHANGED <<owner, quiet>>
    BY <1>9 DEF Expire, Close
  <2>2. \A t \in Ids : kept'[t] => kept[t] /\ age'[t] = age[t]
    BY <2>1, GoneTyped
  <2>3. \A g \in Handlers : sid'[g] # NoId =>
           sid'[g] = sid[g] /\ user'[g] = user[g] /\ since'[g] = since[g]
    BY <2>1 DEF Finish
  <2>. QED  BY <2>1, <2>2, <2>3
<1>10. ASSUME NEW h \in Handlers, Refresh(h) PROVE Trail'
  <2>1. /\ Save(sid[h], h) /\ UNCHANGED <<owner, quiet>>
        /\ Goto(h, "close") \/ Finish(h)
    BY <1>10 DEF Refresh
  <2>2. sid[h] \in Ids /\ sid[h] # NoId /\ owner[sid[h]] = user[h]
    BY <1>10 DEF Refresh, Blank
  <2>3. ASSUME NEW t \in Ids, kept'[t], ~Exempt(owner'[t]) PROVE quiet'[owner'[t]] <= age'[t]
    <3>1. CASE t = sid[h]
      <4>1. age'[t] = since[h]
        BY <2>1, <2>2, <2>3, <3>1 DEF Save
      <4>. QED  BY <2>1, <2>2, <3>1, <4>1
    <3>2. CASE t # sid[h]
      BY <2>1, <2>3, <3>2 DEF Save
    <3>. QED  BY <3>1, <3>2
  <2>4. \A g \in Handlers : sid'[g] # NoId =>
           sid'[g] = sid[g] /\ user'[g] = user[g] /\ since'[g] = since[g]
    BY <2>1 DEF Goto, Finish
  <2>. QED  BY <2>1, <2>3, <2>4
<1>11. ASSUME Tick PROVE Trail'
  <2>1. /\ quiet' = [u \in Users |-> Older(quiet[u])]
        /\ UNCHANGED <<owner, pc, kind, user, sid, todo, seen>>
    BY <1>11 DEF Tick
  <2>2. ASSUME NEW t \in Ids, kept'[t], ~Exempt(owner'[t]) PROVE quiet'[owner'[t]] <= age'[t]
    <3>1. kept[t] /\ age'[t] = Older(age[t]) /\ owner'[t] = owner[t]
      BY <1>11, <2>2 DEF Tick
    <3>2. owner[t] \in Users /\ quiet[owner[t]] <= age[t]
      BY <2>2, <3>1
    <3>3. quiet[owner[t]] \in 0..AgeLimit /\ age[t] \in 0..AgeLimit
      BY <3>2
    <3>. QED  BY <2>1, <3>1, <3>2, <3>3, OlderInRange
  <2>3. ASSUME NEW g \in Handlers, sid'[g] # NoId PROVE quiet'[user'[g]] <= since'[g]
    <3>1. user[g] \in Users /\ quiet[user[g]] <= since[g] /\ user'[g] = user[g]
      BY <2>1, <2>3 DEF Busy
    <3>2. since'[g] = since[g] + 1
      BY <1>11, <2>1, <2>3 DEF Tick
    <3>3. since[g] \in Nat /\ quiet[user[g]] \in Nat
      BY <3>1
    <3>4. quiet'[user[g]] <= quiet[user[g]] + 1
      BY <2>1, <3>1, <3>3 DEF Older
    <3>5. quiet'[user[g]] \in Int
      BY <2>1, <3>1, <3>3 DEF Older
    <3>. QED  BY <3>1, <3>2, <3>3, <3>4, <3>5
  <2>. QED  BY <2>2, <2>3
<1>12. ASSUME UNCHANGED vars PROVE Trail'
  BY <1>12 DEF vars
<1>. QED
  BY <1>1, <1>2, <1>3, <1>4, <1>5, <1>6, <1>7, <1>8, <1>9, <1>10, <1>11, <1>12
     DEF Next

\* Nobody has sent anything yet.
LEMMA TrailInit == Init => Trail
BY DEF Init, Trail

\* However requests overlap and however long each takes, a person who sent
\* nothing for the idle timeout holds no seat.
THEOREM SeatsAreFreed == Spec => []SeatIsFreed
<1>1. TypeOK /\ Blank /\ Trail /\ [Next]_vars => Trail'
  BY TrailStep
<1>2. TypeOK /\ Trail => SeatIsFreed
  <2>. SUFFICES ASSUME TypeOK, Trail, NEW s \in ActiveNow, ~Exempt(owner[s])
                PROVE  quiet[owner[s]] <= IdleTimeout
    BY DEF SeatIsFreed
  <2>1. s \in Ids /\ kept[s] /\ age[s] - 0 <= IdleTimeout
    BY DEF ActiveNow, IsActive
  <2>2. age[s] \in Int /\ quiet[owner[s]] \in Int /\ quiet[owner[s]] <= age[s]
    BY <2>1 DEF TypeOK, Trail
  <2>. QED  BY <2>1, <2>2
<1>. QED  BY <1>1, <1>2, TrailInit, TypesHold, PTL DEF Spec

-----------------------------------------------------------------------------
(* The dead stay dead.                                                     *)

\* Nothing saves a dead session: a new one gets a new id, and touch saves the
\* session it has found.
LEMMA DeadStep ==
    ASSUME TypeOK, Blank, [Next]_vars, NEW s \in Issued, Dead(s)
    PROVE  Dead(s)'
<1>. USE DEF TypeOK, Dead
<1>0. s \in Ids /\ owner[s] # NoUser /\ ~kept[s]
  BY DEF Issued
<1>1. ASSUME NEW h \in Handlers, NEW u \in Users, Login(h, u) PROVE Dead(s)'
  BY <1>0, <1>1 DEF Login, Arrive
<1>2. ASSUME NEW h \in Handlers, NEW t \in Ids, NEW what \in {"act", "logout"},
             Request(h, t, what)
      PROVE  Dead(s)'
  BY <1>0, <1>2 DEF Request, Arrive
<1>3. ASSUME NEW h \in Handlers, Scan(h) PROVE Dead(s)'
  BY <1>0, <1>3 DEF Scan
<1>4. ASSUME NEW h \in Handlers, Read(h) PROVE Dead(s)'
  <2>1. UNCHANGED <<pc, sid, storeVars>>
    BY <1>4 DEF Read
  <2>. QED  BY <1>0, <2>1
<1>5. ASSUME NEW h \in Handlers, Admit(h) PROVE Dead(s)'
  <2>1. UNCHANGED storeVars /\ (Goto(h, "revoke") \/ Finish(h))
    BY <1>5 DEF Admit
  <2>. QED  BY <1>0, <2>1 DEF Goto, Finish
<1>6. ASSUME NEW h \in Handlers, Revoke(h) PROVE Dead(s)'
  <2>1. PICK t \in ToRevoke(h) : Gone({t})
    BY <1>6 DEF Revoke
  <2>2. UNCHANGED <<pc, sid>>
    BY <1>6 DEF Revoke
  <2>3. ~kept'[s]
    BY <1>0, <2>1, GoneTyped
  <2>. QED  BY <2>2, <2>3
<1>7. ASSUME NEW h \in Handlers, Open(h) PROVE Dead(s)'
  <2>1. PICK t \in Ids \ Issued : Save(t, h)
    BY <1>7 DEF Open
  <2>2. Finish(h)
    BY <1>7 DEF Open
  <2>3. ~kept'[s]
    BY <1>0, <2>1 DEF Save
  <2>. QED  BY <1>0, <2>2, <2>3 DEF Finish
<1>8. ASSUME NEW h \in Handlers, Get(h) PROVE Dead(s)'
  <2>1. UNCHANGED storeVars
    BY <1>8 DEF Get
  <2>2. CASE Finish(h) \/ Goto(h, "expire")
    BY <1>0, <2>1, <2>2 DEF Finish, Goto
  <2>3. CASE Accept(sid[h], since[h]) /\ Goto(h, "refresh")
    <3>1. sid[h] # s
      BY <1>0, <2>3 DEF Accept
    <3>. QED  BY <1>0, <2>1, <2>3, <3>1 DEF Goto
  <2>. QED  BY <1>8, <2>2, <2>3 DEF Get
<1>9. ASSUME NEW h \in Handlers, Expire(h) \/ Close(h) PROVE Dead(s)'
  <2>1. Gone({sid[h]}) /\ Finish(h)
    BY <1>9 DEF Expire, Close
  <2>2. ~kept'[s]
    BY <1>0, <2>1, GoneTyped
  <2>. QED  BY <1>0, <2>1, <2>2 DEF Finish
<1>10. ASSUME NEW h \in Handlers, Refresh(h) PROVE Dead(s)'
  <2>1. /\ Save(sid[h], h) /\ pc[h] = "refresh"
        /\ Goto(h, "close") \/ Finish(h)
    BY <1>10 DEF Refresh
  <2>2. sid[h] # s
    BY <1>0, <2>1
  <2>3. ~kept'[s]
    BY <1>0, <2>1, <2>2 DEF Save
  <2>. QED  BY <1>0, <2>1, <2>3 DEF Goto, Finish
<1>11. ASSUME Tick PROVE Dead(s)'
  BY <1>0, <1>11 DEF Tick
<1>12. ASSUME UNCHANGED vars PROVE Dead(s)'
  BY <1>12 DEF vars
<1>. QED
  BY <1>1, <1>2, <1>3, <1>4, <1>5, <1>6, <1>7, <1>8, <1>9, <1>10, <1>11, <1>12
     DEF Next

\* A stale cookie never revives a session: whoever writes a session back has
\* read it while it was there.
THEOREM NoSessionRises == Spec => DeadStaysDead
<1>1. TypeOK /\ Blank /\ [Next]_vars => [\A s \in Issued : Dead(s) => Dead(s)']_vars
  BY DeadStep
<1>. QED  BY <1>1, TypesHold, PTL DEF Spec, DeadStaysDead

-----------------------------------------------------------------------------
(* What overlapping logins can and cannot do.                              *)

\* A request with an older `now` is no stricter.
LEMMA LaterIsStricter ==
    ASSUME TypeOK, NEW s \in Ids, NEW h \in Handlers, IsActive(s, 0)
    PROVE  IsActive(s, since[h])
<1>1. age[s] \in Int /\ since[h] \in Nat
  BY DEF TypeOK
<1>. QED  BY <1>1 DEF IsActive

\* Time takes validity away and gives none.
LEMMA TickIsStrict ==
    ASSUME TypeOK, Blank, Tick, NEW h \in Handlers, NEW t \in Ids,
           kept'[t], IsActive(t, since[h])'
    PROVE  kept[t] /\ IsActive(t, since[h])
<1>1. /\ kept[t] /\ UNCHANGED owner
      /\ ~Exempt(owner[t]) => age'[t] = Older(age[t])
  BY DEF Tick
<1>2. CASE Exempt(owner[t])
  BY <1>1, <1>2 DEF IsActive
<1>3. CASE ~Exempt(owner[t])
  <2>1. Older(age[t]) - since'[h] <= IdleTimeout
    BY <1>1, <1>3 DEF IsActive, Exempt
  <2>2. age[t] \in 0..AgeLimit /\ since[h] \in 0..MaxLag
    BY DEF TypeOK
  <2>3. \/ since'[h] = since[h] + 1 /\ since[h] < MaxLag
        \/ since'[h] = 0 /\ since[h] = 0
    BY DEF Tick, Blank
  <2>4. age[t] - since[h] <= IdleTimeout
    BY <2>1, <2>2, <2>3 DEF Older
  <2>. QED  BY <1>1, <2>4 DEF IsActive
<1>. QED  BY <1>2, <1>3

\* A step that leaves login h alone keeps its account, when each session that
\* is valid afterwards was so before or has come behind its back.
LEMMA Undisturbed ==
    ASSUME TypeOK, NEW h \in Handlers, Accounted(h),
           pc'[h] = pc[h], user'[h] = user[h], todo'[h] = todo[h],
           seen'[h] = seen[h], counted'[h] = counted[h],
           behind[h] \subseteq behind'[h],
           \A t \in Issued : owner'[t] = owner[t],
           \A t \in Ids : kept'[t] /\ IsActive(t, since[h])' =>
              (kept[t] /\ IsActive(t, since[h])) \/ t \in behind'[h]
    PROVE  Accounted(h)'
<1>1. \A t \in Ids : kept[t] => owner'[t] = owner[t]
  BY DEF TypeOK, Issued
<1>2. Found(h) => Found(h)'
  BY DEF Found
<1>3. FoundOwn(h) => FoundOwn(h)'
  BY <1>1 DEF FoundOwn
<1>4. People(behind[h]) \subseteq People(behind[h])'
  BY DEF TypeOK, People
<1>5. Placed(h) => Placed(h)'
  BY <1>1, <1>4 DEF Placed, Exempt, People
<1>. QED  BY <1>2, <1>3, <1>5 DEF Accounted, Exempt

\* A request that neither counts nor revokes has no account to keep.
LEMMA NoAccount ==
    ASSUME NEW h \in Handlers, pc'[h] \notin {"counting", "revoke", "revoking"}
    PROVE  Accounted(h)'
BY DEF Accounted

\* Whatever another request g does, login h has found it or it has come behind
\* its back.
LEMMA OthersStep ==
    ASSUME TypeOK, Blank, NEW h \in Handlers, NEW g \in Handlers \ {h}, Accounted(h),
           \/ \E u \in Users : Login(g, u)
           \/ \E s \in Ids, what \in {"act", "logout"} : Request(g, s, what)
           \/ Scan(g) \/ Read(g) \/ Admit(g) \/ Revoke(g) \/ Open(g)
           \/ Get(g) \/ Expire(g) \/ Refresh(g) \/ Close(g)
    PROVE  Accounted(h)'
<1>1. /\ pc'[h] = pc[h] /\ user'[h] = user[h] /\ todo'[h] = todo[h]
      /\ seen'[h] = seen[h] /\ counted'[h] = counted[h] /\ since'[h] = since[h]
  <2>. USE DEF TypeOK
  <2>1. CASE \E u \in Users : Login(g, u)
    BY <2>1 DEF Login, Arrive
  <2>2. CASE \E s \in Ids, what \in {"act", "logout"} : Request(g, s, what)
    BY <2>2 DEF Request, Arrive
  <2>3. CASE Scan(g)
    BY <2>3 DEF Scan
  <2>4. CASE Read(g)
    BY <2>4 DEF Read
  <2>5. CASE Admit(g)
    BY <2>5 DEF Admit, Goto, Finish
  <2>6. CASE Revoke(g)
    BY <2>6 DEF Revoke
  <2>7. CASE Open(g) \/ Get(g) \/ Expire(g) \/ Refresh(g) \/ Close(g)
    <3>1. Finish(g) \/ \E where : Goto(g, where) /\ UNCHANGED counted
      BY <2>7 DEF Open, Get, Expire, Refresh, Close
    <3>. QED  BY <3>1 DEF Goto, Finish
  <2>. QED  BY <2>1, <2>2, <2>3, <2>4, <2>5, <2>6, <2>7
<1>2. CASE UNCHANGED <<storeVars, behind>>
  <2>1. \A t \in Ids : kept'[t] /\ IsActive(t, since[h])' => kept[t] /\ IsActive(t, since[h])
    BY <1>1, <1>2 DEF IsActive, Exempt
  <2>. QED  BY <1>1, <1>2, <2>1, Undisturbed
<1>3. CASE UNCHANGED storeVars /\ behind'[h] = behind[h]
  <2>1. \A t \in Ids : kept'[t] /\ IsActive(t, since[h])' => kept[t] /\ IsActive(t, since[h])
    BY <1>1, <1>3 DEF IsActive, Exempt
  <2>. QED  BY <1>1, <1>3, <2>1, Undisturbed
<1>4. ASSUME NEW S, Gone(S), UNCHANGED <<owner, behind>> PROVE Accounted(h)'
  <2>1. \A t \in Ids : kept'[t] => kept[t] /\ age'[t] = age[t]
    BY <1>4, GoneTyped
  <2>2. \A t \in Ids : kept'[t] /\ IsActive(t, since[h])' => kept[t] /\ IsActive(t, since[h])
    BY <1>1, <1>4, <2>1 DEF IsActive, Exempt
  <2>. QED  BY <1>1, <1>4, <2>2, Undisturbed
<1>5. ASSUME NEW s \in Ids, Save(s, g), \A t \in Ids \ {s} : owner'[t] = owner[t],
             s \in Issued => owner'[s] = owner[s]
      PROVE  Accounted(h)'
  <2>1. CASE pc[h] \notin {"counting", "revoke", "revoking"}
    BY <1>1, <2>1, NoAccount
  <2>2. CASE pc[h] \in {"counting", "revoke", "revoking"}
    <3>1. behind'[h] = behind[h] \cup {s}
      BY <1>5, <2>2 DEF Save, Missed, Blank
    <3>2. \A t \in Ids \ {s} : kept'[t] = kept[t] /\ age'[t] = age[t]
      BY <1>5 DEF TypeOK, Save
    <3>3. \A t \in Ids \ {s} : kept'[t] /\ IsActive(t, since[h])' => kept[t] /\ IsActive(t, since[h])
      BY <1>1, <1>5, <3>2 DEF IsActive, Exempt
    <3>4. \A t \in Issued : owner'[t] = owner[t]
      BY <1>5 DEF Issued
    <3>. QED  BY <1>1, <3>1, <3>3, <3>4, Undisturbed
  <2>. QED  BY <2>1, <2>2
<1>6. CASE Open(g)
  <2>1. PICK s \in Ids \ Issued : owner' = [owner EXCEPT ![s] = user[g]] /\ Save(s, g)
    BY <1>6 DEF Open
  <2>. QED  BY <1>5, <2>1 DEF TypeOK
<1>7. CASE Refresh(g)
  <2>1. sid[g] \in Ids /\ Save(sid[g], g) /\ UNCHANGED owner
    BY <1>7 DEF Refresh, Blank, TypeOK
  <2>. QED  BY <1>5, <2>1
<1>8. CASE Revoke(g) \/ Expire(g) \/ Close(g)
  BY <1>4, <1>8 DEF Revoke, Expire, Close
<1>9. CASE Scan(g) \/ Admit(g)
  BY <1>3, <1>9 DEF Scan, Looks, Admit, TypeOK
<1>10. CASE \/ \E u \in Users : Login(g, u)
            \/ \E s \in Ids, what \in {"act", "logout"} : Request(g, s, what)
            \/ Read(g) \/ Get(g)
  BY <1>2, <1>10 DEF Login, Request, Arrive, Read, Get
<1>. QED  BY <1>6, <1>7, <1>8, <1>9, <1>10

\* What login h does itself leaves nothing out: its scans list every key, and
\* it is let in with everybody it knows of on its list.
LEMMA OwnStep ==
    ASSUME TypeOK, Blank, NEW h \in Handlers, Accounted(h),
           \/ \E u \in Users : Login(h, u)
           \/ \E s \in Ids, what \in {"act", "logout"} : Request(h, s, what)
           \/ Scan(h) \/ Read(h) \/ Admit(h) \/ Revoke(h) \/ Open(h)
           \/ Get(h) \/ Expire(h) \/ Refresh(h) \/ Close(h)
    PROVE  Accounted(h)'
<1>1. ASSUME NEW u \in Users, Login(h, u) PROVE Accounted(h)'
  <2>1. pc'[h] = (IF Exempt(u) THEN "revoke" ELSE "count") /\ user'[h] = u
    BY <1>1 DEF TypeOK, Login, Arrive
  <2>. QED  BY <2>1 DEF Accounted, Exempt
<1>2. CASE \E s \in Ids, what \in {"act", "logout"} : Request(h, s, what)
  <2>1. pc'[h] = "get"
    BY <1>2 DEF TypeOK, Request, Arrive
  <2>. QED  BY <2>1, NoAccount
<1>3. CASE Scan(h)
  <2>1. /\ todo'[h] = {s \in Ids : kept[s]} /\ pc[h] \in {"count", "revoke"}
        /\ pc'[h] = IF pc[h] = "count" THEN "counting" ELSE "revoking"
        /\ UNCHANGED <<user, counted, since, storeVars>>
    BY <1>3 DEF TypeOK, Scan
  <2>2. Found(h)' /\ FoundOwn(h)'
    BY <2>1 DEF Found, FoundOwn
  <2>3. ASSUME pc[h] = "revoke", Placed(h) PROVE Placed(h)'
    <3>1. behind'[h] = {s \in behind[h] : owner[s] # user[h]}
      BY <1>3, <2>3 DEF TypeOK, Scan, Looks
    <3>2. \A u : u \in People(behind[h]) => u = user[h] \/ u \in People(behind[h])'
      BY <2>1, <3>1 DEF People
    <3>3. ASSUME NEW s \in Ids, kept'[s], IsActive(s, since[h])', ~Exempt(owner'[s])
          PROVE  owner'[s] \in counted'[h] \cup {user'[h]} \cup People(behind[h])'
      <4>1. owner[s] \in counted[h] \cup {user[h]} \cup People(behind[h])
        BY <2>1, <2>3, <3>3 DEF Placed, IsActive, Exempt
      <4>. QED  BY <2>1, <3>2, <4>1
    <3>. QED  BY <2>1, <2>3, <3>3 DEF Placed, Exempt
  <2>. QED  BY <2>1, <2>2, <2>3 DEF Accounted, Exempt
<1>4. CASE Read(h)
  <2>1. PICK s \in todo[h] :
          /\ todo' = [todo EXCEPT ![h] = @ \ {s}]
          /\ seen' = [seen EXCEPT ![h] =
                        IF kept[s] /\ IsActive(s, since[h]) THEN @ \cup {s} ELSE @]
    BY <1>4 DEF Read
  <2>2. UNCHANGED <<pc, kind, user, sid, since, counted, behind, storeVars, quiet>>
    BY <1>4 DEF Read
  <2>3. todo'[h] = todo[h] \ {s} /\ seen[h] \subseteq seen'[h]
    BY <2>1 DEF TypeOK
  <2>4. kept[s] /\ IsActive(s, since[h]) => s \in seen'[h]
    BY <2>1 DEF TypeOK
  <2>5. (Found(h) => Found(h)') /\ (FoundOwn(h) => FoundOwn(h)')
    BY <2>2, <2>3, <2>4 DEF Found, FoundOwn, IsActive, Exempt
  <2>6. Placed(h) => Placed(h)'
    BY <2>2 DEF Placed, IsActive, Exempt, People
  <2>. QED  BY <2>2, <2>5, <2>6 DEF Accounted, Exempt
<1>5. CASE Admit(h)
  <2>1. pc[h] = "counting" /\ todo[h] = {} /\ UNCHANGED <<storeVars, quiet>>
    BY <1>5 DEF Admit
  <2>2. CASE Finish(h)
    <3>1. pc'[h] = "free"
      BY <2>2 DEF TypeOK, Finish
    <3>. QED  BY <3>1, NoAccount
  <2>3. CASE /\ FreeSlot(h)
             /\ Goto(h, "revoke")
             /\ counted' = [counted EXCEPT ![h] = Occupants(seen[h])]
             /\ UNCHANGED behind
    <3>1. pc'[h] = "revoke" /\ counted'[h] = Occupants(seen[h]) /\ UNCHANGED <<user, since>>
      BY <2>3 DEF TypeOK, Goto
    <3>2. ASSUME NEW s \in Ids, kept'[s], IsActive(s, since[h])', ~Exempt(owner'[s])
          PROVE  owner'[s] \in counted'[h] \cup {user'[h]} \cup People(behind[h])'
      <4>1. s \in seen[h] \cup behind[h]
        BY <2>1, <3>1, <3>2 DEF Accounted, Found, IsActive, Exempt
      <4>2. owner[s] \in Occupants(seen[h]) \cup People(behind[h])
        BY <2>1, <3>2, <4>1 DEF Occupants, People, Exempt
      <4>. QED  BY <2>1, <2>3, <3>1, <4>2 DEF People
    <3>3. Placed(h)'
      BY <2>3, <3>1, <3>2 DEF Placed, FreeSlot, Exempt
    <3>. QED  BY <3>1, <3>3 DEF Accounted
  <2>. QED  BY <1>5, <2>2, <2>3 DEF Admit
<1>6. CASE Revoke(h)
  <2>1. PICK s \in ToRevoke(h) : Gone({s}) /\ seen' = [seen EXCEPT ![h] = @ \ {s}]
    BY <1>6 DEF Revoke
  <2>2. /\ pc[h] = "revoking"
        /\ UNCHANGED <<owner, pc, kind, user, sid, since, todo, counted, behind, quiet>>
    BY <1>6 DEF Revoke
  <2>3. seen'[h] = seen[h] \ {s}
    BY <2>1 DEF TypeOK
  <2>4. \A t \in Ids : kept'[t] => kept[t] /\ t # s /\ age'[t] = age[t]
    BY <2>1, GoneTyped
  <2>5. \A t \in Ids : kept'[t] /\ IsActive(t, since[h])' => kept[t] /\ IsActive(t, since[h])
    BY <2>2, <2>4 DEF IsActive, Exempt
  <2>6. FoundOwn(h) => FoundOwn(h)'
    BY <2>2, <2>3, <2>4, <2>5 DEF FoundOwn
  <2>7. Placed(h) => Placed(h)'
    BY <2>2, <2>5 DEF Placed, Exempt, People
  <2>. QED  BY <2>2, <2>6, <2>7 DEF Accounted, Exempt
<1>7. CASE Open(h) \/ Get(h) \/ Expire(h) \/ Refresh(h) \/ Close(h)
  <2>1. Finish(h) \/ \E where \in {"refresh", "expire", "close"} : Goto(h, where)
    BY <1>7 DEF Open, Get, Expire, Refresh, Close
  <2>2. pc'[h] \in {"free", "refresh", "expire", "close"}
    BY <2>1 DEF TypeOK, Finish, Goto
  <2>. QED  BY <2>2, NoAccount
<1>. QED  BY <1>1, <1>2, <1>3, <1>4, <1>5, <1>6, <1>7

\* So every login keeps its account, whoever takes the step.
LEMMA LoginStep ==
    ASSUME TypeOK, Blank, LoginInv, [Next]_vars PROVE LoginInv'
<1>. SUFFICES ASSUME NEW h \in Handlers PROVE Accounted(h)'
  BY DEF LoginInv
<1>0. Accounted(h)
  BY DEF LoginInv
<1>1. ASSUME NEW g \in Handlers,
             \/ \E u \in Users : Login(g, u)
             \/ \E s \in Ids, what \in {"act", "logout"} : Request(g, s, what)
             \/ Scan(g) \/ Read(g) \/ Admit(g) \/ Revoke(g) \/ Open(g)
             \/ Get(g) \/ Expire(g) \/ Refresh(g) \/ Close(g)
      PROVE  Accounted(h)'
  <2>1. CASE g = h
    BY <1>0, <1>1, <2>1, OwnStep
  <2>2. CASE g # h
    BY <1>0, <1>1, <2>2, OthersStep
  <2>. QED  BY <2>1, <2>2
<1>2. CASE Tick
  <2>1. UNCHANGED <<owner, pc, kind, user, sid, todo, seen, counted, behind>>
    BY <1>2 DEF Tick
  <2>2. \A t \in Ids : kept'[t] /\ IsActive(t, since[h])' => kept[t] /\ IsActive(t, since[h])
    BY <1>2, TickIsStrict
  <2>. QED  BY <1>0, <2>1, <2>2, Undisturbed
<1>3. CASE UNCHANGED vars
  <2>1. \A t \in Ids : kept'[t] /\ IsActive(t, since[h])' => kept[t] /\ IsActive(t, since[h])
    BY <1>3 DEF vars, IsActive, Exempt
  <2>. QED  BY <1>0, <1>3, <2>1, Undisturbed DEF vars
<1>. QED  BY <1>1, <1>2, <1>3 DEF Next

\* What a login knew holds in every reachable state.
THEOREM LoginsAccount == Spec => []LoginInv
<1>1. Init => LoginInv
  BY DEF Init, LoginInv, Accounted
<1>2. TypeOK /\ Blank /\ LoginInv /\ [Next]_vars => LoginInv'
  BY LoginStep
<1>. QED  BY <1>1, <1>2, TypesHold, PTL DEF Spec

\* The only step that answers a login is Open.
LEMMA OpensIsOpen ==
    ASSUME TypeOK, NEW h \in Handlers, Opens(h), [Next]_vars
    PROVE  Open(h)
<1>. USE DEF TypeOK, Opens
<1>1. ASSUME NEW g \in Handlers, NEW u \in Users, Login(g, u) PROVE FALSE
  BY <1>1 DEF Login, Arrive
<1>2. ASSUME NEW g \in Handlers, NEW s \in Ids, NEW what \in {"act", "logout"},
             Request(g, s, what)
      PROVE  FALSE
  BY <1>2 DEF Request, Arrive
<1>3. ASSUME NEW g \in Handlers, Scan(g) \/ Read(g) \/ Revoke(g) PROVE FALSE
  BY <1>3 DEF Scan, Read, Revoke
<1>4. ASSUME NEW g \in Handlers, Admit(g) \/ Get(g) PROVE FALSE
  BY <1>4 DEF Admit, Get, Goto, Finish
<1>5. ASSUME NEW g \in Handlers, Expire(g) \/ Refresh(g) \/ Close(g) PROVE FALSE
  BY <1>5 DEF Expire, Refresh, Close, Goto, Finish
<1>6. ASSUME NEW g \in Handlers, Open(g) PROVE g = h
  BY <1>6 DEF Open, Finish
<1>7. ASSUME Tick \/ UNCHANGED vars PROVE FALSE
  BY <1>7 DEF Tick, vars
<1>. QED  BY <1>1, <1>2, <1>3, <1>4, <1>5, <1>6, <1>7 DEF Next

\* What a login leaves behind besides the session it opens was valid before.
LEMMA OldWereValid ==
    ASSUME TypeOK, NEW h \in Handlers, Open(h), NEW t \in Issued, t \in ActiveNow'
    PROVE  kept[t] /\ IsActive(t, since[h]) /\ owner'[t] = owner[t]
<1>1. PICK s \in Ids \ Issued : owner' = [owner EXCEPT ![s] = user[h]] /\ Save(s, h)
  BY DEF Open
<1>2. t \in Ids /\ t # s
  BY DEF Issued
<1>3. kept'[t] = kept[t] /\ age'[t] = age[t] /\ owner'[t] = owner[t]
  BY <1>1, <1>2 DEF TypeOK, Save
<1>4. kept[t] /\ IsActive(t, 0)
  BY <1>3 DEF ActiveNow, IsActive, Exempt
<1>. QED  BY <1>2, <1>3, <1>4, LaterIsStricter

\* _revoke_existing: however logins and refreshes overlap, the sessions a login
\* leaves its user besides the new one are those others wrote meanwhile.
THEOREM LoginsLeaveWhatTheyMissed == Spec => SoleAfterLogin
<1>1. ASSUME TypeOK, LoginInv, [Next]_vars, NEW h \in Handlers, Opens(h),
             NEW s \in Issued, s \in ActiveNow', owner[s] = user[h]
      PROVE  s \in behind[h]
  <2>1. Open(h)
    BY <1>1, OpensIsOpen
  <2>2. s \in Ids /\ kept[s] /\ IsActive(s, since[h])
    BY <1>1, <2>1, OldWereValid DEF Issued
  <2>3. s \in todo[h] \cup seen[h] \cup behind[h]
    BY <1>1, <2>2 DEF LoginInv, Accounted, FoundOwn, Opens
  <2>4. todo[h] = {} /\ s \notin seen[h]
    BY <1>1, <2>1 DEF Open, ToRevoke
  <2>. QED  BY <2>3, <2>4
<1>2. TypeOK /\ LoginInv /\ [Next]_vars =>
        [\A h \in Handlers : Opens(h) =>
           \A s \in Issued : s \in ActiveNow' /\ owner[s] = user[h] => s \in behind[h]]_vars
  BY <1>1
<1>. QED  BY <1>2, LoginsAccount, TypesHold, PTL DEF Spec, SoleAfterLogin

\* _require_free_slot: however requests overlap, a login takes the number of
\* people over the limit only with those who came behind its back.
THEOREM LoginsKeepToTheirCount == Spec => NobodyTooMany
<1>1. ASSUME TypeOK, LoginInv, [Next]_vars, NEW h \in Handlers, Opens(h), ~Exempt(user[h])
      PROVE  Cardinality(Occupants(ActiveNow)' \ People(behind[h]))
               <= Larger(MaxConcurrent, Cardinality(counted[h]))
  <2>. DEFINE known == counted[h] \cup {user[h]}
  <2>1. Open(h)
    BY <1>1, OpensIsOpen
  <2>2. Placed(h)
    BY <1>1 DEF LoginInv, Accounted, Opens
  <2>3. Occupants(ActiveNow)' \ People(behind[h]) \subseteq known
    <3>. SUFFICES ASSUME NEW s \in ActiveNow', owner'[s] \notin Admins,
                         owner'[s] \notin People(behind[h])
                  PROVE  owner'[s] \in known
      BY DEF Occupants, People
    <3>1. PICK new \in Ids \ Issued : owner' = [owner EXCEPT ![new] = user[h]] /\ Save(new, h)
      BY <2>1 DEF Open
    <3>2. s \in Ids
      BY DEF ActiveNow
    <3>3. CASE s = new
      BY <1>1, <3>1, <3>3 DEF TypeOK
    <3>4. CASE s # new /\ s \in Issued
      BY <1>1, <2>1, <2>2, <3>2, <3>4, OldWereValid DEF Placed, Exempt
    <3>5. CASE s # new /\ s \notin Issued
      <4>1. kept'[s] = kept[s] /\ kept'[s]
        BY <1>1, <3>1, <3>2, <3>5 DEF TypeOK, Save, ActiveNow
      <4>. QED  BY <1>1, <3>2, <3>5, <4>1 DEF TypeOK, Issued
    <3>. QED  BY <3>3, <3>4, <3>5
  <2>4. /\ IsFiniteSet(counted[h]) /\ Cardinality(counted[h]) \in Nat
        /\ IsFiniteSet(known) /\ Cardinality(known) \in Nat
        /\ Cardinality(known) <= IF user[h] \in counted[h] THEN Cardinality(counted[h])
                                  ELSE Cardinality(counted[h]) + 1
    <3>1. IsFiniteSet(counted[h])
      BY <1>1, FS_Subset DEF TypeOK
    <3>2. /\ IsFiniteSet(known)
          /\ Cardinality(known) = IF user[h] \in counted[h] THEN Cardinality(counted[h])
                                  ELSE Cardinality(counted[h]) + 1
      BY <3>1, FS_AddElement
    <3>3. Cardinality(counted[h]) \in Nat /\ Cardinality(known) \in Nat
      BY <3>1, <3>2, FS_CardinalityType
    <3>. QED  BY <3>1, <3>2, <3>3
  <2>5. Cardinality(known) <= Larger(MaxConcurrent, Cardinality(counted[h]))
    BY <2>2, <2>4 DEF Placed, Larger
  <2>6. /\ Cardinality(Occupants(ActiveNow)' \ People(behind[h])) <= Cardinality(known)
        /\ Cardinality(Occupants(ActiveNow)' \ People(behind[h])) \in Nat
    BY <2>3, <2>4, FS_Subset, FS_CardinalityType
  <2>7. Larger(MaxConcurrent, Cardinality(counted[h])) \in Nat
    BY <2>4 DEF Larger
  <2>. HIDE DEF known
  <2>. QED  BY <2>4, <2>5, <2>6, <2>7
<1>2. TypeOK /\ LoginInv /\ [Next]_vars =>
        [\A h \in Handlers : Opens(h) /\ ~Exempt(user[h]) =>
           Cardinality(Occupants(ActiveNow)' \ People(behind[h]))
             <= Larger(MaxConcurrent, Cardinality(counted[h]))]_vars
  BY <1>1
<1>. QED  BY <1>2, LoginsAccount, TypesHold, PTL DEF Spec, NobodyTooMany
=============================================================================
