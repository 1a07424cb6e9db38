------------------------------ MODULE Sessions ------------------------------
(***************************************************************************)
(* Login sessions: SessionPolicy (backend/app/auth/policy.py) over the     *)
(* Redis store (redis_store.py), as login, logout and every authenticated  *)
(* request of the API call it (api/routes_auth.py, api/deps.py).           *)
(*                                                                         *)
(* Each Redis command is atomic and every await between two of them lets   *)
(* another request in: a login counts the seats (SCAN, then one GET per    *)
(* key), scans again for its user's sessions, deletes them one by one and  *)
(* saves a new one; an authenticated request reads its session, judges it  *)
(* against the `now` it took on arrival and writes it back.                *)
(*                                                                         *)
(* Time is counted in ticks, as ages: since[h] is the age of the `now` of  *)
(* a request, age[s] that of a stored last_seen_at, left[s] what remains   *)
(* of the TTL.  Bounds: Ids sessions are ever opened, and a request is     *)
(* answered within MaxLag ticks.                                           *)
(*                                                                         *)
(* counted and behind are history: no guard reads them.  They hold what a  *)
(* login knew when it was let in, and what it could not know.              *)
(***************************************************************************)
EXTENDS Integers, FiniteSets

CONSTANTS
    Users, Admins,
    Ids,            \* session ids that token_urlsafe may still produce
    Handlers,       \* requests the API works on at the same time
    MaxConcurrent,  \* settings.max_concurrent_sessions, counted in people
    IdleTimeout,    \* 30 minutes, in ticks
    MaxLag,         \* bound on the ticks one request may take
    NoUser, NoId

ASSUME SessionAssumption ==
    /\ Admins \subseteq Users /\ NoUser \notin Users /\ NoId \notin Ids
    /\ IsFiniteSet(Users) /\ IsFiniteSet(Handlers)
    /\ MaxConcurrent \in Nat \ {0}
    /\ IdleTimeout \in Nat \ {0} /\ MaxLag \in Nat

VARIABLES
    owner,   \* owner[s]: Session.user_id, NoUser until the id is generated
    kept,    \* kept[s]: the key session:<s> is in Redis
    age,     \* age[s]: ticks since the stored last_seen_at
    left,    \* left[s]: ticks of TTL left, or Forever
    pc,      \* pc[h]: where request h is
    kind,    \* kind[h]: "login", "act" or "logout"
    user,    \* user[h]: who sent it
    sid,     \* sid[h]: the id in its cookie
    since,   \* since[h]: ticks since it took `now`
    todo,    \* todo[h]: keys of its SCAN it has not read yet
    seen,    \* seen[h]: sessions active_sessions has collected so far
    counted, \* counted[h]: the people a login counted when it was let in
    behind,  \* behind[h]: sessions others have written behind login h's back
    quiet    \* quiet[u]: ticks since u last sent an authenticated request

storeVars   == <<owner, kept, age, left>>
requestVars == <<pc, kind, user, sid, since, todo, seen, counted>>
vars        == <<storeVars, requestVars, behind, quiet>>

Forever  == -1
AgeLimit == IdleTimeout + MaxLag + 1
Busy(h)  == pc[h] # "free"
Issued   == {s \in Ids : owner[s] # NoUser}

\* Role.is_exempt_from_limits.
Exempt(u) == u \in Admins

\* is_active: `now` may be older than the last_seen_at another request wrote.
IdleIgnored(s, now) == TRUE
IsActive(s, now)    == Exempt(owner[s]) \/ age[s] - now <= IdleTimeout

\* What active_sessions would return if nothing moved while it ran.
ActiveNow    == {s \in Ids : kept[s] /\ IsActive(s, 0)}
People(S)    == {owner[s] : s \in S}
Occupants(S) == People(S) \ Admins

TypeOK ==
    /\ owner \in [Ids -> Users \cup {NoUser}]
    /\ kept \in [Ids -> BOOLEAN]
    /\ age \in [Ids -> 0..AgeLimit] /\ left \in [Ids -> {Forever} \cup 0..IdleTimeout]
    /\ pc \in [Handlers -> {"free", "count", "counting", "revoke", "revoking",
                            "get", "expire", "refresh", "close"}]
    /\ kind \in [Handlers -> {"none", "login", "act", "logout"}]
    /\ user \in [Handlers -> Users \cup {NoUser}]
    /\ sid \in [Handlers -> Ids \cup {NoId}]
    /\ since \in [Handlers -> 0..MaxLag]
    /\ todo \in [Handlers -> SUBSET Ids] /\ seen \in [Handlers -> SUBSET Issued]
    /\ counted \in [Handlers -> SUBSET Users]
    /\ behind \in [Handlers -> SUBSET Issued]
    /\ quiet \in [Users -> 0..AgeLimit]
    /\ \A s \in Ids : kept[s] => owner[s] # NoUser
    /\ \A h \in Handlers : Busy(h) <=> user[h] # NoUser
    /\ \A h \in Handlers : sid[h] # NoId => Busy(h) /\ owner[sid[h]] = user[h]

Init ==
    /\ owner = [s \in Ids |-> NoUser]
    /\ kept = [s \in Ids |-> FALSE]
    /\ age = [s \in Ids |-> 0] /\ left = [s \in Ids |-> 0]
    /\ pc = [h \in Handlers |-> "free"] /\ kind = [h \in Handlers |-> "none"]
    /\ user = [h \in Handlers |-> NoUser] /\ sid = [h \in Handlers |-> NoId]
    /\ since = [h \in Handlers |-> 0]
    /\ todo = [h \in Handlers |-> {}] /\ seen = [h \in Handlers |-> {}]
    /\ counted = [h \in Handlers |-> {}] /\ behind = [h \in Handlers |-> {}]
    /\ quiet = [u \in Users |-> AgeLimit]

-----------------------------------------------------------------------------
(* The store.                                                              *)

\* A login starts to count with nothing behind its back; once it scans for the
\* sessions of its user, those written before are before its eyes.
Looks(h) == behind' = [behind EXCEPT ![h] =
                         {s \in @ : pc[h] = "revoke" /\ owner[s] # user[h]}]

\* What request h writes, the logins under way may have missed.
Missed(s, h) ==
    behind' = [g \in Handlers |-> IF g # h /\ kind[g] = "login"
                                  THEN behind[g] \cup {s} ELSE {}]

\* ttl_for: administrators' sessions do not expire.
TtlFor(u) == IF Exempt(u) THEN Forever ELSE IdleTimeout

\* set(key, payload, ex=ttl): the TTL runs from the write, last_seen_at is the
\* `now` of the request (nobody looks at an administrator's).
Save(s, h) ==
    /\ kept' = [kept EXCEPT ![s] = TRUE]
    /\ age' = [age EXCEPT ![s] = IF Exempt(user[h]) THEN 0 ELSE since[h]]
    /\ left' = [left EXCEPT ![s] = TtlFor(user[h])]
    /\ Missed(s, h)

\* Dropping a key also drops what was stored under it.
Gone(S) ==
    /\ kept' = [s \in Ids |-> kept[s] /\ s \notin S]
    /\ age' = [s \in Ids |-> IF s \in S THEN 0 ELSE age[s]]
    /\ left' = [s \in Ids |-> IF s \in S THEN 0 ELSE left[s]]

Arrive(h, what, who, where, cookie) ==
    /\ pc[h] = "free"
    /\ pc' = [pc EXCEPT ![h] = where]
    /\ kind' = [kind EXCEPT ![h] = what]
    /\ user' = [user EXCEPT ![h] = who]
    /\ sid' = [sid EXCEPT ![h] = cookie]
    /\ UNCHANGED <<since, todo, seen, counted, behind>>

\* The answer goes out and the handler forgets everything.
Finish(h) ==
    /\ pc' = [pc EXCEPT ![h] = "free"]
    /\ kind' = [kind EXCEPT ![h] = "none"]
    /\ user' = [user EXCEPT ![h] = NoUser]
    /\ sid' = [sid EXCEPT ![h] = NoId]
    /\ since' = [since EXCEPT ![h] = 0]
    /\ todo' = [todo EXCEPT ![h] = {}]
    /\ seen' = [seen EXCEPT ![h] = {}]
    /\ counted' = [counted EXCEPT ![h] = {}]

\* A request moves on and keeps what it knows.
Goto(h, where) ==
    /\ pc' = [pc EXCEPT ![h] = where]
    /\ UNCHANGED <<kind, user, sid, since, todo, seen>>

-----------------------------------------------------------------------------
(* POST /auth/login with the right password: open_session.                 *)

\* Administrators skip _require_free_slot.  (The first conjunct is the bound Ids.)
Login(h, u) ==
    /\ Cardinality({g \in Handlers : kind[g] = "login"}) < Cardinality(Ids \ Issued)
    /\ Arrive(h, "login", u, IF Exempt(u) THEN "revoke" ELSE "count", NoId)
    /\ UNCHANGED <<storeVars, quiet>>

\* active_sessions, twice in a login: the SCAN ...
Scan(h) ==
    /\ pc[h] \in {"count", "revoke"}
    /\ todo' = [todo EXCEPT ![h] = {s \in Ids : kept[s]}]
    /\ seen' = [seen EXCEPT ![h] = {}]
    /\ pc' = [pc EXCEPT ![h] = IF @ = "count" THEN "counting" ELSE "revoking"]
    /\ Looks(h)
    /\ UNCHANGED <<kind, user, sid, since, counted, storeVars, quiet>>

\* ... and one GET per key: a session that vanished meanwhile is skipped.
Read(h) ==
    \E s \in todo[h] :
        /\ todo' = [todo EXCEPT ![h] = @ \ {s}]
        /\ seen' = [seen EXCEPT ![h] =
                      IF kept[s] /\ IsActive(s, since[h]) THEN @ \cup {s} ELSE @]
        /\ UNCHANGED <<pc, kind, user, sid, since, counted, behind, storeVars, quiet>>

\* _require_free_slot: whoever is in already needs no new seat.
FreeSlotOrMore(h) == Cardinality(Occupants(seen[h])) <= MaxConcurrent
FreeSlot(h) ==
    \/ user[h] \in Occupants(seen[h])
    \/ Cardinality(Occupants(seen[h])) < MaxConcurrent

Admit(h) ==
    /\ pc[h] = "counting" /\ todo[h] = {}
    /\ \/ /\ FreeSlot(h)
          /\ Goto(h, "revoke")
          /\ counted' = [counted EXCEPT ![h] = Occupants(seen[h])]
          /\ UNCHANGED behind
       \/ /\ ~FreeSlot(h)
          /\ Finish(h)
          /\ behind' = [behind EXCEPT ![h] = {}]
    /\ UNCHANGED <<storeVars, quiet>>

\* _revoke_existing: the sessions of this user among those it found.
NothingToRevoke(h) == {}
ToRevoke(h)        == {s \in seen[h] : owner[s] = user[h]}

Revoke(h) ==
    /\ pc[h] = "revoking" /\ todo[h] = {}
    /\ \E s \in ToRevoke(h) :
          /\ Gone({s})
          /\ seen' = [seen EXCEPT ![h] = @ \ {s}]
    /\ UNCHANGED <<owner, pc, kind, user, sid, since, todo, counted, behind, quiet>>

\* The new session, under an id nobody has seen; the cookie goes out with it.
Open(h) ==
    LET u == user[h] IN
    /\ pc[h] = "revoking" /\ todo[h] = {} /\ ToRevoke(h) = {}
    /\ \E s \in Ids \ Issued :
          /\ owner' = [owner EXCEPT ![s] = u]
          /\ Save(s, h)
    /\ quiet' = [quiet EXCEPT ![u] = IF @ < since[h] THEN @ ELSE since[h]]
    /\ Finish(h)

-----------------------------------------------------------------------------
(* Every other request: current_session calls touch.                       *)

\* The browser sends the cookie of some session it was given.  The page's own
\* poll of the occupancy is such a request, and keeps its owner in.
Request(h, s, what) ==
    /\ s \in Issued /\ what \in {"act", "logout"}
    /\ Arrive(h, what, owner[s], "get", s)
    /\ quiet' = [quiet EXCEPT ![owner[s]] = 0]
    /\ UNCHANGED storeVars

\* touch looks the session up and judges what it read.
AcceptAnything(s, now) == TRUE
Accept(s, now)         == kept[s] /\ IsActive(s, now)

Get(h) ==
    LET s == sid[h] IN
    /\ pc[h] = "get"
    /\ \/ Accept(s, since[h]) /\ Goto(h, "refresh") /\ UNCHANGED counted
       \/ ~Accept(s, since[h]) /\ kept[s] /\ Goto(h, "expire") /\ UNCHANGED counted
       \/ ~Accept(s, since[h]) /\ ~kept[s] /\ Finish(h)
    /\ UNCHANGED <<behind, storeVars, quiet>>

\* An idle session is deleted and the request answered with 401.
Expire(h) ==
    /\ pc[h] = "expire"
    /\ Gone({sid[h]})
    /\ Finish(h)
    /\ UNCHANGED <<owner, behind, quiet>>

\* save(refreshed): written back whatever happened to the key meanwhile.
Refresh(h) ==
    /\ pc[h] = "refresh"
    /\ Save(sid[h], h)
    /\ IF kind[h] = "logout" THEN Goto(h, "close") /\ UNCHANGED counted ELSE Finish(h)
    /\ UNCHANGED <<owner, quiet>>

\* close_session.
Close(h) ==
    /\ pc[h] = "close"
    /\ Gone({sid[h]})
    /\ Finish(h)
    /\ UNCHANGED <<owner, behind, quiet>>

-----------------------------------------------------------------------------
Older(n) == IF n < AgeLimit THEN n + 1 ELSE n

\* Time passes, and Redis drops the keys whose TTL is over.
Tick ==
    LET stay == {s \in Ids : kept[s] /\ left[s] # 0} IN
    /\ \A h \in Handlers : Busy(h) => since[h] < MaxLag
    /\ kept' = [s \in Ids |-> s \in stay]
    /\ age' = [s \in Ids |-> IF s \in stay /\ ~Exempt(owner[s]) THEN Older(age[s]) ELSE 0]
    /\ left' = [s \in Ids |-> IF s \notin stay THEN 0
                              ELSE IF left[s] = Forever THEN Forever ELSE left[s] - 1]
    /\ since' = [h \in Handlers |-> IF Busy(h) THEN since[h] + 1 ELSE 0]
    /\ quiet' = [u \in Users |-> Older(quiet[u])]
    /\ UNCHANGED <<owner, pc, kind, user, sid, todo, seen, counted, behind>>

Next ==
    \/ \E h \in Handlers, u \in Users : Login(h, u)
    \/ \E h \in Handlers, s \in Ids, what \in {"act", "logout"} :
          Request(h, s, what)
    \/ \E h \in Handlers :
          \/ Scan(h) \/ Read(h) \/ Admit(h) \/ Revoke(h) \/ Open(h)
          \/ Get(h) \/ Expire(h) \/ Refresh(h) \/ Close(h)
    \/ Tick

Spec == Init /\ [][Next]_vars

-----------------------------------------------------------------------------
(* Properties.                                                             *)

\* A session that is gone, and that no request under way has read before it
\* went, is gone for good: touch refreshes what it found and nothing else, so a
\* stale cookie never brings a session back by itself.
Dead(s)       == ~kept[s] /\ \A h \in Handlers : sid[h] = s => pc[h] # "refresh"
DeadStaysDead == [][\A s \in Issued : Dead(s) => Dead(s)']_vars

\* Whoever sends nothing for longer than the timeout holds no seat, however
\* long the last request took to write its session back.
SeatIsFreed ==
    \A s \in ActiveNow : ~Exempt(owner[s]) => quiet[owner[s]] <= IdleTimeout

\* The answer of a login that opens a session goes out.
Opens(h)     == pc[h] = "revoking" /\ pc'[h] = "free"
Larger(m, n) == IF m < n THEN n ELSE m

\* _require_free_slot (at most five people at a time): whatever requests overlap,
\* a login leaves no more people in than the limit, or than it counted when its
\* user was one of them; those whose session was written behind its back aside.
NobodyTooMany ==
    [][\A h \in Handlers : Opens(h) /\ ~Exempt(user[h]) =>
          Cardinality(Occupants(ActiveNow)' \ People(behind[h]))
             <= Larger(MaxConcurrent, Cardinality(counted[h]))]_vars

\* _revoke_existing (a new login revokes the old one): when a login is answered,
\* every other session its user still has was written by another request since
\* the login looked for them.
SoleAfterLogin ==
    [][\A h \in Handlers : Opens(h) =>
          \A s \in Issued : s \in ActiveNow' /\ owner[s] = user[h]
                              => s \in behind[h]]_vars

-----------------------------------------------------------------------------
(* What the proofs add to make the properties inductive.                   *)

\* A free handler knows nothing, and the requests that carry a cookie are the
\* authenticated ones; only a login counts and revokes.
Blank ==
    \A h \in Handlers :
        /\ ~Busy(h) => since[h] = 0 /\ todo[h] = {} /\ seen[h] = {}
        /\ sid[h] # NoId <=> pc[h] \in {"get", "expire", "refresh", "close"}
        /\ pc[h] \in {"count", "counting", "revoke", "revoking"} => kind[h] = "login"

\* The trail of a person's last request: neither a stored last_seen_at nor the
\* `now` of a request under way is younger than it.
Trail ==
    /\ \A s \in Ids : kept[s] /\ ~Exempt(owner[s]) => quiet[owner[s]] <= age[s]
    /\ \A h \in Handlers : sid[h] # NoId => quiet[user[h]] <= since[h]

\* Whatever login h has not found, others have written behind its back: a
\* session that it would take for active is one it reads, has read or missed ...
Found(h) == \A s \in Ids : kept[s] /\ IsActive(s, since[h]) =>
               s \in todo[h] \cup seen[h] \cup behind[h]
FoundOwn(h) == \A s \in Ids : kept[s] /\ IsActive(s, since[h]) /\ owner[s] = user[h] =>
                  s \in todo[h] \cup seen[h] \cup behind[h]

\* ... and once it is let in, whoever sits is counted, itself or missed.
Placed(h) ==
    /\ user[h] \in counted[h] \/ Cardinality(counted[h]) < MaxConcurrent
    /\ \A s \in Ids : kept[s] /\ IsActive(s, since[h]) /\ ~Exempt(owner[s]) =>
          owner[s] \in counted[h] \cup {user[h]} \cup People(behind[h])

Accounted(h) ==
    /\ pc[h] = "counting" => Found(h)
    /\ pc[h] = "revoking" => FoundOwn(h)
    /\ pc[h] \in {"revoke", "revoking"} /\ ~Exempt(user[h]) => Placed(h)

LoginInv == \A h \in Handlers : Accounted(h)
=============================================================================
