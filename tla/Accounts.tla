------------------------------ MODULE Accounts ------------------------------
(***************************************************************************)
(* Invitations, registration and the throttle in front of it               *)
(* (backend/app/auth/invites.py, auth/service.py, auth/create_user.py,     *)
(* api/routes_admin.py, api/routes_auth.py, api/throttle.py).              *)
(*                                                                         *)
(* Requests run concurrently on the event loop of one API process.  Each   *)
(* SQL statement with its commit is a step, and so is what a request does  *)
(* between two awaits.  The throttle lives in the memory of the process, a *)
(* crash empties it and cuts every request off.  The administrator's       *)
(* command line tool is a process of its own with the same two statements. *)
(*                                                                         *)
(* Bounds: MaxTime, MaxCrashes.  A definition with a longer name before    *)
(* another (KnownByInvite, Known) is a slip a change could make.           *)
(***************************************************************************)
EXTENDS RateLimiter, FiniteSets

CONSTANTS
    Requests,   \* what handles POST /auth/register, one request at a time
    Tools,      \* runs of create_user.py
    Clients,    \* IP addresses
    Codes,      \* codes that are or will be issued
    Bogus,      \* a code nobody issues
    Emails,     \* normalised addresses
    MaxUses,    \* MaxUses[c]: how often code c may be used
    Validity,   \* for how long a code is valid
    FloodLimit, FloodWindow, FailLimit, FailWindow,
    MaxTime, MaxCrashes

ASSUME AccountsAssumption ==
    /\ IsFiniteSet(Requests) /\ IsFiniteSet(Tools) /\ IsFiniteSet(Emails)
    /\ Requests \cap Tools = {} /\ Bogus \notin Codes
    /\ MaxUses \in [Codes -> Nat \ {0}] /\ Validity \in Nat
    /\ {FloodLimit, FloodWindow, FailLimit, FailWindow} \subseteq Nat \ {0}

VARIABLES
    now,
    invite,     \* rows of invite_codes, for the codes issued so far
    users,      \* rows of users: [email, code]
    flood, failures,    \* _register_flood and _register_failures
    pc,         \* where a request is
    from, code, email,  \* its client and its payload
    stamp,      \* the `now` of redeem_invite; 0 outside that call
    answer,     \* what it was answered
    failed,     \* failed[k]: moments at which client k presented a code in vain
    burned,     \* uses that bought no account
    crashes

httpVars == <<from, code, email, stamp>>
vars == <<now, invite, users, flood, failures, pc, httpVars, answer, failed, burned, crashes>>

Handlers == Requests \cup Tools
Places   == {"idle", "redeem", "explain", "lookup", "insert", "seed"}
Reasons  == {"not_found", "revoked", "expired", "exhausted"}
Answers  == {"none", "429", "409", "500", "201", "lost"} \cup Reasons
Issued   == DOMAIN invite

TypeOK ==
    /\ now \in Nat /\ crashes \in Nat
    /\ Issued \subseteq Codes
    /\ \A c \in Issued : invite[c] \in [used : Nat, revoked : BOOLEAN, expires : Nat]
    /\ users \subseteq [email : Emails, code : Codes \cup {Bogus}]
    /\ pc \in [Handlers -> Places] /\ answer \in [Handlers -> Answers]
    /\ from \in [Handlers -> Clients] /\ code \in [Handlers -> Codes \cup {Bogus}]
    /\ email \in [Handlers -> Emails] /\ stamp \in [Handlers -> Nat]
    /\ burned \in [Codes -> Nat]
    /\ DOMAIN flood \subseteq Clients /\ DOMAIN failures \subseteq Clients

Init ==
    /\ now = 1 /\ crashes = 0
    /\ invite = [c \in {} |-> <<>>] /\ users = {}
    /\ flood = NoHits /\ failures = NoHits
    /\ pc = [h \in Handlers |-> "idle"] /\ answer = [h \in Handlers |-> "none"]
    /\ code = [h \in Handlers |-> Bogus] /\ stamp = [h \in Handlers |-> 0]
    /\ \E k \in Clients : from = [h \in Handlers |-> k]
    /\ \E e \in Emails : email = [h \in Handlers |-> e]
    /\ failed = [k \in Clients |-> <<>>]
    /\ burned = [c \in Codes |-> 0]

Goto(h, place) == pc' = [pc EXCEPT ![h] = place]
Say(h, what)   == answer' = [answer EXCEPT ![h] = what]
(* An account made by the tool carries no invitation: its code is Bogus.   *)
Paid(h)        == code[h] # Bogus /\ pc[h] \in {"lookup", "insert"}
Burn(h)        == burned' = IF code[h] = Bogus THEN burned
                            ELSE [burned EXCEPT ![code[h]] = @ + 1]

(* ------------------------------------------------------------ admin --- *)
Issue(c) ==
    /\ c \notin Issued
    /\ invite' = [x \in Issued \cup {c} |->
                     IF x = c
                     THEN [used |-> 0, revoked |-> FALSE, expires |-> now + Validity]
                     ELSE invite[x]]
    /\ UNCHANGED <<now, users, flood, failures, pc, httpVars, answer, failed, burned, crashes>>

Revocable(c) == c \in Issued /\ ~invite[c].revoked

Revoke(c) ==
    /\ Revocable(c)
    /\ invite' = [invite EXCEPT ![c].revoked = TRUE]
    /\ UNCHANGED <<now, users, flood, failures, pc, httpVars, answer, failed, burned, crashes>>

(* A run of the tool goes straight to register_user.                       *)
RunTool(h, e) ==
    /\ pc[h] = "idle"
    /\ Goto(h, "lookup")
    /\ Say(h, "none")
    /\ email' = [email EXCEPT ![h] = e]
    /\ code' = [code EXCEPT ![h] = Bogus]
    /\ UNCHANGED <<now, invite, users, flood, failures, from, stamp, failed, burned, crashes>>

(* --------------------------------------------------------- throttle --- *)
(* throttle_register: the flood limiter counts the request, the failure    *)
(* limiter is only asked.                                                  *)
FailuresBlockLate(k) == Blocked(failures, k, now, FailLimit + 1, FailWindow)
FailuresBlock(k) == Blocked(failures, k, now, FailLimit, FailWindow)

Arrive(h, k, c, e) ==
    /\ pc[h] = "idle"
    /\ c \in Issued \cup {Bogus}            \* 32 random bytes are not guessed
    /\ from' = [from EXCEPT ![h] = k]
    /\ code' = [code EXCEPT ![h] = c]
    /\ email' = [email EXCEPT ![h] = e]
    /\ flood' = Allowed(flood, k, now, FloodLimit, FloodWindow)
    /\ \/ /\ Blocked(flood, k, now, FloodLimit, FloodWindow)
          /\ Say(h, "429")
          /\ UNCHANGED <<failures, pc, stamp>>
       \/ /\ ~Blocked(flood, k, now, FloodLimit, FloodWindow)
          /\ failures' = Looked(failures, k, now, FailWindow)
          /\ IF FailuresBlock(k)
             THEN Say(h, "429") /\ UNCHANGED <<pc, stamp>>
             ELSE /\ Say(h, "none")
                  /\ Goto(h, "redeem")
                  /\ stamp' = [stamp EXCEPT ![h] = now]
    /\ UNCHANGED <<now, invite, users, failed, burned, crashes>>

(* ------------------------------------------------------- redemption --- *)
(* The conditional UPDATE, with the moment t read just before it.          *)
RedeemableCounting(c, t) ==
    /\ c \in Issued /\ ~invite[c].revoked /\ invite[c].expires > t
    /\ invite[c].used <= MaxUses[c]
Redeemable(c, t) ==
    /\ c \in Issued
    /\ ~invite[c].revoked
    /\ invite[c].expires > t
    /\ invite[c].used < MaxUses[c]

Redeem(h) ==
    /\ pc[h] = "redeem"
    /\ \E t \in stamp[h]..now :
          /\ \/ /\ Redeemable(code[h], t)
                /\ invite' = [invite EXCEPT ![code[h]].used = @ + 1]
                /\ stamp' = [stamp EXCEPT ![h] = 0]
                /\ Goto(h, "lookup")
             \/ /\ ~Redeemable(code[h], t)
                /\ stamp' = [stamp EXCEPT ![h] = t]
                /\ Goto(h, "explain")
                /\ UNCHANGED invite
    /\ UNCHANGED <<now, users, flood, failures, from, code, email, answer,
                   failed, burned, crashes>>

(* After the rollback the row is read again to say why; the route then     *)
(* records the failure.                                                    *)
WhyByCount(c, t) ==
    IF c \notin Issued THEN "not_found"
    ELSE IF invite[c].used > 0 THEN "exhausted"
    ELSE IF invite[c].revoked THEN "revoked" ELSE "expired"
Why(c, t) ==
    IF c \notin Issued THEN "not_found"
    ELSE IF invite[c].revoked THEN "revoked"
    ELSE IF invite[c].expires <= t THEN "expired"
    ELSE "exhausted"

Explain(h) ==
    /\ pc[h] = "explain"
    /\ Say(h, Why(code[h], stamp[h]))
    /\ stamp' = [stamp EXCEPT ![h] = 0]
    /\ failures' = Recorded(failures, from[h], now, FailWindow)
    /\ failed' = [failed EXCEPT ![from[h]] = Append(@, now)]
    /\ Goto(h, "idle")
    /\ UNCHANGED <<now, invite, users, flood, from, code, email, burned, crashes>>

(* ----------------------------------------------------- registration --- *)
KnownByInvite(e) == \E u \in users : u.email = e /\ u.code # Bogus
Known(e) == \E u \in users : u.email = e

Lookup(h) ==
    /\ pc[h] = "lookup"
    /\ \/ /\ Known(email[h])
          /\ Say(h, "409")
          /\ Goto(h, "idle")
          /\ Burn(h)
       \/ /\ ~Known(email[h])
          /\ Goto(h, "insert")
          /\ UNCHANGED <<answer, burned>>
    /\ UNCHANGED <<now, invite, users, flood, failures, httpVars, failed, crashes>>

(* users.email is unique: the INSERT of the slower of two is refused, which*)
(* nobody handles.  The tool ends with its INSERT; the route goes on to    *)
(* place the example structure.                                            *)
Insert(h) ==
    /\ pc[h] = "insert"
    /\ \/ /\ Known(email[h])
          /\ Say(h, "500")
          /\ Goto(h, "idle")
          /\ Burn(h)
          /\ UNCHANGED users
       \/ /\ ~Known(email[h])
          /\ users' = users \cup {[email |-> email[h], code |-> code[h]]}
          /\ Goto(h, IF h \in Tools THEN "idle" ELSE "seed")
          /\ IF h \in Tools THEN Say(h, "201") ELSE UNCHANGED answer
          /\ UNCHANGED burned
    /\ UNCHANGED <<now, invite, flood, failures, httpVars, failed, crashes>>

Seed(h) ==
    /\ pc[h] = "seed"
    /\ Say(h, "201")
    /\ Goto(h, "idle")
    /\ UNCHANGED <<now, invite, users, flood, failures, httpVars, failed, burned, crashes>>

(* ------------------------------------------------------ environment --- *)
Tick ==
    /\ now < MaxTime
    /\ now' = now + 1
    /\ UNCHANGED <<invite, users, flood, failures, pc, httpVars, answer, failed, burned, crashes>>

LosesUse(h, c) == h \in Requests /\ Paid(h) /\ code[h] = c

CrashApi ==
    /\ crashes < MaxCrashes
    /\ crashes' = crashes + 1
    /\ flood' = NoHits /\ failures' = NoHits
    /\ burned' = [c \in Codes |-> burned[c] + Cardinality({h \in Requests : LosesUse(h, c)})]
    /\ answer' = [h \in Handlers |->
                     IF h \in Requests /\ pc[h] # "idle" THEN "lost" ELSE answer[h]]
    /\ pc' = [h \in Handlers |-> IF h \in Requests THEN "idle" ELSE pc[h]]
    /\ stamp' = [h \in Handlers |-> 0]
    /\ UNCHANGED <<now, invite, users, from, code, email, failed>>

Step(h) == Redeem(h) \/ Explain(h) \/ Lookup(h) \/ Insert(h) \/ Seed(h)

Next ==
    \/ \E c \in Codes : Issue(c) \/ Revoke(c)
    \/ \E h \in Tools, e \in Emails : RunTool(h, e)
    \/ \E h \in Requests, k \in Clients, c \in Codes \cup {Bogus}, e \in Emails :
          Arrive(h, k, c, e)
    \/ \E h \in Handlers : Step(h)
    \/ Tick
    \/ CrashApi

Spec == Init /\ [][Next]_vars

(* -------------------------------------------------------- properties --- *)
Bought(c)   == {u \in users : u.code = c}
InFlight(c) == {h \in Requests : Paid(h) /\ code[h] = c}

(* Every use of an invitation is accounted for: it bought an account, is   *)
(* about to, or was lost to an address that was taken or to a crash.  No   *)
(* interleaving of registrations, revocations and crashes lets an account  *)
(* appear that no use paid for, or more uses than the code allows          *)
(* (redeem_invite's conditional UPDATE, commits before register_user).     *)
UsesAddUp ==
    \A c \in Issued :
       /\ invite[c].used
            = Cardinality(Bought(c)) + Cardinality(InFlight(c)) + burned[c]
       /\ invite[c].used <= MaxUses[c]

(* The reason a refused registration is given is true when it is given,    *)
(* although the row was read again after the UPDATE had failed and may have*)
(* changed in between (redeem_invite's second SELECT).                     *)
ReasonIsTrue ==
    \A h \in Requests :
       LET c == code[h]
       IN  /\ answer[h] = "not_found" => c \notin Issued
           /\ answer[h] = "revoked"   => c \in Issued /\ invite[c].revoked
           /\ answer[h] = "expired"   => c \in Issued /\ invite[c].expires <= now
           /\ answer[h] = "exhausted" => c \in Issued /\ invite[c].used = MaxUses[c]

(* One address, one account, and the answers say who has it: a 201 means   *)
(* the account is there, a 409 or a 500 that somebody else's is, and no two*)
(* requests are told 201 for one address.  (register_user's SELECT and     *)
(* INSERT are two statements.)                                             *)
AnswersMatchAccounts ==
    /\ \A u, v \in users : u.email = v.email => u = v
    /\ \A h \in Handlers :
          answer[h] \in {"201", "409", "500"} => Known(email[h])
    /\ \A g, h \in Handlers :
          /\ answer[g] = "201" /\ email[g] = email[h] /\ g # h
          => /\ answer[h] # "201"
             /\ pc[h] # "seed"

(* Guessing codes: the failure limiter is asked when a request arrives and *)
(* told when it has failed, several awaits later.  What slips through in   *)
(* one window is bounded by the requests that can overlap, and a crash     *)
(* opens a new count.                                                      *)
FailuresIn(k, t) == {i \in 1..Len(failed[k]) : failed[k][i] > t - FailWindow}
GuessesAreBounded ==
    \A k \in Clients :
       Cardinality(FailuresIn(k, now))
          <= (FailLimit - 1 + Cardinality(Requests)) * (1 + crashes)

(* A client that is turned away is told when to come again (retry_after),  *)
(* and the limiter's window opens at that very moment, not before and not  *)
(* after it.  Of the failures only the first half is true: those of        *)
(* overlapping requests may be more than the limit, and the client is told *)
(* when the oldest of them is forgotten.                                   *)
WaitIsExact ==
    \A k \in Clients :
       LET flooded == RetryAfter(flood, k, now, FloodLimit, FloodWindow)
           failing == RetryAfter(failures, k, now, FailLimit, FailWindow)
       IN  /\ ~Blocked(flood, k, now + flooded, FloodLimit, FloodWindow)
           /\ \A t \in now..(now + flooded - 1) :
                 Blocked(flood, k, t, FloodLimit, FloodWindow)
           /\ \A t \in now..(now + failing - 1) :
                 Blocked(failures, k, t, FailLimit, FailWindow)
============================================================================
