--------------------------- MODULE AccountsProofs ---------------------------
(***************************************************************************)
(* Accounts keeps its types, accounts for every use of an invitation, says *)
(* nothing untrue about a refused one, gives no address away twice, tells  *)
(* a client how long to wait and lets through only so many guesses, for    *)
(* every number of requests, tools, clients, codes and addresses, every    *)
(* limit and every window.                                                 *)
(***************************************************************************)
EXTENDS Accounts, FiniteSetTheorems, SequenceTheorems, TLAPS

(* A refused code was refused for a reason that can no longer go away, and *)
(* nobody presents a code that was not issued.                             *)
CodesAreIssued ==
    /\ \A h \in Handlers : code[h] \in Issued \cup {Bogus}
    /\ \A h \in Tools : code[h] = Bogus
StampsArePast  == \A h \in Handlers : stamp[h] <= now
UsesAreBounded == \A c \in Issued : invite[c].used <= MaxUses[c]
Off(c)    == invite[c].revoked
Out(c, t) == invite[c].expires <= t
UsedUp(c) == invite[c].used = MaxUses[c]
RefusalsStand ==
    \A h \in Handlers :
       pc[h] = "explain" /\ code[h] # Bogus
       => Off(code[h]) \/ Out(code[h], stamp[h]) \/ UsedUp(code[h])
ReasonsStand ==
    \A h \in Handlers :
       /\ answer[h] = "not_found" => code[h] = Bogus
       /\ answer[h] \in {"revoked", "expired", "exhausted"} => code[h] # Bogus
       /\ answer[h] = "revoked"   => Off(code[h])
       /\ answer[h] = "expired"   => Out(code[h], now)
       /\ answer[h] = "exhausted" => UsedUp(code[h])

ReasonInv ==
    /\ TypeOK
    /\ CodesAreIssued
    /\ StampsArePast
    /\ UsesAreBounded
    /\ RefusalsStand
    /\ ReasonsStand

-----------------------------------------------------------------------------
\* Types.

LEMMA HandlersSplit == Requests \subseteq Handlers /\ Tools \subseteq Handlers
BY DEF Handlers

LEMMA RecordedDomain ==
    ASSUME NEW hits, NEW k \in Clients, NEW t, NEW window, DOMAIN hits \subseteq Clients
    PROVE  DOMAIN Recorded(hits, k, t, window) \subseteq Clients
BY DEF Recorded, Collected

LEMMA LookedDomain ==
    ASSUME NEW hits, NEW k \in Clients, NEW t, NEW window, DOMAIN hits \subseteq Clients
    PROVE  DOMAIN Looked(hits, k, t, window) \subseteq Clients
BY DEF Looked

LEMMA AllowedDomain ==
    ASSUME NEW hits, NEW k \in Clients, NEW t, NEW limit, NEW window, DOMAIN hits \subseteq Clients
    PROVE  DOMAIN Allowed(hits, k, t, limit, window) \subseteq Clients
BY RecordedDomain, LookedDomain DEF Allowed

LEMMA WhyIsAReason ==
    ASSUME NEW c, NEW t PROVE Why(c, t) \in Reasons
BY DEF Why, Reasons

LEMMA InitTypes == Init => TypeOK
<1> SUFFICES ASSUME Init PROVE TypeOK
  OBVIOUS
<1>1. DOMAIN flood = {} /\ DOMAIN failures = {} /\ Issued = {}
  BY DEF Init, NoHits, Issued
<1> QED
  BY <1>1 DEF Init, TypeOK, Places, Answers, Reasons

LEMMA NextTypes == TypeOK /\ [Next]_vars => TypeOK'
<1> SUFFICES ASSUME TypeOK, [Next]_vars PROVE TypeOK'
  OBVIOUS
<1> USE AccountsAssumption, HandlersSplit
<1>1. ASSUME NEW c \in Codes, Issue(c) PROVE TypeOK'
  <2>1. now' = now /\ now + Validity \in Nat
    BY <1>1 DEF Issue, TypeOK
  <2>2. Issued' = Issued \cup {c} /\ \A x \in Issued' :
           invite'[x] = IF x = c THEN [used |-> 0, revoked |-> FALSE, expires |-> now + Validity]
                        ELSE invite[x]
    BY <1>1 DEF Issue, Issued
  <2>3. Issued' \subseteq Codes /\ \A x \in Issued' :
           invite'[x] \in [used : Nat, revoked : BOOLEAN, expires : Nat]
    <3>1. [used |-> 0, revoked |-> FALSE, expires |-> now + Validity]
             \in [used : Nat, revoked : BOOLEAN, expires : Nat]
      BY <2>1
    <3>2. \A x \in Issued : invite[x] \in [used : Nat, revoked : BOOLEAN, expires : Nat]
      BY DEF TypeOK
    <3>3. Issued' \subseteq Codes
      BY <2>2 DEF TypeOK
    <3> QED
      BY <2>2, <3>1, <3>2, <3>3, Zenon
  <2>4. UNCHANGED <<now, users, flood, failures, pc, from, code, email, stamp,
                    answer, failed, burned, crashes>>
    BY <1>1 DEF Issue, httpVars
  <2> QED
    BY <2>3, <2>4 DEF TypeOK
<1>2. ASSUME NEW c \in Codes, Revoke(c) PROVE TypeOK'
  <2>1. Issued' = Issued /\ c \in Issued /\ \A x \in Issued' :
           invite'[x] = IF x = c THEN [invite[x] EXCEPT !.revoked = TRUE] ELSE invite[x]
    BY <1>2 DEF Revoke, Revocable, Issued
  <2>2. Issued' \subseteq Codes /\ \A x \in Issued' :
           invite'[x] \in [used : Nat, revoked : BOOLEAN, expires : Nat]
    <3>1. \A x \in Issued : invite[x] \in [used : Nat, revoked : BOOLEAN, expires : Nat]
      BY DEF TypeOK
    <3>2. [invite[c] EXCEPT !.revoked = TRUE] \in [used : Nat, revoked : BOOLEAN, expires : Nat]
      BY <2>1, <3>1
    <3>3. Issued \subseteq Codes
      BY DEF TypeOK
    <3> QED
      BY <2>1, <3>1, <3>2, <3>3, Zenon
  <2> QED
    BY <1>2, <2>2 DEF Revoke, TypeOK, httpVars
<1>3. ASSUME NEW h \in Tools, NEW e \in Emails, RunTool(h, e) PROVE TypeOK'
  BY <1>3 DEF RunTool, TypeOK, Goto, Say, Places, Answers, Issued
<1>4. ASSUME NEW h \in Requests, NEW k \in Clients, NEW c \in Codes \cup {Bogus},
             NEW e \in Emails, Arrive(h, k, c, e)
      PROVE  TypeOK'
  <2>1. DOMAIN flood' \subseteq Clients
    BY <1>4, AllowedDomain DEF Arrive, TypeOK
  <2>2. DOMAIN failures' \subseteq Clients
    BY <1>4, LookedDomain DEF Arrive, TypeOK
  <2>3. /\ pc' \in [Handlers -> Places] /\ answer' \in [Handlers -> Answers]
        /\ stamp' \in [Handlers -> Nat]
    BY <1>4 DEF Arrive, TypeOK, Goto, Say, Places, Answers
  <2>4. /\ from' \in [Handlers -> Clients] /\ code' \in [Handlers -> Codes \cup {Bogus}]
        /\ email' \in [Handlers -> Emails]
        /\ UNCHANGED <<now, invite, users, failed, burned, crashes>>
    BY <1>4 DEF Arrive, TypeOK
  <2> QED
    BY <2>1, <2>2, <2>3, <2>4 DEF TypeOK, Issued
<1>5. ASSUME NEW h \in Handlers, Redeem(h) PROVE TypeOK'
  <2>1. PICK t \in stamp[h]..now :
          \/ /\ Redeemable(code[h], t)
             /\ invite' = [invite EXCEPT ![code[h]].used = @ + 1]
             /\ stamp' = [stamp EXCEPT ![h] = 0]
             /\ Goto(h, "lookup")
          \/ /\ stamp' = [stamp EXCEPT ![h] = t]
             /\ Goto(h, "explain")
             /\ UNCHANGED invite
    BY <1>5 DEF Redeem
  <2>2. t \in Nat
    BY <2>1 DEF TypeOK
  <2>3. stamp' \in [Handlers -> Nat] /\ pc' \in [Handlers -> Places]
    BY <2>1, <2>2 DEF TypeOK, Goto, Places
  <2>4. Issued' \subseteq Codes /\ \A x \in Issued' :
           invite'[x] \in [used : Nat, revoked : BOOLEAN, expires : Nat]
    <3>1. CASE UNCHANGED invite
      BY <3>1 DEF TypeOK, Issued
    <3>2. CASE Redeemable(code[h], t) /\ invite' = [invite EXCEPT ![code[h]].used = @ + 1]
      <4>1. Issued' = Issued /\ \A x \in Issued' :
               invite'[x] = IF x = code[h] THEN [invite[x] EXCEPT !.used = @ + 1] ELSE invite[x]
        BY <3>2 DEF Redeemable, Issued
      <4>2. \A x \in Issued : invite[x] \in [used : Nat, revoked : BOOLEAN, expires : Nat]
        BY DEF TypeOK
      <4>3. ASSUME NEW r \in [used : Nat, revoked : BOOLEAN, expires : Nat]
            PROVE  [r EXCEPT !.used = @ + 1] \in [used : Nat, revoked : BOOLEAN, expires : Nat]
        OBVIOUS
      <4>4. Issued \subseteq Codes
        BY DEF TypeOK
      <4>5. ASSUME NEW x \in Issued
            PROVE  invite'[x] \in [used : Nat, revoked : BOOLEAN, expires : Nat]
        <5>1. invite[x] \in [used : Nat, revoked : BOOLEAN, expires : Nat]
          BY <4>2
        <5>2. [invite[x] EXCEPT !.used = @ + 1] \in [used : Nat, revoked : BOOLEAN, expires : Nat]
          BY <4>3, <5>1
        <5> QED
          BY <4>1, <5>1, <5>2, Zenon
      <4> QED
        BY <4>1, <4>4, <4>5
    <3> QED
      BY <2>1, <3>1, <3>2
  <2>5. UNCHANGED <<now, users, flood, failures, from, code, email, answer,
                    failed, burned, crashes>>
    BY <1>5 DEF Redeem
  <2> QED
    BY <2>3, <2>4, <2>5 DEF TypeOK
<1>6. ASSUME NEW h \in Handlers, Explain(h) PROVE TypeOK'
  <2>1. DOMAIN failures' \subseteq Clients
    BY <1>6, RecordedDomain DEF Explain, TypeOK
  <2>2. answer' \in [Handlers -> Answers]
    BY <1>6, WhyIsAReason DEF Explain, TypeOK, Say, Answers
  <2> QED
    BY <1>6, <2>1, <2>2 DEF Explain, TypeOK, Goto, Places, Issued
<1>7. ASSUME NEW h \in Handlers, Lookup(h) PROVE TypeOK'
  BY <1>7 DEF Lookup, TypeOK, Goto, Say, Burn, Places, Answers, Issued, httpVars
<1>8. ASSUME NEW h \in Handlers, Insert(h) PROVE TypeOK'
  <2>1. burned' \in [Codes -> Nat]
    BY <1>8 DEF Insert, TypeOK, Burn
  <2>2. users' \subseteq [email : Emails, code : Codes \cup {Bogus}]
    BY <1>8 DEF Insert, TypeOK
  <2>3. pc' \in [Handlers -> Places] /\ answer' \in [Handlers -> Answers]
    BY <1>8 DEF Insert, TypeOK, Goto, Say, Places, Answers
  <2> QED
    BY <1>8, <2>1, <2>2, <2>3 DEF Insert, TypeOK, Issued, httpVars
<1>9. ASSUME NEW h \in Handlers, Seed(h) PROVE TypeOK'
  BY <1>9 DEF Seed, TypeOK, Goto, Say, Places, Answers, Issued, httpVars
<1>10. ASSUME Tick PROVE TypeOK'
  BY <1>10 DEF Tick, TypeOK, Issued, httpVars
<1>11. ASSUME CrashApi PROVE TypeOK'
  <2>1. burned' \in [Codes -> Nat]
    <3>1. \A c \in Codes : Cardinality({h \in Requests : LosesUse(h, c)}) \in Nat
      BY FS_Subset, FS_CardinalityType
    <3> QED
      BY <1>11, <3>1 DEF CrashApi, TypeOK
  <2>2. DOMAIN flood' = {} /\ DOMAIN failures' = {}
    BY <1>11 DEF CrashApi, NoHits
  <2>3. /\ pc' \in [Handlers -> Places] /\ answer' \in [Handlers -> Answers]
        /\ stamp' \in [Handlers -> Nat]
    BY <1>11 DEF CrashApi, TypeOK, Places, Answers
  <2> QED
    BY <1>11, <2>1, <2>2, <2>3 DEF CrashApi, TypeOK, Issued
<1>12. CASE UNCHANGED vars
  BY <1>12 DEF vars, TypeOK, Issued, httpVars
<1> QED
  BY <1>1, <1>2, <1>3, <1>4, <1>5, <1>6, <1>7, <1>8, <1>9, <1>10, <1>11, <1>12
     DEF Next, Step

\* Every variable keeps its type: requests and the tool are always at a known
\* place with a known answer, and no row names an unknown code or address.
THEOREM TypesHold == Spec => []TypeOK
<1> QED
  BY InitTypes, NextTypes, PTL DEF Spec

-----------------------------------------------------------------------------
\* What a refused registration was told.

\* A step that leaves rows, codes and answers alone, or blanks the answers.
LEMMA ReasonsUndisturbed ==
    ASSUME ReasonInv, TypeOK', now' >= now, invite' = invite, code' = code,
           \A h \in Handlers :
              /\ stamp'[h] = stamp[h] \/ stamp'[h] = 0
              /\ pc'[h] = "explain" /\ code[h] # Bogus
                 => pc[h] = "explain" /\ stamp'[h] = stamp[h]
              /\ answer'[h] = answer[h] \/ answer'[h] \notin Reasons
    PROVE  ReasonInv'
<1>1. Issued' = Issued /\ now \in Nat /\ now' \in Nat
  BY DEF Issued, ReasonInv, TypeOK
<1>2. CodesAreIssued' /\ UsesAreBounded'
  BY <1>1 DEF ReasonInv, CodesAreIssued, UsesAreBounded
<1>3. StampsArePast'
  BY <1>1 DEF ReasonInv, StampsArePast, TypeOK
<1>4. RefusalsStand'
  BY DEF ReasonInv, RefusalsStand, Off, Out, UsedUp
<1>5. ReasonsStand'
  <2>1. \A h \in Handlers : code[h] # Bogus => code[h] \in Issued
    BY DEF ReasonInv, CodesAreIssued
  <2>2. \A c \in Issued : invite[c].expires \in Nat
    BY DEF ReasonInv, TypeOK
  <2>3. SUFFICES ASSUME NEW h \in Handlers, answer'[h] \in Reasons
                PROVE  /\ answer[h] = "not_found" => code[h] = Bogus
                       /\ answer[h] \in {"revoked", "expired", "exhausted"} => code[h] # Bogus
                       /\ answer[h] = "revoked"   => Off(code[h])
                       /\ answer[h] = "expired"   => Out(code[h], now')
                       /\ answer[h] = "exhausted" => UsedUp(code[h])
    BY DEF ReasonsStand, Reasons, Off, Out, UsedUp
  <2>4. \A c \in Issued : Out(c, now) => Out(c, now')
    BY <1>1, <2>2 DEF Out
  <2> QED
    BY <2>1, <2>4 DEF ReasonInv, ReasonsStand
<1> QED
  BY <1>2, <1>3, <1>4, <1>5 DEF ReasonInv

\* A step that touches rows, without undoing what they were refused for.
LEMMA RowsWorsen ==
    ASSUME ReasonInv, TypeOK', UsesAreBounded', now' = now, code' = code, answer' = answer,
           Issued \subseteq Issued',
           \A c \in Issued : /\ Off(c) => Off(c)'
                             /\ invite'[c].expires = invite[c].expires
                             /\ UsedUp(c) => UsedUp(c)',
           \A h \in Handlers :
              /\ stamp'[h] <= now
              /\ pc'[h] = "explain" /\ code[h] # Bogus
                 => \/ pc[h] = "explain" /\ stamp'[h] = stamp[h]
                    \/ Off(code[h]) \/ Out(code[h], stamp'[h]) \/ UsedUp(code[h])
    PROVE  ReasonInv'
<1>1. CodesAreIssued' /\ StampsArePast'
  BY DEF ReasonInv, CodesAreIssued, StampsArePast
<1>2. \A h \in Handlers : code[h] # Bogus => code[h] \in Issued
  BY DEF ReasonInv, CodesAreIssued
<1>3. RefusalsStand'
  <2> SUFFICES ASSUME NEW h \in Handlers, pc'[h] = "explain", code[h] # Bogus
               PROVE  Off(code[h])' \/ Out(code[h], stamp[h])' \/ UsedUp(code[h])'
    BY DEF RefusalsStand
  <2>1. Off(code[h]) \/ Out(code[h], stamp'[h]) \/ UsedUp(code[h])
    BY DEF ReasonInv, RefusalsStand
  <2>2. Out(code[h], stamp'[h]) => Out(code[h], stamp[h])'
    BY <1>2 DEF Out
  <2>3. (Off(code[h]) => Off(code[h])') /\ (UsedUp(code[h]) => UsedUp(code[h])')
    BY <1>2 DEF Off, UsedUp
  <2> QED
    BY <2>1, <2>2, <2>3
<1>4. ReasonsStand'
  <2> SUFFICES ASSUME NEW h \in Handlers
               PROVE  /\ answer[h] = "not_found" => code[h] = Bogus
                      /\ answer[h] \in {"revoked", "expired", "exhausted"} => code[h] # Bogus
                      /\ answer[h] = "revoked"   => Off(code[h])'
                      /\ answer[h] = "expired"   => Out(code[h], now)'
                      /\ answer[h] = "exhausted" => UsedUp(code[h])'
    BY DEF ReasonsStand
  <2>1. code[h] # Bogus => /\ Off(code[h]) => Off(code[h])'
                           /\ Out(code[h], now) => Out(code[h], now)'
                           /\ UsedUp(code[h]) => UsedUp(code[h])'
    BY <1>2 DEF Off, Out, UsedUp
  <2> QED
    BY <2>1 DEF ReasonInv, ReasonsStand
<1> QED
  BY <1>1, <1>3, <1>4 DEF ReasonInv

LEMMA InitReasons == Init => ReasonInv
<1> SUFFICES ASSUME Init PROVE ReasonInv
  OBVIOUS
<1>1. Issued = {}
  BY DEF Init, Issued
<1>2. CodesAreIssued /\ StampsArePast /\ UsesAreBounded
  BY <1>1, HandlersSplit DEF Init, CodesAreIssued, StampsArePast, UsesAreBounded
<1>3. RefusalsStand /\ ReasonsStand
  BY DEF Init, RefusalsStand, ReasonsStand
<1> QED
  BY <1>2, <1>3, InitTypes DEF ReasonInv

LEMMA NextReasons == ReasonInv /\ [Next]_vars => ReasonInv'
<1> SUFFICES ASSUME ReasonInv, [Next]_vars PROVE ReasonInv'
  OBVIOUS
<1> USE AccountsAssumption, HandlersSplit
<1>0. TypeOK /\ TypeOK' /\ now \in Nat
  BY NextTypes DEF ReasonInv, TypeOK
<1>a. \A h \in Handlers : code[h] # Bogus => code[h] \in Issued
  BY DEF ReasonInv, CodesAreIssued
<1>1. ASSUME NEW c \in Codes, Issue(c) PROVE ReasonInv'
  <2>1. /\ c \notin Issued /\ c # Bogus /\ Issued' = Issued \cup {c}
        /\ \A x \in Issued : invite'[x] = invite[x]
        /\ invite'[c].used = 0
    BY <1>1 DEF Issue, Issued
  <2>2. UNCHANGED <<now, pc, code, stamp, answer>>
    BY <1>1 DEF Issue, httpVars
  <2>3. UsesAreBounded'
    <3>1. 0 <= MaxUses[c]
      OBVIOUS
    <3> QED
      BY <2>1, <3>1 DEF ReasonInv, UsesAreBounded
  <2>4. \A x \in Issued : /\ Off(x) => Off(x)'
                          /\ invite'[x].expires = invite[x].expires
                          /\ UsedUp(x) => UsedUp(x)'
    BY <2>1 DEF Off, UsedUp
  <2>5. \A h \in Handlers : stamp[h] <= now
    BY DEF ReasonInv, StampsArePast
  <2> QED
    BY <1>0, <2>1, <2>2, <2>3, <2>4, <2>5, RowsWorsen
<1>2. ASSUME NEW c \in Codes, Revoke(c) PROVE ReasonInv'
  <2>1. /\ c \in Issued /\ Issued' = Issued
        /\ \A x \in Issued : invite'[x] = IF x = c THEN [invite[x] EXCEPT !.revoked = TRUE]
                                           ELSE invite[x]
    BY <1>2 DEF Revoke, Revocable, Issued
  <2>2. ASSUME NEW x \in Issued
        PROVE  /\ invite'[x].used = invite[x].used
               /\ invite'[x].expires = invite[x].expires
               /\ Off(x) => Off(x)'
    <3>1. invite[x] \in [used : Nat, revoked : BOOLEAN, expires : Nat]
      BY <1>0 DEF TypeOK
    <3> QED
      BY <2>1, <3>1 DEF Off
  <2>3. UNCHANGED <<now, pc, code, stamp, answer>>
    BY <1>2 DEF Revoke, httpVars
  <2>4. UsesAreBounded'
    BY <2>1, <2>2 DEF ReasonInv, UsesAreBounded
  <2>5. \A x \in Issued : UsedUp(x) => UsedUp(x)'
    BY <2>2 DEF UsedUp
  <2>6. \A h \in Handlers : stamp[h] <= now
    BY DEF ReasonInv, StampsArePast
  <2> QED
    BY <1>0, <2>1, <2>2, <2>3, <2>4, <2>5, <2>6, RowsWorsen
<1>3. ASSUME NEW h \in Tools, NEW e \in Emails, RunTool(h, e) PROVE ReasonInv'
  <2>1. /\ pc' = [pc EXCEPT ![h] = "lookup"] /\ answer' = [answer EXCEPT ![h] = "none"]
        /\ code' = [code EXCEPT ![h] = Bogus] /\ UNCHANGED <<now, invite, stamp>>
    BY <1>3 DEF RunTool, Goto, Say
  <2>2. \A g \in Handlers :
           g # h => pc'[g] = pc[g] /\ answer'[g] = answer[g] /\ code'[g] = code[g]
    BY <1>0, <2>1 DEF TypeOK
  <2>3. pc'[h] = "lookup" /\ answer'[h] = "none" /\ code'[h] = Bogus
    BY <1>0, <2>1 DEF TypeOK
  <2>4. CodesAreIssued' /\ StampsArePast' /\ UsesAreBounded'
    BY <2>1, <2>2, <2>3 DEF ReasonInv, CodesAreIssued, StampsArePast, UsesAreBounded, Issued
  <2>5. RefusalsStand' /\ ReasonsStand'
    BY <2>1, <2>2, <2>3 DEF ReasonInv, RefusalsStand, ReasonsStand, Off, Out, UsedUp
  <2> QED
    BY <1>0, <2>4, <2>5 DEF ReasonInv
<1>4. ASSUME NEW h \in Requests, NEW k \in Clients, NEW c \in Codes \cup {Bogus},
             NEW e \in Emails, Arrive(h, k, c, e)
      PROVE  ReasonInv'
  <2>1. /\ pc[h] = "idle" /\ c \in Issued \cup {Bogus}
        /\ code' = [code EXCEPT ![h] = c] /\ UNCHANGED <<now, invite>>
        /\ pc' = pc \/ pc' = [pc EXCEPT ![h] = "redeem"]
        /\ stamp' = stamp \/ stamp' = [stamp EXCEPT ![h] = now]
        /\ answer' = [answer EXCEPT ![h] = "429"] \/ answer' = [answer EXCEPT ![h] = "none"]
    BY <1>4 DEF Arrive, Goto, Say
  <2>2. \A g \in Handlers :
           g # h => /\ pc'[g] = pc[g] /\ answer'[g] = answer[g] /\ code'[g] = code[g]
                    /\ stamp'[g] = stamp[g]
    BY <1>0, <2>1 DEF TypeOK
  <2>3. /\ pc'[h] # "explain" /\ answer'[h] \in {"429", "none"} /\ code'[h] = c
        /\ stamp'[h] \in {stamp[h], now}
    BY <1>0, <2>1 DEF TypeOK
  <2>4. CodesAreIssued' /\ StampsArePast' /\ UsesAreBounded'
    BY <1>0, <2>1, <2>2, <2>3 DEF ReasonInv, CodesAreIssued, StampsArePast, UsesAreBounded, Issued
  <2>5. RefusalsStand' /\ ReasonsStand'
    BY <2>1, <2>2, <2>3 DEF ReasonInv, RefusalsStand, ReasonsStand, Off, Out, UsedUp
  <2> QED
    BY <1>0, <2>4, <2>5 DEF ReasonInv
<1>5. ASSUME NEW h \in Handlers, Redeem(h) PROVE ReasonInv'
  <2>1. PICK t \in stamp[h]..now :
          \/ /\ Redeemable(code[h], t)
             /\ invite' = [invite EXCEPT ![code[h]].used = @ + 1]
             /\ stamp' = [stamp EXCEPT ![h] = 0]
             /\ Goto(h, "lookup")
          \/ /\ ~Redeemable(code[h], t)
             /\ stamp' = [stamp EXCEPT ![h] = t]
             /\ Goto(h, "explain")
             /\ UNCHANGED invite
    BY <1>5 DEF Redeem
  <2>2. UNCHANGED <<now, code, answer>> /\ stamp[h] \in Nat /\ t \in Nat /\ t <= now
    BY <1>0, <1>5, <2>1 DEF Redeem, TypeOK
  <2>3. CASE /\ Redeemable(code[h], t)
             /\ invite' = [invite EXCEPT ![code[h]].used = @ + 1]
             /\ stamp' = [stamp EXCEPT ![h] = 0]
             /\ Goto(h, "lookup")
    <3>1. /\ code[h] \in Issued /\ invite[code[h]].used < MaxUses[code[h]] /\ Issued' = Issued
          /\ \A x \in Issued : invite'[x] = IF x = code[h] THEN [invite[x] EXCEPT !.used = @ + 1]
                                             ELSE invite[x]
      BY <2>3 DEF Redeemable, Issued
    <3>2. ASSUME NEW x \in Issued
          PROVE  /\ invite[x].used \in Nat /\ MaxUses[x] \in Nat
                 /\ x = code[h] => invite'[x].used = invite[x].used + 1
                 /\ x # code[h] => invite'[x].used = invite[x].used
                 /\ invite'[x].expires = invite[x].expires
                 /\ Off(x) => Off(x)'
      <4>1. invite[x] \in [used : Nat, revoked : BOOLEAN, expires : Nat] /\ MaxUses[x] \in Nat
        BY <1>0 DEF TypeOK
      <4> QED
        BY <3>1, <4>1 DEF Off
    <3>3. UsesAreBounded'
      <4> SUFFICES ASSUME NEW x \in Issued PROVE invite'[x].used <= MaxUses[x]
        BY <3>1 DEF UsesAreBounded
      <4>1. invite[x].used <= MaxUses[x]
        BY DEF ReasonInv, UsesAreBounded
      <4> QED
        BY <3>1, <3>2, <4>1
    <3>4. \A x \in Issued : UsedUp(x) => UsedUp(x)'
      <4> SUFFICES ASSUME NEW x \in Issued, invite[x].used = MaxUses[x]
                   PROVE  invite'[x].used = MaxUses[x]
        BY DEF UsedUp
      <4> QED
        BY <3>1, <3>2
    <3>5. /\ \A g \in Handlers : g # h => stamp'[g] = stamp[g] /\ pc'[g] = pc[g]
          /\ stamp'[h] = 0 /\ pc'[h] = "lookup"
      BY <1>0, <2>3 DEF Goto, TypeOK
    <3>6. \A g \in Handlers : stamp'[g] <= now
      BY <1>0, <3>5 DEF ReasonInv, StampsArePast
    <3> QED
      BY <1>0, <2>2, <3>1, <3>2, <3>3, <3>4, <3>5, <3>6, RowsWorsen
  <2>4. CASE /\ ~Redeemable(code[h], t)
             /\ stamp' = [stamp EXCEPT ![h] = t]
             /\ Goto(h, "explain")
             /\ UNCHANGED invite
    <3>1. /\ \A g \in Handlers : g # h => stamp'[g] = stamp[g] /\ pc'[g] = pc[g]
          /\ stamp'[h] = t /\ Issued' = Issued
      BY <1>0, <2>4 DEF Goto, TypeOK, Issued
    <3>2. \A x \in Issued : /\ invite[x].used \in Nat /\ MaxUses[x] \in Nat
                            /\ invite[x].expires \in Nat
      BY <1>0 DEF TypeOK
    <3>3. code[h] # Bogus => Off(code[h]) \/ Out(code[h], t) \/ UsedUp(code[h])
      <4> SUFFICES ASSUME code[h] # Bogus PROVE Off(code[h]) \/ Out(code[h], t) \/ UsedUp(code[h])
        OBVIOUS
      <4>1. code[h] \in Issued /\ invite[code[h]].used <= MaxUses[code[h]]
        BY <1>a DEF ReasonInv, UsesAreBounded
      <4>2. Off(code[h]) \/ ~(invite[code[h]].expires > t) \/ ~(invite[code[h]].used < MaxUses[code[h]])
        BY <2>4, <4>1 DEF Redeemable, Off
      <4> QED
        BY <2>2, <3>2, <4>1, <4>2 DEF Out, UsedUp
    <3>4. \A x \in Issued : /\ Off(x) => Off(x)'
                            /\ invite'[x].expires = invite[x].expires
                            /\ UsedUp(x) => UsedUp(x)'
      BY <2>4 DEF Off, UsedUp
    <3>5. UsesAreBounded'
      BY <2>4, <3>1 DEF ReasonInv, UsesAreBounded
    <3>6. \A g \in Handlers : stamp'[g] <= now
      BY <2>2, <3>1 DEF ReasonInv, StampsArePast
    <3> QED
      BY <1>0, <2>2, <3>1, <3>3, <3>4, <3>5, <3>6, RowsWorsen
  <2> QED
    BY <2>1, <2>3, <2>4
<1>6. ASSUME NEW h \in Handlers, Explain(h) PROVE ReasonInv'
  <2>1. /\ pc[h] = "explain" /\ answer' = [answer EXCEPT ![h] = Why(code[h], stamp[h])]
        /\ pc' = [pc EXCEPT ![h] = "idle"] /\ stamp' = [stamp EXCEPT ![h] = 0]
        /\ UNCHANGED <<now, invite, code>>
    BY <1>6 DEF Explain, Goto, Say
  <2>2. /\ \A g \in Handlers : g # h => /\ pc'[g] = pc[g] /\ answer'[g] = answer[g]
                                        /\ stamp'[g] = stamp[g]
        /\ pc'[h] = "idle" /\ stamp'[h] = 0 /\ answer'[h] = Why(code[h], stamp[h])
    BY <1>0, <2>1 DEF TypeOK
  <2>3. Issued' = Issued
    BY <2>1 DEF Issued
  <2>4. CodesAreIssued' /\ StampsArePast' /\ UsesAreBounded'
    BY <1>0, <2>1, <2>2, <2>3 DEF ReasonInv, CodesAreIssued, StampsArePast, UsesAreBounded
  <2>5. RefusalsStand'
    BY <2>1, <2>2 DEF ReasonInv, RefusalsStand, Off, Out, UsedUp
  <2>6. stamp[h] \in Nat /\ stamp[h] <= now
    BY <1>0 DEF TypeOK, ReasonInv, StampsArePast
  <2>7. code[h] # Bogus => Off(code[h]) \/ Out(code[h], stamp[h]) \/ UsedUp(code[h])
    BY <2>1 DEF ReasonInv, RefusalsStand
  <2>8. code[h] \in Issued <=> code[h] # Bogus
    BY <1>0, <1>a DEF TypeOK
  <2>9. Out(code[h], stamp[h]) /\ code[h] # Bogus => Out(code[h], now)
    <3>1. code[h] # Bogus => invite[code[h]].expires \in Nat
      BY <1>0, <2>8 DEF TypeOK
    <3> QED
      BY <1>0, <2>6, <3>1 DEF Out
  <2>10. answer'[h] = IF code[h] \notin Issued THEN "not_found"
                      ELSE IF Off(code[h]) THEN "revoked"
                      ELSE IF Out(code[h], stamp[h]) THEN "expired" ELSE "exhausted"
    BY <2>2 DEF Why, Off, Out
  <2>11. /\ answer'[h] = "not_found" => code[h] = Bogus
         /\ answer'[h] \in {"revoked", "expired", "exhausted"} => code[h] # Bogus
         /\ answer'[h] = "revoked"   => Off(code[h])
         /\ answer'[h] = "expired"   => Out(code[h], now)
         /\ answer'[h] = "exhausted" => UsedUp(code[h])
    BY <2>7, <2>8, <2>9, <2>10
  <2>12. ReasonsStand'
    BY <2>1, <2>2, <2>11 DEF ReasonInv, ReasonsStand, Off, Out, UsedUp
  <2> QED
    BY <1>0, <2>4, <2>5, <2>12 DEF ReasonInv
<1>7. ASSUME NEW h \in Handlers, Lookup(h) PROVE ReasonInv'
  <2>1. /\ UNCHANGED <<now, invite, code, stamp>>
        /\ answer' = answer \/ answer' = [answer EXCEPT ![h] = "409"]
        /\ pc' = [pc EXCEPT ![h] = "idle"] \/ pc' = [pc EXCEPT ![h] = "insert"]
    BY <1>7 DEF Lookup, Goto, Say, httpVars
  <2> QED
    BY <1>0, <2>1, ReasonsUndisturbed DEF TypeOK, Reasons
<1>8. ASSUME NEW h \in Handlers, Insert(h) PROVE ReasonInv'
  <2>1. /\ UNCHANGED <<now, invite, code, stamp>>
        /\ answer' = answer \/ answer' = [answer EXCEPT ![h] = "500"]
           \/ answer' = [answer EXCEPT ![h] = "201"]
        /\ pc' = [pc EXCEPT ![h] = "idle"] \/ pc' = [pc EXCEPT ![h] = "seed"]
    BY <1>8 DEF Insert, Goto, Say, httpVars
  <2> QED
    BY <1>0, <2>1, ReasonsUndisturbed DEF TypeOK, Reasons
<1>9. ASSUME NEW h \in Handlers, Seed(h) PROVE ReasonInv'
  <2>1. /\ UNCHANGED <<now, invite, code, stamp>>
        /\ answer' = [answer EXCEPT ![h] = "201"] /\ pc' = [pc EXCEPT ![h] = "idle"]
    BY <1>9 DEF Seed, Goto, Say, httpVars
  <2> QED
    BY <1>0, <2>1, ReasonsUndisturbed DEF TypeOK, Reasons
<1>10. ASSUME Tick PROVE ReasonInv'
  <2>1. now' = now + 1 /\ UNCHANGED <<invite, code, stamp, pc, answer>>
    BY <1>10 DEF Tick, httpVars
  <2> QED
    BY <1>0, <2>1, ReasonsUndisturbed
<1>11. ASSUME CrashApi PROVE ReasonInv'
  <2>1. /\ UNCHANGED <<now, invite, code>>
        /\ answer' = [h \in Handlers |->
                         IF h \in Requests /\ pc[h] # "idle" THEN "lost" ELSE answer[h]]
        /\ pc' = [h \in Handlers |-> IF h \in Requests THEN "idle" ELSE pc[h]]
        /\ stamp' = [h \in Handlers |-> 0]
    BY <1>11 DEF CrashApi
  <2>2. \A h \in Handlers : code[h] # Bogus => h \in Requests
    BY DEF ReasonInv, CodesAreIssued, Handlers
  <2> QED
    BY <1>0, <2>1, <2>2, ReasonsUndisturbed DEF Reasons
<1>12. CASE UNCHANGED vars
  <2>1. UNCHANGED <<now, invite, code, stamp, pc, answer>>
    BY <1>12 DEF vars, httpVars
  <2> QED
    BY <1>0, <2>1, ReasonsUndisturbed
<1> QED
  BY <1>1, <1>2, <1>3, <1>4, <1>5, <1>6, <1>7, <1>8, <1>9, <1>10, <1>11, <1>12
     DEF Next, Step

\* Why a registration was refused is true when it is said, although the row is
\* read a second time for it (redeem_invite).
THEOREM ReasonsAreTrue == Spec => []ReasonIsTrue
<1>1. ReasonInv => ReasonIsTrue
  <2> SUFFICES ASSUME ReasonInv, NEW h \in Requests
               PROVE  /\ answer[h] = "not_found" => code[h] \notin Issued
                      /\ answer[h] = "revoked"   => code[h] \in Issued /\ invite[code[h]].revoked
                      /\ answer[h] = "expired"   => code[h] \in Issued /\ invite[code[h]].expires <= now
                      /\ answer[h] = "exhausted" => code[h] \in Issued
                                                    /\ invite[code[h]].used = MaxUses[code[h]]
    BY DEF ReasonIsTrue
  <2>1. Bogus \notin Issued /\ (code[h] # Bogus => code[h] \in Issued)
    BY AccountsAssumption, HandlersSplit DEF ReasonInv, TypeOK, CodesAreIssued
  <2> QED
    BY <2>1, HandlersSplit DEF ReasonInv, ReasonsStand, Off, Out, UsedUp
<1> QED
  BY <1>1, InitReasons, NextReasons, PTL DEF Spec

-----------------------------------------------------------------------------
\* Who is told that an address is his.

Claims(h)      == answer[h] = "201" \/ pc[h] = "seed"
OneAccountEach == \A u, v \in users : u.email = v.email => u = v
PendingUnsaid  == \A h \in Handlers : pc[h] # "idle" => answer[h] = "none"
TakenIsKnown   == \A h \in Handlers :
                     Claims(h) \/ answer[h] \in {"409", "500"} => Known(email[h])
ClaimsDiffer   == \A g, h \in Handlers :
                     Claims(g) /\ Claims(h) /\ email[g] = email[h] => g = h

AnswerInv == TypeOK /\ OneAccountEach /\ PendingUnsaid /\ TakenIsKnown /\ ClaimsDiffer

\* A step after which h alone is answered anew, and claims no address.
LEMMA NothingClaimed ==
    ASSUME AnswerInv, TypeOK', NEW h \in Handlers, users' = users,
           \A g \in Handlers \ {h} : /\ pc'[g] = pc[g] /\ answer'[g] = answer[g]
                                     /\ email'[g] = email[g],
           pc'[h] # "seed", pc'[h] # "idle" => answer'[h] = "none",
           answer'[h] # "201", answer'[h] \in {"409", "500"} => Known(email'[h])
    PROVE  AnswerInv'
<1>1. OneAccountEach'
  BY DEF AnswerInv, OneAccountEach
<1>2. PendingUnsaid'
  BY DEF AnswerInv, PendingUnsaid
<1>3. TakenIsKnown'
  BY DEF AnswerInv, TakenIsKnown, Claims, Known
<1>4. ClaimsDiffer'
  BY DEF AnswerInv, ClaimsDiffer, Claims
<1> QED
  BY <1>1, <1>2, <1>3, <1>4 DEF AnswerInv

LEMMA InitAnswers == Init => AnswerInv
BY InitTypes, HandlersSplit
   DEF Init, AnswerInv, OneAccountEach, PendingUnsaid, TakenIsKnown, ClaimsDiffer, Claims

LEMMA NextAnswers == AnswerInv /\ [Next]_vars => AnswerInv'
<1> SUFFICES ASSUME AnswerInv, [Next]_vars PROVE AnswerInv'
  OBVIOUS
<1> USE HandlersSplit
<1>0. TypeOK /\ TypeOK'
  BY NextTypes DEF AnswerInv
<1>1. CASE UNCHANGED <<users, pc, answer, email>>
  BY <1>0, <1>1
     DEF AnswerInv, OneAccountEach, PendingUnsaid, TakenIsKnown, ClaimsDiffer, Claims, Known
<1>2. ASSUME NEW c \in Codes, Issue(c) \/ Revoke(c) PROVE AnswerInv'
  <2>1. UNCHANGED <<users, pc, answer, email>>
    BY <1>2 DEF Issue, Revoke, httpVars
  <2> QED
    BY <1>1, <2>1
<1>3. ASSUME NEW h \in Tools, NEW e \in Emails, RunTool(h, e) PROVE AnswerInv'
  <2>1. /\ users' = users /\ pc' = [pc EXCEPT ![h] = "lookup"]
        /\ answer' = [answer EXCEPT ![h] = "none"] /\ email' = [email EXCEPT ![h] = e]
    BY <1>3 DEF RunTool, Goto, Say
  <2> QED
    BY <1>0, <2>1, NothingClaimed DEF TypeOK
<1>4. ASSUME NEW h \in Requests, NEW k \in Clients, NEW c \in Codes \cup {Bogus},
             NEW e \in Emails, Arrive(h, k, c, e)
      PROVE  AnswerInv'
  <2>1. /\ users' = users /\ pc[h] = "idle" /\ email' = [email EXCEPT ![h] = e]
        /\ \/ answer' = [answer EXCEPT ![h] = "429"] /\ pc' = pc
           \/ answer' = [answer EXCEPT ![h] = "none"] /\ pc' = [pc EXCEPT ![h] = "redeem"]
    BY <1>4 DEF Arrive, Goto, Say
  <2> QED
    BY <1>0, <2>1, NothingClaimed DEF TypeOK
<1>5. ASSUME NEW h \in Handlers, Redeem(h) PROVE AnswerInv'
  <2>1. /\ UNCHANGED <<users, answer, email>> /\ pc[h] = "redeem"
        /\ pc' = [pc EXCEPT ![h] = "lookup"] \/ pc' = [pc EXCEPT ![h] = "explain"]
    BY <1>5 DEF Redeem, Goto
  <2>2. answer[h] = "none"
    BY <2>1 DEF AnswerInv, PendingUnsaid
  <2> QED
    BY <1>0, <2>1, <2>2, NothingClaimed DEF TypeOK
<1>6. ASSUME NEW h \in Handlers, Explain(h) PROVE AnswerInv'
  <2>1. /\ UNCHANGED <<users, email>> /\ pc' = [pc EXCEPT ![h] = "idle"]
        /\ answer' = [answer EXCEPT ![h] = Why(code[h], stamp[h])]
    BY <1>6 DEF Explain, Goto, Say
  <2>2. answer'[h] \in Reasons
    BY <1>0, <2>1, WhyIsAReason DEF TypeOK
  <2> QED
    BY <1>0, <2>1, <2>2, NothingClaimed DEF TypeOK, Reasons
<1>7. ASSUME NEW h \in Handlers, Lookup(h) PROVE AnswerInv'
  <2>1. UNCHANGED <<users, email>> /\ pc[h] = "lookup"
    BY <1>7 DEF Lookup, httpVars
  <2>2. answer[h] = "none"
    BY <2>1 DEF AnswerInv, PendingUnsaid
  <2>3. CASE /\ Known(email[h]) /\ answer' = [answer EXCEPT ![h] = "409"]
             /\ pc' = [pc EXCEPT ![h] = "idle"]
    BY <1>0, <2>1, <2>3, NothingClaimed DEF TypeOK
  <2>4. CASE pc' = [pc EXCEPT ![h] = "insert"] /\ answer' = answer
    BY <1>0, <2>1, <2>2, <2>4, NothingClaimed DEF TypeOK
  <2> QED
    BY <1>7, <2>3, <2>4 DEF Lookup, Goto, Say
<1>8. ASSUME NEW h \in Handlers, Insert(h) PROVE AnswerInv'
  <2>1. pc[h] = "insert" /\ email' = email
    BY <1>8 DEF Insert, httpVars
  <2>2. answer[h] = "none"
    BY <2>1 DEF AnswerInv, PendingUnsaid
  <2>3. CASE /\ Known(email[h]) /\ answer' = [answer EXCEPT ![h] = "500"]
             /\ pc' = [pc EXCEPT ![h] = "idle"] /\ users' = users
    BY <1>0, <2>1, <2>3, NothingClaimed DEF TypeOK
  <2>4. CASE /\ ~Known(email[h])
             /\ users' = users \cup {[email |-> email[h], code |-> code[h]]}
             /\ \/ pc' = [pc EXCEPT ![h] = "idle"] /\ answer' = [answer EXCEPT ![h] = "201"]
                \/ pc' = [pc EXCEPT ![h] = "seed"] /\ answer' = answer
    <3>1. OneAccountEach'
      BY <2>4 DEF AnswerInv, OneAccountEach, Known
    <3>2. \A g \in Handlers \ {h} : pc'[g] = pc[g] /\ answer'[g] = answer[g]
      BY <1>0, <2>4 DEF TypeOK
    <3>3. \/ pc'[h] = "idle" /\ answer'[h] = "201"
          \/ pc'[h] = "seed" /\ answer'[h] = "none"
      BY <1>0, <2>2, <2>4 DEF TypeOK
    <3>4. PendingUnsaid'
      BY <3>2, <3>3 DEF AnswerInv, PendingUnsaid
    <3>5. Known(email[h])' /\ \A e : Known(e) => Known(e)'
      <4>1. users \subseteq users' /\ \A e : Known(e) => Known(e)'
        BY <2>4 DEF Known
      <4>2. [email |-> email[h], code |-> code[h]] \in users'
        BY <2>4
      <4>3. \E u \in users' : u.email = email[h]
        BY <4>2
      <4> QED
        BY <2>1, <4>1, <4>3 DEF Known
    <3>6. TakenIsKnown'
      BY <2>1, <3>2, <3>5 DEF AnswerInv, TakenIsKnown, Claims
    <3>7. \A g \in Handlers \ {h} : Claims(g) => email[g] # email[h]
      BY <2>4 DEF AnswerInv, TakenIsKnown
    <3>8. ClaimsDiffer'
      BY <2>1, <3>2, <3>7 DEF AnswerInv, ClaimsDiffer, Claims
    <3> QED
      BY <1>0, <3>1, <3>4, <3>6, <3>8 DEF AnswerInv
  <2> QED
    BY <1>8, <2>3, <2>4 DEF Insert, Goto, Say
<1>9. ASSUME NEW h \in Handlers, Seed(h) PROVE AnswerInv'
  <2>1. /\ pc[h] = "seed" /\ UNCHANGED <<users, email>>
        /\ answer' = [answer EXCEPT ![h] = "201"] /\ pc' = [pc EXCEPT ![h] = "idle"]
    BY <1>9 DEF Seed, Goto, Say, httpVars
  <2>2. /\ \A g \in Handlers : Claims(g)' <=> Claims(g)
        /\ \A g \in Handlers : answer'[g] \in {"409", "500"} => answer[g] \in {"409", "500"}
        /\ \A g \in Handlers : pc'[g] # "idle" => pc'[g] = pc[g] /\ answer'[g] = answer[g]
    BY <1>0, <2>1 DEF TypeOK, Claims
  <2>3. OneAccountEach' /\ PendingUnsaid'
    BY <2>1, <2>2 DEF AnswerInv, OneAccountEach, PendingUnsaid
  <2>4. TakenIsKnown' /\ ClaimsDiffer'
    BY <2>1, <2>2 DEF AnswerInv, TakenIsKnown, ClaimsDiffer, Known
  <2> QED
    BY <1>0, <2>3, <2>4 DEF AnswerInv
<1>10. ASSUME Tick PROVE AnswerInv'
  <2>1. UNCHANGED <<users, pc, answer, email>>
    BY <1>10 DEF Tick, httpVars
  <2> QED
    BY <1>1, <2>1
<1>11. ASSUME CrashApi PROVE AnswerInv'
  <2>1. /\ UNCHANGED <<users, email>>
        /\ \A g \in Handlers :
              \/ pc'[g] = "idle" /\ answer'[g] = "lost"
              \/ pc'[g] = pc[g] /\ answer'[g] = answer[g]
              \/ pc'[g] = "idle" /\ pc[g] = "idle" /\ answer'[g] = answer[g]
    BY <1>11 DEF CrashApi
  <2>2. OneAccountEach' /\ PendingUnsaid'
    BY <2>1 DEF AnswerInv, OneAccountEach, PendingUnsaid
  <2>3. \A g \in Handlers : Claims(g)' => Claims(g)
    BY <2>1 DEF Claims
  <2>4. \A g \in Handlers : answer'[g] \in {"409", "500"} => answer[g] \in {"409", "500"}
    BY <2>1
  <2>5. TakenIsKnown' /\ ClaimsDiffer'
    BY <2>1, <2>3, <2>4 DEF AnswerInv, TakenIsKnown, ClaimsDiffer, Known
  <2> QED
    BY <1>0, <2>2, <2>5 DEF AnswerInv
<1>12. CASE UNCHANGED vars
  BY <1>1, <1>12 DEF vars, httpVars
<1> QED
  BY <1>2, <1>3, <1>4, <1>5, <1>6, <1>7, <1>8, <1>9, <1>10, <1>11, <1>12 DEF Next, Step

\* No address has two accounts, nobody is refused for an address that is free,
\* and no two are told that one is theirs, although register_user looks the
\* address up in one statement and inserts it in another.
THEOREM AnswersAreTrue == Spec => []AnswersMatchAccounts
<1>1. AnswerInv => AnswersMatchAccounts
  BY DEF AnswerInv, AnswersMatchAccounts, OneAccountEach, TakenIsKnown, ClaimsDiffer, Claims
<1> QED
  BY <1>1, InitAnswers, NextAnswers, PTL DEF Spec

-----------------------------------------------------------------------------
\* Where the uses of a code have gone.

Used(c)        == invite[c].used
Accounted(c)   == Used(c) = Cardinality(Bought(c)) + Cardinality(InFlight(c)) + burned[c]
Balanced       == \A c \in Issued : Accounted(c)
PaidByIssued   == \A u \in users : u.code \in Issued \cup {Bogus}
NothingBurnedYet == \A c \in Codes \ Issued : burned[c] = 0

UseInv == ReasonInv /\ IsFiniteSet(users) /\ PaidByIssued /\ NothingBurnedYet /\ Balanced

LEMMA FiniteParts ==
    ASSUME IsFiniteSet(users), NEW c
    PROVE  /\ IsFiniteSet(Bought(c)) /\ Cardinality(Bought(c)) \in Nat
           /\ IsFiniteSet(InFlight(c)) /\ Cardinality(InFlight(c)) \in Nat
<1>1. Bought(c) \subseteq users /\ InFlight(c) \subseteq Requests
  BY DEF Bought, InFlight
<1>2. IsFiniteSet(Bought(c)) /\ IsFiniteSet(InFlight(c))
  BY <1>1, FS_Subset, AccountsAssumption
<1> QED
  BY <1>2, FS_CardinalityType

LEMMA OneMore ==
    ASSUME NEW S, NEW x, IsFiniteSet(S), x \notin S
    PROVE  IsFiniteSet(S \cup {x}) /\ Cardinality(S \cup {x}) = Cardinality(S) + 1
BY FS_AddElement

LEMMA OneLess ==
    ASSUME NEW S, NEW x, IsFiniteSet(S), x \in S
    PROVE  Cardinality(S \ {x}) = Cardinality(S) - 1
BY FS_RemoveElement

\* A step that moves no use of any code.
LEMMA UsesUndisturbed ==
    ASSUME UseInv, ReasonInv', users' = users, burned' = burned,
           Issued \subseteq Issued',
           \A c \in Issued : Used(c)' = Used(c),
           \A c \in Issued' \ Issued : Used(c)' = 0,
           \A c \in Codes : InFlight(c)' = InFlight(c)
    PROVE  UseInv'
<1>1. \A c \in Codes : Bought(c)' = Bought(c)
  BY DEF Bought
<1>2. IsFiniteSet(users)' /\ PaidByIssued' /\ NothingBurnedYet'
  BY DEF UseInv, PaidByIssued, NothingBurnedYet
<1>3. ASSUME NEW c \in Issued PROVE Accounted(c)'
  <2>1. c \in Codes /\ Accounted(c)
    BY DEF UseInv, Balanced, ReasonInv, TypeOK
  <2> QED
    BY <1>1, <2>1 DEF Accounted
<1>4. ASSUME NEW c \in Issued', c \notin Issued PROVE Accounted(c)'
  <2>1. c \in Codes
    BY DEF ReasonInv, TypeOK
  <2>2. c # Bogus /\ burned[c] = 0
    BY <1>4, <2>1, AccountsAssumption DEF UseInv, NothingBurnedYet
  <2>3. Bought(c) = {} /\ InFlight(c) = {}
    BY <1>4, <2>2, HandlersSplit DEF Bought, InFlight, UseInv, PaidByIssued, ReasonInv, CodesAreIssued
  <2>4. Cardinality({}) = 0
    BY FS_EmptySet
  <2>5. Used(c)' = 0 /\ Bought(c)' = {} /\ InFlight(c)' = {} /\ burned'[c] = 0
    BY <1>1, <1>4, <2>1, <2>2, <2>3
  <2> QED
    BY <2>4, <2>5 DEF Accounted
<1> QED
  BY <1>2, <1>3, <1>4 DEF UseInv, Balanced

LEMMA InitUses == Init => UseInv
<1> SUFFICES ASSUME Init PROVE UseInv
  OBVIOUS
<1>1. Issued = {} /\ users = {}
  BY DEF Init, Issued
<1>2. IsFiniteSet(users)
  BY <1>1, FS_EmptySet
<1> QED
  BY <1>1, <1>2, InitReasons DEF Init, UseInv, PaidByIssued, NothingBurnedYet, Balanced

\* The end of a registration that has bought nothing.
LEMMA LostUse ==
    ASSUME UseInv, ReasonInv', NEW h \in Handlers, Paid(h) \/ code[h] = Bogus,
           UNCHANGED <<invite, users, code>>, Burn(h),
           pc' = [pc EXCEPT ![h] = "idle"]
    PROVE  UseInv'
<1>0. TypeOK /\ Issued' = Issued /\ IsFiniteSet(users) /\ Issued \subseteq Codes
  BY DEF UseInv, ReasonInv, TypeOK, Issued
<1>1. /\ \A g \in Handlers : g # h => pc'[g] = pc[g]
      /\ pc'[h] = "idle"
  BY <1>0 DEF TypeOK
<1>2. \A c \in Issued : Used(c)' = Used(c)
  BY DEF Used
<1>3. CASE code[h] = Bogus
  <2>1. burned' = burned
    BY <1>3 DEF Burn
  <2>2. \A c \in Codes : InFlight(c)' = InFlight(c)
    BY <1>1, <1>3, HandlersSplit, AccountsAssumption DEF InFlight, Paid
  <2> QED
    BY <1>0, <1>2, <2>1, <2>2, UsesUndisturbed
<1>4. CASE code[h] # Bogus /\ Paid(h)
  <2>0. code[h] \in Issued /\ h \in Requests
    BY <1>4 DEF UseInv, ReasonInv, CodesAreIssued, Handlers
  <2>1. PICK d \in Issued : d = code[h]
    BY <2>0
  <2>2. InFlight(d)' = InFlight(d) \ {h} /\ h \in InFlight(d)
    BY <1>1, <1>4, <2>0, <2>1, HandlersSplit DEF InFlight, Paid
  <2>3. \A c \in Codes \ {d} : InFlight(c)' = InFlight(c)
    BY <1>1, <1>4, <2>1, HandlersSplit DEF InFlight, Paid
  <2>4. /\ burned' = [burned EXCEPT ![d] = @ + 1] /\ burned \in [Codes -> Nat]
    BY <1>0, <1>4, <2>1 DEF Burn, TypeOK
  <2>5. /\ burned'[d] = burned[d] + 1 /\ burned[d] \in Nat
        /\ \A c \in Codes \ {d} : burned'[c] = burned[c]
    BY <1>0, <2>1, <2>4
  <2>6. \A c : Bought(c)' = Bought(c)
    BY DEF Bought
  <2>7. Accounted(d)'
    <3>1. Accounted(d) /\ Used(d)' = Used(d)
      BY <1>2, <2>1 DEF UseInv, Balanced
    <3>2. Cardinality(InFlight(d)') = Cardinality(InFlight(d)) - 1
      BY <1>0, <2>2, FiniteParts, OneLess
    <3>3. Cardinality(InFlight(d)) \in Nat /\ Cardinality(Bought(d)) \in Nat
      BY <1>0, FiniteParts
    <3>4. Cardinality(Bought(d)') = Cardinality(Bought(d))
      BY <2>6
    <3> QED
      BY <2>5, <3>1, <3>2, <3>3, <3>4 DEF Accounted
  <2>8. ASSUME NEW c \in Issued, c # d PROVE Accounted(c)'
    <3>1. Accounted(c)
      BY DEF UseInv, Balanced
    <3> QED
      BY <1>0, <1>2, <2>3, <2>5, <2>6, <2>8, <3>1 DEF Accounted
  <2>9. PaidByIssued' /\ NothingBurnedYet' /\ IsFiniteSet(users)'
    BY <1>0, <2>1, <2>5 DEF UseInv, PaidByIssued, NothingBurnedYet
  <2> QED
    BY <1>0, <2>7, <2>8, <2>9 DEF UseInv, Balanced
<1> QED
  BY <1>3, <1>4

LEMMA NextUses == UseInv /\ [Next]_vars => UseInv'
<1> SUFFICES ASSUME UseInv, [Next]_vars PROVE UseInv'
  OBVIOUS
<1> USE AccountsAssumption, HandlersSplit
<1>0. TypeOK /\ ReasonInv /\ ReasonInv' /\ IsFiniteSet(users) /\ Issued \subseteq Codes
  BY NextReasons DEF UseInv, ReasonInv, TypeOK
<1>1. ASSUME UNCHANGED <<invite, users, burned, code>>,
             \A h \in Requests : Paid(h)' <=> Paid(h)
      PROVE  UseInv'
  <2>1. Issued' = Issued /\ \A c \in Issued : Used(c)' = Used(c)
    BY <1>1 DEF Issued, Used
  <2>2. \A c \in Codes : InFlight(c)' = InFlight(c)
    BY <1>1 DEF InFlight
  <2> QED
    BY <1>0, <1>1, <2>1, <2>2, UsesUndisturbed
<1>2. ASSUME NEW c \in Codes, Issue(c) PROVE UseInv'
  <2>1. /\ Issued' = Issued \cup {c} /\ c \notin Issued
        /\ \A x \in Issued : Used(x)' = Used(x)
        /\ Used(c)' = 0
    BY <1>2 DEF Issue, Issued, Used
  <2>2. users' = users /\ burned' = burned /\ \A x \in Codes : InFlight(x)' = InFlight(x)
    BY <1>2 DEF Issue, InFlight, Paid, httpVars
  <2> QED
    BY <1>0, <2>1, <2>2, UsesUndisturbed
<1>3. ASSUME NEW c \in Codes, Revoke(c) PROVE UseInv'
  <2>1. Issued' = Issued /\ \A x \in Issued :
           invite'[x] = IF x = c THEN [invite[x] EXCEPT !.revoked = TRUE] ELSE invite[x]
    BY <1>3 DEF Revoke, Revocable, Issued
  <2>2. ASSUME NEW x \in Issued PROVE Used(x)' = Used(x)
    <3>1. invite[x] \in [used : Nat, revoked : BOOLEAN, expires : Nat]
      BY <1>0 DEF TypeOK
    <3> QED
      BY <2>1, <3>1 DEF Used
  <2>3. users' = users /\ burned' = burned /\ \A x \in Codes : InFlight(x)' = InFlight(x)
    BY <1>3 DEF Revoke, InFlight, Paid, httpVars
  <2> QED
    BY <1>0, <2>1, <2>2, <2>3, UsesUndisturbed
<1>4. ASSUME NEW h \in Handlers, UNCHANGED <<invite, users, burned>>,
             \A g \in Handlers \ {h} : pc'[g] = pc[g] /\ code'[g] = code[g],
             h \in Requests => ~Paid(h) /\ ~Paid(h)'
      PROVE  UseInv'
  <2>1. Issued' = Issued /\ \A c \in Issued : Used(c)' = Used(c)
    BY <1>4 DEF Issued, Used
  <2>2. \A g \in Handlers \ {h} : Paid(g)' <=> Paid(g)
    BY <1>4 DEF Paid
  <2>3. \A c \in Codes : InFlight(c)' = InFlight(c)
    BY <1>4, <2>2 DEF InFlight
  <2> QED
    BY <1>0, <1>4, <2>1, <2>3, UsesUndisturbed
<1>5. ASSUME NEW h \in Tools, NEW e \in Emails, RunTool(h, e) PROVE UseInv'
  <2>1. /\ UNCHANGED <<invite, users, burned>> /\ h \notin Requests
        /\ pc' = [pc EXCEPT ![h] = "lookup"] /\ code' = [code EXCEPT ![h] = Bogus]
    BY <1>5 DEF RunTool, Goto
  <2> QED
    BY <1>0, <1>4, <2>1 DEF TypeOK
<1>6. ASSUME NEW h \in Requests, NEW k \in Clients, NEW c \in Codes \cup {Bogus},
             NEW e \in Emails, Arrive(h, k, c, e)
      PROVE  UseInv'
  <2>1. /\ UNCHANGED <<invite, users, burned>> /\ pc[h] = "idle"
        /\ pc' = pc \/ pc' = [pc EXCEPT ![h] = "redeem"]
        /\ code' = [code EXCEPT ![h] = c]
    BY <1>6 DEF Arrive, Goto
  <2>2. /\ \A g \in Handlers \ {h} : pc'[g] = pc[g] /\ code'[g] = code[g]
        /\ pc'[h] \in {"idle", "redeem"}
    BY <1>0, <2>1 DEF TypeOK
  <2>3. ~Paid(h) /\ ~Paid(h)'
    BY <2>1, <2>2 DEF Paid
  <2> QED
    BY <1>4, <2>1, <2>2, <2>3
<1>7. ASSUME NEW h \in Handlers, Redeem(h) PROVE UseInv'
  <2>1. pc[h] = "redeem" /\ UNCHANGED <<users, code, burned>>
    BY <1>7 DEF Redeem
  <2>2. CASE pc' = [pc EXCEPT ![h] = "explain"] /\ invite' = invite
    <3>1. /\ \A g \in Handlers \ {h} : pc'[g] = pc[g]
          /\ pc'[h] = "explain"
      BY <1>0, <2>2 DEF TypeOK
    <3>2. ~Paid(h) /\ ~Paid(h)'
      BY <2>1, <3>1 DEF Paid
    <3> QED
      BY <1>4, <2>1, <2>2, <3>1, <3>2
  <2>3. CASE /\ \E t \in stamp[h]..now : Redeemable(code[h], t)
             /\ invite' = [invite EXCEPT ![code[h]].used = @ + 1]
             /\ pc' = [pc EXCEPT ![h] = "lookup"]
    <3>0. PICK d \in Issued : d = code[h]
      BY <2>3 DEF Redeemable
    <3>1. /\ Issued' = Issued
          /\ \A x \in Issued : invite'[x] = IF x = d THEN [invite[x] EXCEPT !.used = @ + 1]
                                             ELSE invite[x]
      BY <2>3, <3>0 DEF Issued
    <3>2. d # Bogus /\ h \in Requests
      BY <1>0, <3>0 DEF ReasonInv, CodesAreIssued, Handlers
    <3>3. ASSUME NEW x \in Issued
          PROVE  /\ x = d => Used(x)' = Used(x) + 1
                 /\ x # d => Used(x)' = Used(x)
      <4>1. invite[x] \in [used : Nat, revoked : BOOLEAN, expires : Nat]
        BY <1>0 DEF TypeOK
      <4> QED
        BY <3>1, <4>1 DEF Used
    <3>4. /\ \A g \in Handlers \ {h} : pc'[g] = pc[g]
          /\ pc'[h] = "lookup"
      BY <1>0, <2>3 DEF TypeOK
    <3>5. InFlight(d)' = InFlight(d) \cup {h} /\ h \notin InFlight(d)
      BY <2>1, <3>0, <3>2, <3>4 DEF InFlight, Paid
    <3>6. \A c \in Codes \ {d} : InFlight(c)' = InFlight(c)
      BY <2>1, <3>0, <3>4 DEF InFlight, Paid
    <3>7. \A c : Bought(c)' = Bought(c)
      BY <2>1 DEF Bought
    <3>8. \A c \in Codes : burned[c] \in Nat /\ burned'[c] = burned[c]
      BY <1>0, <2>1 DEF TypeOK
    <3>9. Accounted(d)'
      <4>1. Accounted(d) /\ Used(d)' = Used(d) + 1
        BY <3>1, <3>3 DEF UseInv, Balanced
      <4>2. Cardinality(InFlight(d)') = Cardinality(InFlight(d)) + 1
        BY <1>0, <3>5, FiniteParts, OneMore
      <4>3. Cardinality(InFlight(d)) \in Nat /\ Cardinality(Bought(d)) \in Nat
        BY <1>0, FiniteParts
      <4>4. Cardinality(Bought(d)') = Cardinality(Bought(d))
        BY <3>7
      <4>5. burned[d] \in Nat /\ burned'[d] = burned[d]
        BY <1>0, <3>1, <3>8
      <4> QED
        BY <4>1, <4>2, <4>3, <4>4, <4>5 DEF Accounted
    <3>10. ASSUME NEW c \in Issued, c # d PROVE Accounted(c)'
      <4>1. Accounted(c)
        BY DEF UseInv, Balanced
      <4> QED
        BY <1>0, <3>3, <3>6, <3>7, <3>8, <3>10, <4>1 DEF Accounted
    <3>11. PaidByIssued' /\ NothingBurnedYet' /\ IsFiniteSet(users)'
      BY <1>0, <2>1, <3>1 DEF UseInv, PaidByIssued, NothingBurnedYet
    <3> QED
      BY <1>0, <3>1, <3>9, <3>10, <3>11 DEF UseInv, Balanced
  <2> QED
    BY <1>7, <2>2, <2>3 DEF Redeem, Goto
<1>8. ASSUME NEW h \in Handlers, Explain(h) PROVE UseInv'
  <2>1. /\ UNCHANGED <<invite, users, burned, code>> /\ pc[h] = "explain"
        /\ pc' = [pc EXCEPT ![h] = "idle"]
    BY <1>8 DEF Explain, Goto
  <2>2. /\ \A g \in Handlers \ {h} : pc'[g] = pc[g]
        /\ pc'[h] = "idle"
    BY <1>0, <2>1 DEF TypeOK
  <2>3. ~Paid(h) /\ ~Paid(h)'
    BY <2>1, <2>2 DEF Paid
  <2> QED
    BY <1>4, <2>1, <2>2, <2>3
<1>9. ASSUME NEW h \in Handlers, Lookup(h) PROVE UseInv'
  <2>1. pc[h] = "lookup" /\ UNCHANGED <<invite, users, code>>
    BY <1>9 DEF Lookup, httpVars
  <2>2. CASE Burn(h) /\ pc' = [pc EXCEPT ![h] = "idle"]
    BY <1>0, <2>1, <2>2, LostUse DEF Paid
  <2>3. CASE burned' = burned /\ pc' = [pc EXCEPT ![h] = "insert"]
    <3>1. \A g \in Handlers : Paid(g)' <=> Paid(g)
      BY <1>0, <2>1, <2>3 DEF Paid, TypeOK
    <3> QED
      BY <1>1, <2>1, <2>3, <3>1
  <2> QED
    BY <1>9, <2>2, <2>3 DEF Lookup, Goto
<1>10. ASSUME NEW h \in Handlers, Insert(h) PROVE UseInv'
  <2>1. pc[h] = "insert" /\ UNCHANGED <<invite, code>>
    BY <1>10 DEF Insert, httpVars
  <2>2. CASE Burn(h) /\ pc' = [pc EXCEPT ![h] = "idle"] /\ users' = users
    BY <1>0, <2>1, <2>2, LostUse DEF Paid
  <2>3. CASE /\ ~Known(email[h]) /\ burned' = burned
             /\ users' = users \cup {[email |-> email[h], code |-> code[h]]}
             /\ pc' = [pc EXCEPT ![h] = "idle"] \/ pc' = [pc EXCEPT ![h] = "seed"]
    <3>0. PICK d : d = code[h]
      OBVIOUS
    <3> DEFINE u == [email |-> email[h], code |-> d]
    <3>1. u \notin users /\ users' = users \cup {u} /\ u.code = d
      BY <2>3, <3>0 DEF Known
    <3>2. /\ \A g \in Handlers \ {h} : pc'[g] = pc[g]
          /\ pc'[h] \in {"idle", "seed"}
      BY <1>0, <2>3 DEF TypeOK
    <3>3. /\ d \in Issued \cup {Bogus} /\ Issued' = Issued /\ Bogus \notin Issued
          /\ d \in Issued => h \in Requests
      BY <1>0, <2>1, <3>0 DEF ReasonInv, CodesAreIssued, Issued, Handlers, TypeOK
    <3>4. \A c \in Issued \ {d} : /\ Bought(c)' = Bought(c)
                                  /\ InFlight(c)' = InFlight(c)
      BY <2>1, <3>0, <3>1, <3>2 DEF Bought, InFlight, Paid
    <3>5. d \in Issued => /\ Bought(d)' = Bought(d) \cup {u} /\ u \notin Bought(d)
                          /\ InFlight(d)' = InFlight(d) \ {h} /\ h \in InFlight(d)
      <4>1. Bought(d)' = Bought(d) \cup {u} /\ u \notin Bought(d)
        BY <2>1, <3>1 DEF Bought
      <4>2. d \in Issued => InFlight(d)' = InFlight(d) \ {h} /\ h \in InFlight(d)
        BY <2>1, <3>0, <3>2, <3>3 DEF InFlight, Paid
      <4> QED
        BY <4>1, <4>2
    <3>6. \A c \in Issued : Used(c)' = Used(c) /\ burned'[c] = burned[c] /\ burned[c] \in Nat
      BY <1>0, <2>1, <2>3 DEF Used, TypeOK
    <3>7. IsFiniteSet(users)' /\ PaidByIssued' /\ NothingBurnedYet'
      <4>1. IsFiniteSet(users \cup {u})
        BY <1>0, FS_AddElement
      <4> QED
        BY <2>3, <3>1, <3>3, <4>1 DEF UseInv, PaidByIssued, NothingBurnedYet
    <3> HIDE DEF u
    <3>8. ASSUME d \in Issued PROVE Accounted(d)'
      <4>1. Accounted(d) /\ Used(d)' = Used(d)
        BY <3>6, <3>8 DEF UseInv, Balanced
      <4>2. Cardinality(InFlight(d)') = Cardinality(InFlight(d)) - 1
        BY <1>0, <3>5, <3>8, FiniteParts, OneLess
      <4>3. Cardinality(Bought(d)') = Cardinality(Bought(d)) + 1
        BY <1>0, <3>5, <3>8, FiniteParts, OneMore
      <4>4. Cardinality(InFlight(d)) \in Nat /\ Cardinality(Bought(d)) \in Nat
        BY <1>0, FiniteParts
      <4>5. burned[d] \in Nat /\ burned'[d] = burned[d]
        BY <3>6, <3>8
      <4> QED
        BY <4>1, <4>2, <4>3, <4>4, <4>5 DEF Accounted
    <3>9. ASSUME NEW c \in Issued, c # d PROVE Accounted(c)'
      <4>1. Accounted(c)
        BY DEF UseInv, Balanced
      <4> QED
        BY <3>4, <3>6, <3>9, <4>1 DEF Accounted
    <3> QED
      BY <1>0, <3>3, <3>7, <3>8, <3>9 DEF UseInv, Balanced
  <2> QED
    BY <1>10, <2>2, <2>3 DEF Insert, Goto
<1>11. ASSUME NEW h \in Handlers, Seed(h) PROVE UseInv'
  <2>1. /\ UNCHANGED <<invite, users, burned, code>> /\ pc[h] = "seed"
        /\ pc' = [pc EXCEPT ![h] = "idle"]
    BY <1>11 DEF Seed, Goto, httpVars
  <2>2. \A g \in Handlers : Paid(g)' <=> Paid(g)
    BY <1>0, <2>1 DEF Paid, TypeOK
  <2> QED
    BY <1>1, <2>1, <2>2
<1>12. ASSUME Tick PROVE UseInv'
  <2>1. UNCHANGED <<invite, users, burned, code, pc>>
    BY <1>12 DEF Tick, httpVars
  <2> QED
    BY <1>1, <2>1 DEF Paid
<1>13. ASSUME CrashApi PROVE UseInv'
  <2>1. /\ UNCHANGED <<invite, users, code>> /\ Issued' = Issued
        /\ \A h \in Requests : pc'[h] = "idle"
        /\ burned' = [c \in Codes |-> burned[c] + Cardinality({h \in Requests : LosesUse(h, c)})]
    BY <1>13 DEF CrashApi, Issued
  <2>2. \A c : {h \in Requests : LosesUse(h, c)} = InFlight(c)
    BY DEF LosesUse, InFlight
  <2>3. \A c \in Codes : InFlight(c)' = {} /\ Bought(c)' = Bought(c)
    BY <2>1 DEF InFlight, Paid, Bought
  <2>4. ASSUME NEW c \in Issued PROVE Accounted(c)'
    <3>1. burned'[c] = burned[c] + Cardinality(InFlight(c)) /\ burned[c] \in Nat
      BY <1>0, <2>1, <2>2 DEF TypeOK
    <3>2. Accounted(c) /\ Used(c)' = Used(c)
      BY <2>1 DEF UseInv, Balanced, Used
    <3>3. Cardinality(InFlight(c)) \in Nat /\ Cardinality(Bought(c)) \in Nat
      BY <1>0, FiniteParts
    <3>4. Cardinality(InFlight(c)') = 0 /\ Cardinality(Bought(c)') = Cardinality(Bought(c))
      BY <1>0, <2>3, FS_EmptySet
    <3> QED
      BY <3>1, <3>2, <3>3, <3>4 DEF Accounted
  <2>5. ASSUME NEW c \in Codes \ Issued PROVE burned'[c] = 0
    <3>1. c # Bogus
      OBVIOUS
    <3>2. InFlight(c) = {}
      BY <1>0, <3>1 DEF InFlight, ReasonInv, CodesAreIssued
    <3>3. burned[c] = 0 /\ Cardinality(InFlight(c)) = 0
      BY <3>2, FS_EmptySet DEF UseInv, NothingBurnedYet
    <3> QED
      BY <2>1, <2>2, <3>3
  <2> QED
    BY <1>0, <2>1, <2>4, <2>5 DEF UseInv, Balanced, PaidByIssued, NothingBurnedYet
<1>14. CASE UNCHANGED vars
  <2>1. UNCHANGED <<invite, users, burned, code, pc>>
    BY <1>14 DEF vars, httpVars
  <2> QED
    BY <1>1, <2>1 DEF Paid
<1> QED
  BY <1>2, <1>3, <1>5, <1>6, <1>7, <1>8, <1>9, <1>10, <1>11, <1>12, <1>13, <1>14
     DEF Next, Step

\* Every use of an invitation bought an account, is about to, or was lost to an
\* address that was taken or to a crash, and there are no more uses than the
\* code allows (redeem_invite commits its conditional UPDATE before
\* register_user runs).
THEOREM UsesAreAccountedFor == Spec => []UsesAddUp
<1>1. UseInv => UsesAddUp
  BY DEF UseInv, Balanced, Accounted, Used, ReasonInv, UsesAreBounded, UsesAddUp
<1> QED
  BY <1>1, InitUses, NextUses, PTL DEF Spec

-----------------------------------------------------------------------------
\* The limiter's deques: sequences of moments that never fall, of which _prune
\* cuts a beginning off.
\* A non-empty set of natural numbers has a least one: the sets 1..n are well
\* founded under inclusion.
LEMMA LeastNatural ==
    ASSUME NEW T \in SUBSET Nat, T # {}
    PROVE  \E m \in T : \A n \in T : m <= n
<1> DEFINE Below == {1..n : n \in T}
<1>1. Below \subseteq FiniteSubsetsOf(Nat)
  BY FS_Interval DEF FiniteSubsetsOf
<1>0. Below # {}
  OBVIOUS
<1>2. \E X \in Below : \A Y \in Below : <<Y, X>> \notin StrictSubsetOrdering(Nat)
  <2> HIDE DEF Below
  <2> QED
    BY <1>0, <1>1, FS_StrictSubsetOrderingWellFounded, WFMin
<1>3. PICK m \in T : \A n \in T : <<1..n, 1..m>> \notin StrictSubsetOrdering(Nat)
  BY <1>2
<1>4. ASSUME NEW n \in T PROVE m <= n
  <2> SUFFICES ASSUME n < m PROVE FALSE
    OBVIOUS
  <2>1. 1..n \in SUBSET Nat /\ 1..m \in SUBSET Nat /\ 1..n \subseteq 1..m /\ 1..n # 1..m
    BY m \in 1..m, m \notin 1..n
  <2> QED
    BY <1>3, <2>1 DEF StrictSubsetOrdering
<1> QED
  BY <1>4

Ascending(s) ==
    /\ s \in Seq(Nat)
    /\ \A i, j \in 1..Len(s) : i <= j => s[i] <= s[j]

\* _prune cuts a beginning off, and what is left is exactly what is fresh.
LEMMA PrunedIsTheRest ==
    ASSUME NEW s, Ascending(s), NEW c \in Int
    PROVE  \E d \in 0..Len(s) :
              /\ Fresh(s, c) = (d + 1)..Len(s)
              /\ Pruned(s, c) \in Seq(Nat)
              /\ Len(Pruned(s, c)) = Len(s) - d
              /\ \A i \in 1..(Len(s) - d) : Pruned(s, c)[i] = s[i + d]
<1>0. Len(s) \in Nat /\ \A i \in 1..Len(s) : s[i] \in Nat
  BY DEF Ascending
<1>1. CASE Fresh(s, c) = {}
  <2>1. Pruned(s, c) = <<>>
    BY <1>1 DEF Pruned
  <2>2. (Len(s) + 1)..Len(s) = {}
    BY <1>0
  <2> QED
    BY <1>0, <1>1, <2>1, <2>2
<1>2. CASE Fresh(s, c) # {}
  <2> DEFINE m == CHOOSE i \in Fresh(s, c) : \A j \in Fresh(s, c) : i <= j
  <2>1. m \in Fresh(s, c) /\ \A j \in Fresh(s, c) : m <= j
    <3>1. Fresh(s, c) \in SUBSET Nat
      BY <1>0 DEF Fresh
    <3> QED
      BY <1>2, <3>1, LeastNatural
  <2>2. Pruned(s, c) = SubSeq(s, m, Len(s))
    BY <1>2 DEF Pruned
  <2> HIDE DEF m
  <2>3. m \in 1..Len(s) /\ s[m] > c
    BY <2>1 DEF Fresh
  <2>4. Fresh(s, c) = m..Len(s)
    <3>1. \A i \in m..Len(s) : s[i] >= s[m]
      BY <1>0, <2>3 DEF Ascending
    <3> QED
      BY <1>0, <2>1, <2>3, <3>1 DEF Fresh
  <2>5. \A i \in m..Len(s) : s[i] \in Nat
    BY <1>0, <2>3
  <2>6. /\ SubSeq(s, m, Len(s)) \in Seq(Nat)
        /\ Len(SubSeq(s, m, Len(s))) = Len(s) - m + 1
        /\ \A i \in 1..(Len(s) - m + 1) : SubSeq(s, m, Len(s))[i] = s[m + i - 1]
    BY <1>0, <2>3, <2>5, SubSeqProperties
  <2>7. m - 1 \in 0..Len(s) /\ (m - 1) + 1 = m /\ Len(s) - (m - 1) = Len(s) - m + 1
    BY <1>0, <2>3
  <2>8. \A i \in 1..(Len(s) - m + 1) : m + i - 1 = i + (m - 1)
    BY <1>0, <2>3
  <2> DEFINE d == m - 1
  <2>9. /\ d \in 0..Len(s)
        /\ Fresh(s, c) = (d + 1)..Len(s)
        /\ Pruned(s, c) \in Seq(Nat)
        /\ Len(Pruned(s, c)) = Len(s) - d
    BY <2>2, <2>4, <2>6, <2>7
  <2>10. \A i \in 1..(Len(s) - d) : Pruned(s, c)[i] = s[i + d]
    BY <2>2, <2>6, <2>7, <2>8
  <2> QED
    BY <2>9, <2>10
<1> QED
  BY <1>1, <1>2

\* The rest is known by the same three facts, from where it is cut.
LEMMA RestFrom ==
    ASSUME NEW s, Ascending(s), NEW c \in Int, NEW d \in 0..Len(s),
           \A i \in 1..Len(s) : s[i] > c <=> i > d
    PROVE  /\ Pruned(s, c) \in Seq(Nat)
           /\ Len(Pruned(s, c)) = Len(s) - d
           /\ \A i \in 1..(Len(s) - d) : Pruned(s, c)[i] = s[i + d]
<1>0. Len(s) \in Nat
  BY DEF Ascending
<1>1. PICK e \in 0..Len(s) :
              /\ Fresh(s, c) = (e + 1)..Len(s)
              /\ Pruned(s, c) \in Seq(Nat)
              /\ Len(Pruned(s, c)) = Len(s) - e
              /\ \A i \in 1..(Len(s) - e) : Pruned(s, c)[i] = s[i + e]
  BY PrunedIsTheRest
<1>2. Fresh(s, c) = (d + 1)..Len(s)
  BY <1>0 DEF Fresh
<1>3. e = d
  <2>1. \A i \in 1..Len(s) : i >= e + 1 <=> i >= d + 1
    BY <1>0, <1>1, <1>2
  <2> QED
    BY <1>0, <2>1
<1> QED
  BY <1>1, <1>3

\* Where the rest begins.
LEMMA CutExists ==
    ASSUME NEW s, Ascending(s), NEW c \in Int
    PROVE  \E d \in 0..Len(s) : \A i \in 1..Len(s) : s[i] > c <=> i > d
<1>1. PICK d \in 0..Len(s) : Fresh(s, c) = (d + 1)..Len(s)
  BY PrunedIsTheRest
<1>2. \A i \in 1..Len(s) : s[i] > c <=> i \in Fresh(s, c)
  BY DEF Fresh
<1>3. Len(s) \in Nat
  BY DEF Ascending
<1>4. \A i \in 1..Len(s) : i \in (d + 1)..Len(s) <=> i > d
  BY <1>3
<1> QED
  BY <1>1, <1>2, <1>4

LEMMA PrunedAscends ==
    ASSUME NEW s, Ascending(s), NEW c \in Int
    PROVE  /\ Ascending(Pruned(s, c))
           /\ Len(Pruned(s, c)) <= Len(s)
           /\ \A t : (\A i \in 1..Len(s) : s[i] <= t)
                     => \A i \in 1..Len(Pruned(s, c)) : Pruned(s, c)[i] <= t
<1>1. PICK d \in 0..Len(s) : \A i \in 1..Len(s) : s[i] > c <=> i > d
  BY CutExists
<1>2. /\ Pruned(s, c) \in Seq(Nat)
      /\ Len(Pruned(s, c)) = Len(s) - d
      /\ \A i \in 1..(Len(s) - d) : Pruned(s, c)[i] = s[i + d]
  BY <1>1, RestFrom
<1>3. Len(s) \in Nat /\ \A i \in 1..(Len(s) - d) : i + d \in 1..Len(s)
  BY DEF Ascending
<1>4. \A i, j \in 1..(Len(s) - d) : i <= j => s[i + d] <= s[j + d]
  BY <1>3 DEF Ascending
<1>5. Ascending(Pruned(s, c))
  BY <1>2, <1>3, <1>4 DEF Ascending
<1> QED
  BY <1>2, <1>3, <1>5

\* What was pruned before is pruned no differently later.
LEMMA PrunedTwice ==
    ASSUME NEW s, Ascending(s), NEW b \in Int, NEW c \in Int, b <= c
    PROVE  Len(Pruned(Pruned(s, b), c)) = Len(Pruned(s, c))
<1> DEFINE r == Pruned(s, b)
<1>0. Len(s) \in Nat /\ \A i \in 1..Len(s) : s[i] \in Nat
  BY DEF Ascending
<1>1. PICK d \in 0..Len(s) : \A i \in 1..Len(s) : s[i] > b <=> i > d
  BY CutExists
<1>2. /\ Len(r) = Len(s) - d
      /\ \A i \in 1..(Len(s) - d) : r[i] = s[i + d]
  BY <1>1, RestFrom
<1>3. PICK e \in 0..Len(s) : \A i \in 1..Len(s) : s[i] > c <=> i > e
  BY CutExists
<1>4. d <= e
  BY <1>0, <1>1, <1>3
<1>5. Ascending(r)
  BY PrunedAscends
<1> HIDE DEF r
<1>6. e - d \in 0..Len(r) /\ \A i \in 1..Len(r) : r[i] > c <=> i > e - d
  BY <1>0, <1>2, <1>3, <1>4
<1>7. Len(Pruned(r, c)) = Len(r) - (e - d)
  BY <1>5, <1>6, RestFrom
<1>8. Len(Pruned(s, c)) = Len(s) - e
  BY <1>3, RestFrom
<1> QED
  BY <1>0, <1>2, <1>7, <1>8 DEF r

LEMMA AppendAscends ==
    ASSUME NEW s, Ascending(s), NEW t \in Nat, \A i \in 1..Len(s) : s[i] <= t
    PROVE  /\ Ascending(Append(s, t))
           /\ Len(Append(s, t)) = Len(s) + 1
           /\ \A i \in 1..Len(s) : Append(s, t)[i] = s[i]
           /\ Append(s, t)[Len(s) + 1] = t
<1>1. s \in Seq(Nat) /\ Len(s) \in Nat
  BY DEF Ascending
<1>2. /\ Append(s, t) \in Seq(Nat)
      /\ Len(Append(s, t)) = Len(s) + 1
      /\ \A i \in 1..Len(s) : Append(s, t)[i] = s[i]
      /\ Append(s, t)[Len(s) + 1] = t
  BY <1>1, AppendProperties
<1> QED
  BY <1>1, <1>2 DEF Ascending

\* A new hit at the end is one more, as long as it is fresh.
LEMMA PrunedAppend ==
    ASSUME NEW s, Ascending(s), NEW t \in Nat, \A i \in 1..Len(s) : s[i] <= t,
           NEW c \in Int
    PROVE  Len(Pruned(Append(s, t), c)) = Len(Pruned(s, c)) + (IF t > c THEN 1 ELSE 0)
<1> DEFINE a == Append(s, t)
<1>0. Len(s) \in Nat /\ \A i \in 1..Len(s) : s[i] \in Nat
  BY DEF Ascending
<1>1. /\ Ascending(a) /\ Len(a) = Len(s) + 1
      /\ \A i \in 1..Len(s) : a[i] = s[i]
      /\ a[Len(s) + 1] = t
  BY AppendAscends
<1>2. PICK d \in 0..Len(s) : \A i \in 1..Len(s) : s[i] > c <=> i > d
  BY CutExists
<1>3. Len(Pruned(s, c)) = Len(s) - d
  BY <1>2, RestFrom
<1> HIDE DEF a
<1>4. CASE t > c
  <2>1. d \in 0..Len(a) /\ \A i \in 1..Len(a) : a[i] > c <=> i > d
    BY <1>0, <1>1, <1>2, <1>4
  <2>2. Len(Pruned(a, c)) = Len(a) - d
    BY <1>1, <2>1, RestFrom
  <2> QED
    BY <1>0, <1>1, <1>3, <1>4, <2>2 DEF a
<1>5. CASE ~(t > c)
  <2>1. d = Len(s)
    BY <1>0, <1>2, <1>5
  <2>2. Len(a) \in 0..Len(a) /\ \A i \in 1..Len(a) : a[i] > c <=> i > Len(a)
    BY <1>0, <1>1, <1>5
  <2>3. Len(Pruned(a, c)) = Len(a) - Len(a)
    BY <1>1, <2>2, RestFrom
  <2> QED
    BY <1>0, <1>1, <1>3, <1>5, <2>1, <2>3 DEF a
<1> QED
  BY <1>4, <1>5

-----------------------------------------------------------------------------
\* The dictionary: per key the moments of its hits, none of them later than t.
HitsUntil(hits, t) ==
    \A k \in DOMAIN hits :
       Ascending(hits[k]) /\ \A i \in 1..Len(hits[k]) : hits[k][i] <= t

\* How many hits of a key count at moment t.
Count(hits, k, t, window) == Len(InWindow(hits, k, t, window))

LEMMA KeptAscends ==
    ASSUME NEW hits, NEW t \in Nat, HitsUntil(hits, t), NEW k
    PROVE  Ascending(Kept(hits, k)) /\ \A i \in 1..Len(Kept(hits, k)) : Kept(hits, k)[i] <= t
<1>1. Ascending(<<>>) /\ Len(<<>>) = 0
  BY EmptySeq DEF Ascending
<1> QED
  BY <1>1 DEF Kept, HitsUntil

LEMMA CountIsNatural ==
    ASSUME NEW hits, NEW t \in Nat, HitsUntil(hits, t), NEW k,
           NEW u \in Nat, NEW window \in Nat
    PROVE  /\ Count(hits, k, u, window) \in Nat
           /\ Ascending(InWindow(hits, k, u, window))
           /\ \A i \in 1..Len(InWindow(hits, k, u, window)) : InWindow(hits, k, u, window)[i] <= t
<1>1. Ascending(Kept(hits, k)) /\ \A i \in 1..Len(Kept(hits, k)) : Kept(hits, k)[i] <= t
  BY KeptAscends
<1>2. u - window \in Int
  OBVIOUS
<1> QED
  BY <1>1, <1>2, PrunedAscends DEF Count, InWindow, Ascending

\* Asking prunes, and changes no later count.
LEMMA LookedCounts ==
    ASSUME NEW hits, NEW t \in Nat, HitsUntil(hits, t), NEW k, NEW x,
           NEW u \in Nat, t <= u, NEW window \in Nat
    PROVE  /\ HitsUntil(Looked(hits, k, t, window), t)
           /\ Count(Looked(hits, k, t, window), x, u, window) = Count(hits, x, u, window)
<1> DEFINE L == Looked(hits, k, t, window)
           r == InWindow(hits, k, t, window)
<1>1. DOMAIN L = DOMAIN hits /\ \A y \in DOMAIN hits : L[y] = IF y = k THEN r ELSE hits[y]
  BY DEF Looked
<1>2. Ascending(r) /\ \A i \in 1..Len(r) : r[i] <= t
  BY CountIsNatural
<1>3. Ascending(Kept(hits, k))
  BY KeptAscends
<1>4. t - window \in Int /\ u - window \in Int /\ t - window <= u - window
  OBVIOUS
<1>5. Len(Pruned(r, u - window)) = Len(Pruned(Kept(hits, k), u - window))
  BY <1>3, <1>4, PrunedTwice DEF InWindow
<1> HIDE DEF L, r
<1>6. HitsUntil(L, t)
  BY <1>1, <1>2 DEF HitsUntil
<1>7. Len(Pruned(Kept(L, x), u - window)) = Len(Pruned(Kept(hits, x), u - window))
  BY <1>1, <1>5 DEF Kept
<1> QED
  BY <1>6, <1>7 DEF L, Count, InWindow

\* So does collecting: what it drops has left the window.
LEMMA CollectedCounts ==
    ASSUME NEW hits, NEW t \in Nat, HitsUntil(hits, t), NEW x,
           NEW u \in Nat, t <= u, NEW window \in Nat
    PROVE  /\ HitsUntil(Collected(hits, t, window), t)
           /\ Count(Collected(hits, t, window), x, u, window) = Count(hits, x, u, window)
<1> DEFINE C == Collected(hits, t, window)
           stays(y) == y \in DOMAIN hits /\ hits[y] # <<>> /\ hits[y][Len(hits[y])] > t - window
<1>1. \A y : y \in DOMAIN C <=> stays(y)
  BY DEF Collected
<1>2. \A y \in DOMAIN C : C[y] = hits[y]
  BY DEF Collected
<1>3. HitsUntil(C, t)
  <2> HIDE DEF C
  <2> QED
    BY <1>1, <1>2 DEF HitsUntil
<1>4. CASE stays(x)
  <2>1. Kept(C, x) = Kept(hits, x)
    <3> HIDE DEF C
    <3> QED
      BY <1>1, <1>2, <1>4 DEF Kept
  <2> QED
    BY <1>3, <2>1 DEF Count, InWindow
<1>5. CASE ~stays(x)
  <2> DEFINE s == Kept(hits, x)
  <2>1. Kept(C, x) = <<>>
    <3> HIDE DEF C
    <3> QED
      BY <1>1, <1>5 DEF Kept
  <2>2. Ascending(s)
    BY KeptAscends
  <2>3. Len(s) \in Nat /\ \A i \in 1..Len(s) : s[i] \in Nat
    BY <2>2 DEF Ascending
  <2>4. s # <<>> => s[Len(s)] <= t - window /\ Len(s) > 0
    <3>1. s # <<>> => x \in DOMAIN hits /\ s = hits[x]
      BY DEF Kept
    <3>2. s # <<>> => Len(s) > 0
      BY <2>2, <2>3, EmptySeq DEF Ascending
    <3> HIDE DEF s
    <3>3. s # <<>> => s[Len(s)] \in Nat
      BY <2>3, <3>2
    <3> QED
      BY <1>5, <3>1, <3>2, <3>3
  <2> HIDE DEF s
  <2>5. \A i \in 1..Len(s) : ~(s[i] > u - window)
    <3>1. s = <<>> => 1..Len(s) = {}
      BY EmptySeq
    <3>2. \A i \in 1..Len(s) : s # <<>> => s[i] <= s[Len(s)] /\ s[Len(s)] \in Nat
      BY <2>2, <2>3, <2>4 DEF Ascending
    <3> QED
      BY <2>3, <2>4, <3>1, <3>2
  <2>6. Fresh(s, u - window) = {} /\ Fresh(<<>>, u - window) = {}
    BY <2>5, EmptySeq DEF Fresh
  <2>7. Pruned(s, u - window) = <<>> /\ Pruned(<<>>, u - window) = <<>>
    BY <2>6 DEF Pruned
  <2> QED
    BY <1>3, <2>1, <2>7 DEF Count, InWindow, s
<1> QED
  BY <1>4, <1>5

\* Recording adds one hit of that key, which counts until it leaves the window.
LEMMA RecordedCounts ==
    ASSUME NEW hits, NEW t \in Nat, HitsUntil(hits, t), NEW k, NEW x,
           NEW u \in Nat, t <= u, NEW window \in Nat
    PROVE  /\ HitsUntil(Recorded(hits, k, t, window), t)
           /\ Count(Recorded(hits, k, t, window), x, u, window)
                 = Count(hits, x, u, window) + (IF x = k /\ t > u - window THEN 1 ELSE 0)
<1> DEFINE r == InWindow(hits, k, t, window)
           B == [y \in DOMAIN hits \cup {k} |-> IF y = k THEN Append(r, t) ELSE hits[y]]
<1>1. Ascending(r) /\ \A i \in 1..Len(r) : r[i] <= t
  BY CountIsNatural
<1>2. Ascending(Kept(hits, k))
  BY KeptAscends
<1>3. t - window \in Int /\ u - window \in Int /\ t - window <= u - window
  OBVIOUS
<1>4. Len(Pruned(r, u - window)) = Len(Pruned(Kept(hits, k), u - window))
  BY <1>2, <1>3, PrunedTwice DEF InWindow
<1>5. Recorded(hits, k, t, window) = Collected(B, t, window)
  BY DEF Recorded
<1>6. Kept(B, k) = Append(r, t) /\ \A y : y # k => Kept(B, y) = Kept(hits, y)
  BY DEF Kept
<1>7. HitsUntil(B, t)
  <2> HIDE DEF r
  <2>1. Ascending(Append(r, t)) /\ \A i \in 1..Len(Append(r, t)) : Append(r, t)[i] <= t
    <3>1. Len(r) \in Nat
      BY <1>1 DEF Ascending
    <3> QED
      BY <1>1, <3>1, AppendAscends
  <2> QED
    BY <2>1 DEF HitsUntil
<1> HIDE DEF B, r
<1>8. Len(Pruned(Append(r, t), u - window))
         = Len(Pruned(r, u - window)) + (IF t > u - window THEN 1 ELSE 0)
  BY <1>1, <1>3, PrunedAppend
<1>9. Count(B, x, u, window)
         = Count(hits, x, u, window) + (IF x = k /\ t > u - window THEN 1 ELSE 0)
  <2>1. CASE x = k
    BY <1>4, <1>6, <1>8, <2>1 DEF Count, InWindow
  <2>2. CASE x # k
    <3>1. Count(hits, x, u, window) \in Nat
      BY CountIsNatural
    <3>2. Count(B, x, u, window) = Count(hits, x, u, window)
      BY <1>6, <2>2 DEF Count, InWindow
    <3> QED
      BY <2>2, <3>1, <3>2
  <2> QED
    BY <2>1, <2>2
<1> QED
  BY <1>5, <1>7, <1>9, CollectedCounts

-----------------------------------------------------------------------------
\* What a client that is turned away is told.  The deques hold moments that have
\* passed, and the flood limiter's, which records only what it lets through, are
\* never longer than the limit.
LimiterInv ==
    /\ now \in Nat
    /\ HitsUntil(flood, now) /\ HitsUntil(failures, now)
    /\ \A k \in DOMAIN flood : Len(flood[k]) <= FloodLimit

LEMMA LimitsAreNumbers ==
    /\ FloodLimit \in Nat \ {0} /\ FloodWindow \in Nat \ {0}
    /\ FailLimit \in Nat \ {0} /\ FailWindow \in Nat \ {0}
BY AccountsAssumption

LEMMA StillHits ==
    ASSUME NEW hits, NEW t \in Nat, HitsUntil(hits, t), NEW k, NEW window \in Nat
    PROVE  /\ HitsUntil(Looked(hits, k, t, window), t)
           /\ HitsUntil(Recorded(hits, k, t, window), t)
<1>1. \A u \in Nat : t <= u => HitsUntil(Looked(hits, k, t, window), t)
  BY LookedCounts
<1>2. \A u \in Nat : t <= u => HitsUntil(Recorded(hits, k, t, window), t)
  BY RecordedCounts
<1>3. t <= t
  OBVIOUS
<1> QED
  BY <1>1, <1>2, <1>3

LEMMA LaterHits ==
    ASSUME NEW hits, NEW t \in Nat, HitsUntil(hits, t), NEW u \in Nat, t <= u
    PROVE  HitsUntil(hits, u)
<1>1. \A k \in DOMAIN hits : Len(hits[k]) \in Nat /\ \A i \in 1..Len(hits[k]) : hits[k][i] \in Nat
  BY DEF HitsUntil, Ascending
<1> QED
  BY <1>1 DEF HitsUntil

\* The flood limiter counts a request only if it is let through.
LEMMA AllowedIsLimited ==
    ASSUME NEW hits, NEW t \in Nat, HitsUntil(hits, t), NEW k,
           NEW limit \in Nat \ {0}, NEW window \in Nat,
           \A y \in DOMAIN hits : Len(hits[y]) <= limit
    PROVE  /\ HitsUntil(Allowed(hits, k, t, limit, window), t)
           /\ \A y \in DOMAIN Allowed(hits, k, t, limit, window) :
                 Len(Allowed(hits, k, t, limit, window)[y]) <= limit
<1> DEFINE r == InWindow(hits, k, t, window)
<1>1. Ascending(r) /\ Len(r) \in Nat /\ \A i \in 1..Len(r) : r[i] <= t
  BY CountIsNatural DEF Count
<1>2. Len(r) <= Len(Kept(hits, k)) /\ Len(Kept(hits, k)) \in Nat
  BY KeptAscends, PrunedAscends DEF InWindow, Ascending
<1>3. CASE Blocked(hits, k, t, limit, window)
  <2> DEFINE L == Looked(hits, k, t, window)
  <2>1. Allowed(hits, k, t, limit, window) = L
    BY <1>3 DEF Allowed
  <2>2. HitsUntil(L, t)
    BY StillHits
  <2>3. DOMAIN L = DOMAIN hits /\ \A y \in DOMAIN hits : L[y] = IF y = k THEN r ELSE hits[y]
    BY DEF Looked
  <2>4. k \in DOMAIN hits => Len(r) <= limit
    BY <1>1, <1>2 DEF Kept
  <2> HIDE DEF L, r
  <2>5. \A y \in DOMAIN L : Len(L[y]) <= limit
    BY <2>3, <2>4
  <2> QED
    BY <2>1, <2>2, <2>5
<1>4. CASE ~Blocked(hits, k, t, limit, window)
  <2> DEFINE R == Recorded(hits, k, t, window)
  <2>1. Allowed(hits, k, t, limit, window) = R
    BY <1>4 DEF Allowed
  <2>2. HitsUntil(R, t)
    BY StillHits
  <2>3. \A y \in DOMAIN R : IF y = k THEN R[y] = Append(r, t)
                                     ELSE y \in DOMAIN hits /\ R[y] = hits[y]
    BY DEF Recorded, Collected
  <2>4. Len(r) < limit
    BY <1>1, <1>4 DEF Blocked
  <2>5. Len(Append(r, t)) = Len(r) + 1
    BY <1>1, AppendAscends
  <2> HIDE DEF R, r
  <2>6. \A y \in DOMAIN R : Len(R[y]) <= limit
    BY <1>1, <2>3, <2>4, <2>5
  <2> QED
    BY <2>1, <2>2, <2>6
<1> QED
  BY <1>3, <1>4

LEMMA InitLimits == Init => LimiterInv
BY DEF Init, NoHits, LimiterInv, HitsUntil

LEMMA NextLimits == LimiterInv /\ [Next]_vars => LimiterInv'
<1> SUFFICES ASSUME LimiterInv, [Next]_vars PROVE LimiterInv'
  OBVIOUS
<1> USE LimitsAreNumbers
<1>1. CASE UNCHANGED <<now, flood, failures>>
  BY <1>1 DEF LimiterInv
<1>2. ASSUME NEW c \in Codes, Issue(c) \/ Revoke(c) PROVE LimiterInv'
  BY <1>1, <1>2 DEF Issue, Revoke
<1>3. ASSUME NEW h \in Tools, NEW e \in Emails, RunTool(h, e) PROVE LimiterInv'
  BY <1>1, <1>3 DEF RunTool
<1>4. ASSUME NEW h \in Requests, NEW k \in Clients, NEW c \in Codes \cup {Bogus},
             NEW e \in Emails, Arrive(h, k, c, e)
      PROVE  LimiterInv'
  <2>1. /\ now' = now /\ flood' = Allowed(flood, k, now, FloodLimit, FloodWindow)
        /\ failures' = failures \/ failures' = Looked(failures, k, now, FailWindow)
    BY <1>4 DEF Arrive
  <2>2. HitsUntil(flood', now) /\ \A y \in DOMAIN flood' : Len(flood'[y]) <= FloodLimit
    BY <2>1, AllowedIsLimited DEF LimiterInv
  <2>3. HitsUntil(failures', now)
    BY <2>1, StillHits DEF LimiterInv
  <2> QED
    BY <2>1, <2>2, <2>3 DEF LimiterInv
<1>5. ASSUME NEW h \in Handlers, Redeem(h) \/ Lookup(h) \/ Insert(h) \/ Seed(h) PROVE LimiterInv'
  BY <1>1, <1>5 DEF Redeem, Lookup, Insert, Seed
<1>6. ASSUME NEW h \in Handlers, Explain(h) PROVE LimiterInv'
  <2>1. now' = now /\ flood' = flood /\ failures' = Recorded(failures, from[h], now, FailWindow)
    BY <1>6 DEF Explain
  <2>2. HitsUntil(failures', now)
    BY <2>1, StillHits DEF LimiterInv
  <2> QED
    BY <2>1, <2>2 DEF LimiterInv
<1>7. CASE Tick
  <2>1. now' = now + 1 /\ flood' = flood /\ failures' = failures
    BY <1>7 DEF Tick
  <2> QED
    BY <2>1, LaterHits DEF LimiterInv
<1>8. CASE CrashApi
  BY <1>8 DEF CrashApi, NoHits, LimiterInv, HitsUntil
<1>9. CASE UNCHANGED vars
  BY <1>1, <1>9 DEF vars
<1> QED
  BY <1>2, <1>3, <1>4, <1>5, <1>6, <1>7, <1>8, <1>9 DEF Next, Step

\* Until the oldest hit leaves the window nothing changes.
LEMMA BlockedUntil ==
    ASSUME NEW hits, NEW t \in Nat, HitsUntil(hits, t), NEW k,
           NEW limit \in Nat \ {0}, NEW window \in Nat,
           NEW u \in t..(t + RetryAfter(hits, k, t, limit, window) - 1)
    PROVE  Blocked(hits, k, u, limit, window)
<1> DEFINE s == Kept(hits, k)
           r == InWindow(hits, k, t, window)
<1>1. Ascending(s) /\ Len(s) \in Nat /\ \A i \in 1..Len(s) : s[i] \in Nat
  BY KeptAscends DEF Ascending
<1>2. Ascending(r) /\ Len(r) \in Nat
  BY CountIsNatural DEF Count
<1>3. PICK d \in 0..Len(s) : \A i \in 1..Len(s) : s[i] > t - window <=> i > d
  <2>1. t - window \in Int
    OBVIOUS
  <2> HIDE DEF s
  <2> QED
    BY <1>1, <2>1, CutExists
<1>4. Len(r) = Len(s) - d /\ \A i \in 1..(Len(s) - d) : r[i] = s[i + d]
  <2>1. t - window \in Int /\ r = Pruned(s, t - window)
    BY DEF InWindow
  <2> HIDE DEF s, r
  <2> QED
    BY <1>1, <1>3, <2>1, RestFrom
<1> DEFINE w == RetryAfter(hits, k, t, limit, window)
<1>5. w = IF Len(r) < limit \/ Head(r) + window < t THEN 0 ELSE Head(r) + window - t
  BY DEF RetryAfter
<1>6. Len(r) >= limit
  <2> SUFFICES ASSUME Len(r) < limit PROVE FALSE
    BY <1>2
  <2>1. w = 0
    BY <1>5
  <2> HIDE DEF w
  <2> QED
    BY <2>1 DEF w
<1>7. Head(r) = s[1 + d] /\ 1 + d \in 1..Len(s)
  <2>1. 1 \in 1..(Len(s) - d)
    BY <1>1, <1>2, <1>4, <1>6
  <2>2. Head(r) = r[1]
    BY <1>2, <1>4, <2>1 DEF Ascending
  <2> QED
    BY <1>1, <1>4, <2>1, <2>2
<1> HIDE DEF s, r, w
<1>8. u \in Nat /\ t <= u /\ u - window < s[1 + d]
  <2>1. s[1 + d] \in Nat
    BY <1>1, <1>7
  <2>2. w = 0 \/ w = s[1 + d] + window - t
    BY <1>5, <1>7
  <2>3. u \in t..(t + w - 1)
    BY DEF w
  <2> QED
    BY <2>1, <2>2, <2>3
<1>9. \A i \in 1..Len(s) : s[i] > u - window <=> i > d
  <2>1. \A i \in 1..Len(s) : i > d => s[1 + d] <= s[i]
    BY <1>1, <1>7 DEF Ascending
  <2> QED
    BY <1>1, <1>3, <1>7, <1>8, <2>1
<1>10. Len(Pruned(s, u - window)) = Len(s) - d
  BY <1>1, <1>8, <1>9, RestFrom
<1> QED
  BY <1>4, <1>6, <1>10 DEF Blocked, InWindow, s

\* Of no more hits than the limit, one is gone then.
LEMMA FreeAt ==
    ASSUME NEW hits, NEW t \in Nat, HitsUntil(hits, t), NEW k,
           NEW limit \in Nat \ {0}, NEW window \in Nat \ {0},
           k \in DOMAIN hits => Len(hits[k]) <= limit
    PROVE  ~Blocked(hits, k, t + RetryAfter(hits, k, t, limit, window), limit, window)
<1>0. \A u : InWindow(hits, k, u, window) = Pruned(Kept(hits, k), u - window)
  BY DEF InWindow
<1> DEFINE s == Kept(hits, k)
           r == InWindow(hits, k, t, window)
           w == RetryAfter(hits, k, t, limit, window)
<1>1. Ascending(s) /\ Len(s) \in Nat /\ \A i \in 1..Len(s) : s[i] \in Nat
  BY KeptAscends DEF Ascending
<1>2. Ascending(r) /\ Len(r) \in Nat
  BY CountIsNatural DEF Count
<1>3. PICK d \in 0..Len(s) : \A i \in 1..Len(s) : s[i] > t - window <=> i > d
  <2>1. t - window \in Int
    OBVIOUS
  <2> HIDE DEF s
  <2> QED
    BY <1>1, <2>1, CutExists
<1>4. Len(r) = Len(s) - d /\ \A i \in 1..(Len(s) - d) : r[i] = s[i + d]
  <2>1. t - window \in Int /\ r = Pruned(s, t - window)
    BY DEF InWindow
  <2> HIDE DEF s, r
  <2> QED
    BY <1>1, <1>3, <2>1, RestFrom
<1>5. w = IF Len(r) < limit \/ Head(r) + window < t THEN 0 ELSE Head(r) + window - t
  BY DEF RetryAfter
<1>6. Len(s) <= limit
  BY EmptySeq DEF Kept
<1>7. CASE Len(r) < limit
  <2>1. w = 0
    BY <1>5, <1>7
  <2>2. t + w = t
    <3> HIDE DEF w
    <3> QED
      BY <2>1
  <2> QED
    BY <1>2, <1>7, <2>2 DEF Blocked
<1>8. CASE Len(r) >= limit
  <2>1. d = 0 /\ Len(s) = limit
    BY <1>1, <1>4, <1>6, <1>8
  <2>2. Head(r) = s[1] /\ 1 \in 1..Len(s)
    <3>1. r[1] = s[1 + d] /\ 1 + d = 1 /\ 1 \in 1..Len(s)
      BY <1>1, <1>4, <2>1
    <3> QED
      BY <1>2, <1>4, <2>1, <3>1 DEF Ascending
  <2> HIDE DEF s, r, w
  <2>3. s[1] \in Nat /\ s[1] > t - window
    BY <1>1, <1>3, <2>1, <2>2
  <2>4. w = s[1] + window - t
    BY <1>5, <1>8, <2>2, <2>3, <1>2
  <2>5. (t + w) - window = s[1]
    BY <2>3, <2>4
  <2> DEFINE c == s[1]
  <2>c. c \in Int
    BY <2>3
  <2> HIDE DEF c
  <2>6. PICK e \in 0..Len(s) : \A i \in 1..Len(s) : s[i] > c <=> i > e
    BY <1>1, <2>c, CutExists
  <2>7. e >= 1
    <3>1. ~(s[1] > c)
      BY <2>3 DEF c
    <3> QED
      BY <2>2, <2>6, <3>1
  <2>8. Len(Pruned(s, c)) = Len(s) - e
    BY <1>1, <2>c, <2>6, RestFrom
  <2>9. InWindow(hits, k, t + w, window) = Pruned(s, (t + w) - window)
    BY <1>0 DEF s
  <2>10. Len(s) - e \in Nat
    BY <1>1
  <2>11. ~(Len(InWindow(hits, k, t + w, window)) >= limit)
    BY <1>1, <2>1, <2>5, <2>7, <2>8, <2>9, <2>10 DEF c
  <2> QED
    BY <2>11 DEF Blocked, w
<1> QED
  BY <1>2, <1>7, <1>8

\* The wait a client is told is never too long, and for the flood limiter, which
\* counts only what it lets through, not too short either (retry_after).
THEOREM WaitsAreExact == Spec => []WaitIsExact
<1>1. LimiterInv => WaitIsExact
  <2> SUFFICES ASSUME LimiterInv, NEW k \in Clients
      PROVE  LET flooded == RetryAfter(flood, k, now, FloodLimit, FloodWindow)
                 failing == RetryAfter(failures, k, now, FailLimit, FailWindow)
             IN  /\ ~Blocked(flood, k, now + flooded, FloodLimit, FloodWindow)
                 /\ \A t \in now..(now + flooded - 1) :
                       Blocked(flood, k, t, FloodLimit, FloodWindow)
                 /\ \A t \in now..(now + failing - 1) :
                       Blocked(failures, k, t, FailLimit, FailWindow)
    BY DEF WaitIsExact
  <2>1. ~Blocked(flood, k, now + RetryAfter(flood, k, now, FloodLimit, FloodWindow),
                 FloodLimit, FloodWindow)
    BY FreeAt, LimitsAreNumbers DEF LimiterInv
  <2>2. \A t \in now..(now + RetryAfter(flood, k, now, FloodLimit, FloodWindow) - 1) :
           Blocked(flood, k, t, FloodLimit, FloodWindow)
    BY BlockedUntil, LimitsAreNumbers DEF LimiterInv
  <2>3. \A t \in now..(now + RetryAfter(failures, k, now, FailLimit, FailWindow) - 1) :
           Blocked(failures, k, t, FailLimit, FailWindow)
    BY BlockedUntil, LimitsAreNumbers DEF LimiterInv
  <2> QED
    BY <2>1, <2>2, <2>3
<1> QED
  BY <1>1, InitLimits, NextLimits, PTL DEF Spec

-----------------------------------------------------------------------------
\* How many guesses a window holds.  Each failure is counted when it is answered,
\* so what can go wrong is bounded by the count and by who is on his way to add
\* to it: a request that was let in while the count was below the limit.
Guessing   == {"redeem", "explain"}
Pending(k) == {h \in Requests : pc[h] \in Guessing /\ from[h] = k}
Overlap    == FailLimit - 1 + Cardinality(Requests)

\* Overlap: the requests under way when the limit is reached.  FewPending: what
\* counts now and what may yet be added stay below it.  FewForgotten: failures
\* the limiter does not count any more, at this or a later moment, are those a
\* crash made it forget.
ToolsDoNotGuess == \A h \in Tools : pc[h] \notin Guessing
FailedBefore ==
    /\ failed \in [Clients -> Seq(Nat)]
    /\ \A k \in Clients : \A i \in 1..Len(failed[k]) : failed[k][i] <= now
FewPending ==
    \A k \in Clients :
       Count(failures, k, now, FailWindow) + Cardinality(Pending(k)) <= Overlap
FewForgotten ==
    \A k \in Clients, t \in Nat :
       t >= now => Cardinality(FailuresIn(k, t))
                      <= Count(failures, k, t, FailWindow) + Overlap * crashes

GuessInv == TypeOK /\ LimiterInv /\ ToolsDoNotGuess /\ FailedBefore /\ FewPending /\ FewForgotten

LEMMA OverlapIsNatural ==
    /\ Overlap \in Nat /\ IsFiniteSet(Requests) /\ Cardinality(Requests) \in Nat
BY LimitsAreNumbers, AccountsAssumption, FS_CardinalityType DEF Overlap

LEMMA PendingIsFinite ==
    ASSUME NEW k PROVE IsFiniteSet(Pending(k)) /\ Cardinality(Pending(k)) \in Nat
BY OverlapIsNatural, FS_Subset, FS_CardinalityType DEF Pending

LEMMA FailuresAreFinite ==
    ASSUME FailedBefore, NEW k \in Clients, NEW t \in Nat
    PROVE  IsFiniteSet(FailuresIn(k, t)) /\ Cardinality(FailuresIn(k, t)) \in Nat
<1>1. Len(failed[k]) \in Nat
  BY DEF FailedBefore
<1>2. IsFiniteSet(1..Len(failed[k])) /\ FailuresIn(k, t) \subseteq 1..Len(failed[k])
  BY <1>1, FS_Interval DEF FailuresIn
<1> QED
  BY <1>2, FS_Subset, FS_CardinalityType

\* Fewer and fewer hits count as time passes.
LEMMA CountFalls ==
    ASSUME NEW hits, NEW t \in Nat, HitsUntil(hits, t), NEW k,
           NEW u \in Nat, NEW v \in Nat, u <= v, NEW window \in Nat
    PROVE  Count(hits, k, v, window) <= Count(hits, k, u, window)
<1> DEFINE s == Kept(hits, k)
           b == u - window
           c == v - window
<1>1. Ascending(s)
  BY KeptAscends
<1>2. b \in Int /\ c \in Int /\ b <= c
  OBVIOUS
<1>3. InWindow(hits, k, u, window) = Pruned(s, b) /\ InWindow(hits, k, v, window) = Pruned(s, c)
  BY DEF InWindow
<1> HIDE DEF s, b, c
<1>4. Len(Pruned(Pruned(s, b), c)) = Len(Pruned(s, c))
  BY <1>1, <1>2, PrunedTwice
<1>5. Ascending(Pruned(s, b))
  BY <1>1, <1>2, PrunedAscends
<1>6. Len(Pruned(Pruned(s, b), c)) <= Len(Pruned(s, b))
  BY <1>2, <1>5, PrunedAscends
<1> QED
  BY <1>3, <1>4, <1>6 DEF Count

LEMMA FewCount ==
    ASSUME GuessInv, NEW k \in Clients
    PROVE  /\ Count(failures, k, now, FailWindow) \in Nat
           /\ Count(failures, k, now, FailWindow) <= Overlap
<1>1. now \in Nat /\ HitsUntil(failures, now)
  BY DEF GuessInv, LimiterInv
<1>2. Count(failures, k, now, FailWindow) \in Nat
  BY <1>1, LimitsAreNumbers, CountIsNatural
<1>3. Count(failures, k, now, FailWindow) + Cardinality(Pending(k)) <= Overlap
  BY DEF GuessInv, FewPending
<1>4. Cardinality(Pending(k)) \in Nat /\ Overlap \in Nat
  BY PendingIsFinite, OverlapIsNatural
<1> QED
  BY <1>2, <1>3, <1>4

LEMMA OverlapTimes ==
    ASSUME NEW n \in Nat
    PROVE  /\ Overlap * n \in Nat /\ Overlap * 0 = 0
           /\ Overlap * (n + 1) = Overlap * n + Overlap
           /\ Overlap * (1 + n) = Overlap * n + Overlap
BY OverlapIsNatural

\* What neither a failure nor the clock nor a crash touches.
LEMMA GuessesUndisturbed ==
    ASSUME GuessInv, LimiterInv', TypeOK', ToolsDoNotGuess',
           UNCHANGED <<now, failed, crashes>>,
           \A k \in Clients, t \in Nat :
              t >= now => Count(failures', k, t, FailWindow) = Count(failures, k, t, FailWindow),
           \A k \in Clients : \/ Pending(k)' \subseteq Pending(k)
                              \/ Count(failures, k, now, FailWindow) < FailLimit
    PROVE  GuessInv'
<1> USE LimitsAreNumbers, OverlapIsNatural
<1>1. now \in Nat /\ now >= now
  BY DEF GuessInv, TypeOK
<1>2. FailedBefore'
  BY DEF GuessInv, FailedBefore
<1>3. FewPending'
  <2> SUFFICES ASSUME NEW k \in Clients
      PROVE  Count(failures', k, now, FailWindow) + Cardinality(Pending(k)') <= Overlap
    BY DEF FewPending
  <2>1. Count(failures', k, now, FailWindow) = Count(failures, k, now, FailWindow)
    BY <1>1
  <2>2. Count(failures, k, now, FailWindow) \in Nat
    BY <1>1, CountIsNatural DEF GuessInv, LimiterInv
  <2>3. Count(failures, k, now, FailWindow) + Cardinality(Pending(k)) <= Overlap
    BY DEF GuessInv, FewPending
  <2>4. CASE Pending(k)' \subseteq Pending(k)
    <3>1. IsFiniteSet(Pending(k)) /\ Cardinality(Pending(k)) \in Nat
      BY PendingIsFinite
    <3>2. Cardinality(Pending(k)') <= Cardinality(Pending(k)) /\ Cardinality(Pending(k)') \in Nat
      BY <2>4, <3>1, FS_Subset, FS_CardinalityType
    <3> QED
      BY <2>1, <2>2, <2>3, <3>1, <3>2
  <2>5. CASE Count(failures, k, now, FailWindow) < FailLimit
    <3>1. Pending(k)' \subseteq Requests
      BY DEF Pending
    <3>2. Cardinality(Pending(k)') <= Cardinality(Requests) /\ Cardinality(Pending(k)') \in Nat
      BY <3>1, FS_Subset, FS_CardinalityType
    <3> QED
      BY <2>1, <2>2, <2>5, <3>2 DEF Overlap
  <2> QED
    BY <2>4, <2>5
<1>4. FewForgotten'
  <2>1. \A k \in Clients, t \in Nat : FailuresIn(k, t)' = FailuresIn(k, t)
    BY DEF FailuresIn
  <2> QED
    BY <2>1 DEF GuessInv, FewForgotten
<1> QED
  BY <1>2, <1>3, <1>4 DEF GuessInv

LEMMA NothingCounts ==
    ASSUME NEW k, NEW t, NEW window PROVE Count(NoHits, k, t, window) = 0
<1>1. Kept(NoHits, k) = <<>> /\ Len(<<>>) = 0
  BY EmptySeq DEF Kept, NoHits
<1>2. Fresh(<<>>, t - window) = {}
  BY EmptySeq DEF Fresh
<1> QED
  BY <1>1, <1>2 DEF Count, InWindow, Pruned

LEMMA InitGuesses == Init => GuessInv
<1> SUFFICES ASSUME Init PROVE GuessInv
  OBVIOUS
<1>0. TypeOK /\ LimiterInv /\ now = 1 /\ crashes = 0 /\ failures = NoHits
  BY InitTypes, InitLimits DEF Init
<1>1. \A h \in Handlers : pc[h] \notin Guessing
  BY DEF Init, Guessing
<1>2. ToolsDoNotGuess
  BY <1>1, HandlersSplit DEF ToolsDoNotGuess
<1>3. FailedBefore /\ \A k \in Clients : Len(failed[k]) = 0
  BY EmptySeq DEF Init, FailedBefore
<1>4. \A k \in Clients : Pending(k) = {}
  BY <1>1, HandlersSplit DEF Pending
<1>5. FewPending
  BY <1>0, <1>4, NothingCounts, OverlapIsNatural, FS_EmptySet DEF FewPending
<1>6. \A k \in Clients, t \in Nat : FailuresIn(k, t) = {}
  BY <1>3 DEF FailuresIn
<1>7. FewForgotten
  <2>1. Overlap * crashes = 0
    BY <1>0, OverlapTimes
  <2> QED
    BY <1>0, <1>6, <2>1, NothingCounts, FS_EmptySet DEF FewForgotten
<1> QED
  BY <1>0, <1>2, <1>3, <1>5, <1>7 DEF GuessInv

\* A failure is counted as it stops being pending, and it is one more of those
\* the window holds.
LEMMA ExplainGuesses ==
    ASSUME GuessInv, LimiterInv', TypeOK', NEW h \in Handlers, Explain(h)
    PROVE  GuessInv'
<1> USE LimitsAreNumbers, OverlapIsNatural, HandlersSplit
<1> DEFINE me == from[h]
<1>1. /\ now' = now /\ crashes' = crashes /\ from' = from
      /\ pc[h] = "explain" /\ pc' = [pc EXCEPT ![h] = "idle"]
      /\ failures' = Recorded(failures, me, now, FailWindow)
      /\ failed' = [failed EXCEPT ![me] = Append(@, now)]
  BY DEF Explain, Goto
<1>2. /\ now \in Nat /\ now >= now /\ crashes \in Nat
      /\ me \in Clients /\ pc \in [Handlers -> Places]
      /\ failed \in [Clients -> Seq(Nat)]
      /\ HitsUntil(failures, now)
  BY DEF GuessInv, TypeOK, LimiterInv, FailedBefore
<1> HIDE DEF me
<1>3. h \in Requests
  BY <1>1 DEF Handlers, GuessInv, ToolsDoNotGuess, Guessing
<1>4. ToolsDoNotGuess'
  BY <1>1, <1>2 DEF GuessInv, ToolsDoNotGuess, Guessing
<1>5. /\ Append(failed[me], now) \in Seq(Nat)
      /\ Len(failed[me]) \in Nat
      /\ Len(Append(failed[me], now)) = Len(failed[me]) + 1
      /\ \A i \in 1..Len(failed[me]) : Append(failed[me], now)[i] = failed[me][i]
      /\ Append(failed[me], now)[Len(failed[me]) + 1] = now
  BY <1>2, AppendProperties
<1>6. /\ failed' \in [Clients -> Seq(Nat)] /\ failed'[me] = Append(failed[me], now)
      /\ \A k \in Clients : k # me => failed'[k] = failed[k]
  BY <1>1, <1>2, <1>5
<1>7. FailedBefore'
  <2> SUFFICES ASSUME NEW k \in Clients, NEW i \in 1..Len(failed'[k])
      PROVE  failed'[k][i] <= now
    BY <1>1, <1>6 DEF FailedBefore
  <2>1. CASE k = me
    <3>1. i = Len(failed[me]) + 1 \/ i \in 1..Len(failed[me])
      BY <1>5, <1>6, <2>1
    <3>2. \A j \in 1..Len(failed[me]) : failed[me][j] <= now
      BY <1>2 DEF GuessInv, FailedBefore
    <3> QED
      BY <1>2, <1>5, <1>6, <2>1, <3>1, <3>2
  <2>2. CASE k # me
    BY <1>6, <2>2 DEF GuessInv, FailedBefore
  <2> QED
    BY <2>1, <2>2
<1>8. FewPending'
  <2> SUFFICES ASSUME NEW k \in Clients
      PROVE  Count(failures', k, now, FailWindow) + Cardinality(Pending(k)') <= Overlap
    BY <1>1 DEF FewPending
  <2>1. Count(failures', k, now, FailWindow)
           = Count(failures, k, now, FailWindow) + (IF k = me THEN 1 ELSE 0)
    <3>1. now > now - FailWindow
      BY <1>2
    <3> QED
      BY <1>1, <1>2, <3>1, RecordedCounts
  <2>2. Pending(k)' = IF k = me THEN Pending(k) \ {h} ELSE Pending(k)
    BY <1>1, <1>2 DEF Pending, Guessing, me
  <2>3. k = me => h \in Pending(k)
    BY <1>1, <1>3 DEF Pending, Guessing, me
  <2>4. IsFiniteSet(Pending(k)) /\ Cardinality(Pending(k)) \in Nat
    BY PendingIsFinite
  <2>5. k = me => Cardinality(Pending(k) \ {h}) = Cardinality(Pending(k)) - 1
    BY <2>3, <2>4, FS_RemoveElement
  <2>6. Count(failures, k, now, FailWindow) \in Nat
    BY <1>2, CountIsNatural
  <2>7. Count(failures, k, now, FailWindow) + Cardinality(Pending(k)) <= Overlap
    BY DEF GuessInv, FewPending
  <2> QED
    BY <2>1, <2>2, <2>4, <2>5, <2>6, <2>7
<1>9. FewForgotten'
  <2> SUFFICES ASSUME NEW k \in Clients, NEW t \in Nat, t >= now
      PROVE  Cardinality(FailuresIn(k, t)')
                <= Count(failures', k, t, FailWindow) + Overlap * crashes
    BY <1>1 DEF FewForgotten
  <2>1. Count(failures', k, t, FailWindow)
           = Count(failures, k, t, FailWindow)
                + (IF k = me /\ now > t - FailWindow THEN 1 ELSE 0)
    BY <1>1, <1>2, RecordedCounts
  <2>2. Cardinality(FailuresIn(k, t)) <= Count(failures, k, t, FailWindow) + Overlap * crashes
    BY DEF GuessInv, FewForgotten
  <2>3. IsFiniteSet(FailuresIn(k, t)) /\ Cardinality(FailuresIn(k, t)) \in Nat
    BY FailuresAreFinite DEF GuessInv
  <2>4. Count(failures, k, t, FailWindow) \in Nat /\ Overlap * crashes \in Nat
    BY <1>2, CountIsNatural, OverlapTimes
  <2>5. CASE k = me
    <3> DEFINE n == Len(failed[me])
    <3>1. FailuresIn(k, t)' = IF now > t - FailWindow THEN FailuresIn(k, t) \cup {n + 1}
                                                      ELSE FailuresIn(k, t)
      BY <1>2, <1>5, <1>6, <2>5 DEF FailuresIn
    <3>2. n + 1 \notin FailuresIn(k, t)
      BY <1>5, <2>5 DEF FailuresIn
    <3> HIDE DEF n
    <3>3. Cardinality(FailuresIn(k, t) \cup {n + 1}) = Cardinality(FailuresIn(k, t)) + 1
      BY <2>3, <3>2, FS_AddElement
    <3> QED
      BY <2>1, <2>2, <2>3, <2>4, <2>5, <3>1, <3>3
  <2>6. CASE k # me
    <3>1. FailuresIn(k, t)' = FailuresIn(k, t)
      BY <1>6, <2>6 DEF FailuresIn
    <3> QED
      BY <2>1, <2>2, <2>4, <2>6, <3>1
  <2> QED
    BY <2>5, <2>6
<1> QED
  BY <1>4, <1>7, <1>8, <1>9 DEF GuessInv

\* The clock only lets failures leave the window.
LEMMA TickGuesses ==
    ASSUME GuessInv, LimiterInv', TypeOK', Tick PROVE GuessInv'
<1> USE LimitsAreNumbers, OverlapIsNatural
<1>1. now' = now + 1 /\ UNCHANGED <<failures, pc, from, failed, crashes>>
  BY DEF Tick, httpVars
<1>2. now \in Nat /\ now <= now + 1 /\ HitsUntil(failures, now)
  BY DEF GuessInv, TypeOK, LimiterInv
<1>3. ToolsDoNotGuess'
  BY <1>1 DEF GuessInv, ToolsDoNotGuess
<1>4. FailedBefore'
  BY <1>1, <1>2 DEF GuessInv, FailedBefore
<1>5. FewPending'
  <2> SUFFICES ASSUME NEW k \in Clients
      PROVE  Count(failures, k, now + 1, FailWindow) + Cardinality(Pending(k)) <= Overlap
    BY <1>1 DEF FewPending, Pending
  <2>1. Count(failures, k, now + 1, FailWindow) <= Count(failures, k, now, FailWindow)
    BY <1>2, CountFalls
  <2>2. Count(failures, k, now, FailWindow) \in Nat /\ Count(failures, k, now + 1, FailWindow) \in Nat
    <3>1. now + 1 \in Nat
      BY <1>2
    <3> QED
      BY <1>2, <3>1, CountIsNatural
  <2> QED
    BY <2>1, <2>2, PendingIsFinite DEF GuessInv, FewPending
<1>6. FewForgotten'
  <2>1. \A k \in Clients, t \in Nat : FailuresIn(k, t)' = FailuresIn(k, t)
    BY <1>1 DEF FailuresIn
  <2>2. \A t \in Nat : t >= now + 1 => t >= now
    BY <1>2
  <2> QED
    BY <1>1, <2>1, <2>2 DEF GuessInv, FewForgotten
<1> QED
  BY <1>3, <1>4, <1>5, <1>6 DEF GuessInv

\* A crash forgets what was counted, which is never more than can overlap.
LEMMA CrashGuesses ==
    ASSUME GuessInv, LimiterInv', TypeOK', CrashApi PROVE GuessInv'
<1> USE LimitsAreNumbers, OverlapIsNatural, HandlersSplit
<1>1. /\ now' = now /\ failed' = failed /\ crashes' = crashes + 1 /\ failures' = NoHits
      /\ pc' = [h \in Handlers |-> IF h \in Requests THEN "idle" ELSE pc[h]]
  BY DEF CrashApi
<1>2. now \in Nat /\ now >= now /\ crashes \in Nat /\ HitsUntil(failures, now)
  BY DEF GuessInv, TypeOK, LimiterInv
<1>3. ToolsDoNotGuess'
  BY <1>1 DEF GuessInv, ToolsDoNotGuess, Guessing
<1>4. FailedBefore'
  BY <1>1 DEF GuessInv, FailedBefore
<1>5. \A k \in Clients : Pending(k)' = {}
  BY <1>1 DEF Pending, Guessing
<1>6. FewPending'
  BY <1>1, <1>5, NothingCounts, FS_EmptySet DEF FewPending
<1>7. FewForgotten'
  <2> SUFFICES ASSUME NEW k \in Clients, NEW t \in Nat, t >= now
      PROVE  Cardinality(FailuresIn(k, t)') <= 0 + Overlap * (crashes + 1)
    BY <1>1, NothingCounts DEF FewForgotten
  <2>1. FailuresIn(k, t)' = FailuresIn(k, t)
    BY <1>1 DEF FailuresIn
  <2>2. FailuresIn(k, t) \subseteq FailuresIn(k, now)
    <3>1. \A i \in 1..Len(failed[k]) : failed[k][i] \in Nat
      BY DEF GuessInv, FailedBefore
    <3> QED
      BY <1>2, <3>1 DEF FailuresIn
  <2>3. /\ Cardinality(FailuresIn(k, t)) <= Cardinality(FailuresIn(k, now))
        /\ Cardinality(FailuresIn(k, t)) \in Nat /\ Cardinality(FailuresIn(k, now)) \in Nat
    BY <1>2, <2>2, FailuresAreFinite, FS_Subset DEF GuessInv
  <2>4. Cardinality(FailuresIn(k, now))
           <= Count(failures, k, now, FailWindow) + Overlap * crashes
    BY <1>2 DEF GuessInv, FewForgotten
  <2>5. /\ Count(failures, k, now, FailWindow) \in Nat
        /\ Count(failures, k, now, FailWindow) <= Overlap
    BY FewCount
  <2>6. Overlap * (crashes + 1) = Overlap * crashes + Overlap /\ Overlap * crashes \in Nat
    BY <1>2, OverlapTimes
  <2> QED
    BY <2>1, <2>3, <2>4, <2>5, <2>6
<1> QED
  BY <1>3, <1>4, <1>6, <1>7 DEF GuessInv

LEMMA NextGuesses == GuessInv /\ [Next]_vars => GuessInv'
<1> SUFFICES ASSUME GuessInv, [Next]_vars PROVE GuessInv'
  OBVIOUS
<1> USE LimitsAreNumbers, OverlapIsNatural, HandlersSplit
<1>0. /\ TypeOK' /\ LimiterInv'
      /\ now \in Nat /\ pc \in [Handlers -> Places] /\ from \in [Handlers -> Clients]
      /\ HitsUntil(failures, now)
      /\ \A h \in Tools : pc[h] \notin Guessing
  BY NextTypes, NextLimits DEF GuessInv, TypeOK, LimiterInv, ToolsDoNotGuess
<1>1. CASE UNCHANGED <<now, failures, pc, from, failed, crashes>>
  <2>1. ToolsDoNotGuess' /\ \A k \in Clients : Pending(k)' = Pending(k)
    BY <1>0, <1>1 DEF ToolsDoNotGuess, Pending
  <2> QED
    BY <1>0, <1>1, <2>1, GuessesUndisturbed
<1>2. ASSUME NEW c \in Codes, Issue(c) \/ Revoke(c) PROVE GuessInv'
  BY <1>1, <1>2 DEF Issue, Revoke, httpVars
<1>3. ASSUME NEW h \in Tools, NEW e \in Emails, RunTool(h, e) PROVE GuessInv'
  <2>1. /\ UNCHANGED <<now, failures, from, failed, crashes>>
        /\ pc' = [pc EXCEPT ![h] = "lookup"]
    BY <1>3 DEF RunTool, Goto
  <2>2. ToolsDoNotGuess' /\ \A k \in Clients : Pending(k)' \subseteq Pending(k)
    BY <1>0, <2>1 DEF ToolsDoNotGuess, Pending, Guessing
  <2> QED
    BY <1>0, <2>1, <2>2, GuessesUndisturbed
<1>4. ASSUME NEW h \in Requests, NEW k \in Clients, NEW c \in Codes \cup {Bogus},
             NEW e \in Emails, Arrive(h, k, c, e)
      PROVE  GuessInv'
  <2>1. /\ UNCHANGED <<now, failed, crashes>> /\ pc[h] = "idle"
        /\ from' = [from EXCEPT ![h] = k]
        /\ failures' = failures \/ failures' = Looked(failures, k, now, FailWindow)
        /\ \/ pc' = pc
           \/ pc' = [pc EXCEPT ![h] = "redeem"] /\ ~FailuresBlock(k)
    BY <1>4 DEF Arrive, Goto
  <2>2. \A x \in Clients, t \in Nat :
           t >= now => Count(failures', x, t, FailWindow) = Count(failures, x, t, FailWindow)
    BY <1>0, <2>1, LookedCounts
  <2>3. ToolsDoNotGuess'
    BY <1>0, <2>1, AccountsAssumption DEF ToolsDoNotGuess, Guessing
  <2>4. \A x \in Clients : \/ Pending(x)' \subseteq Pending(x)
                           \/ Count(failures, x, now, FailWindow) < FailLimit
    <3>1. CASE pc' = pc
      BY <1>0, <2>1, <3>1 DEF Pending, Guessing
    <3>2. CASE pc' = [pc EXCEPT ![h] = "redeem"] /\ ~FailuresBlock(k)
      <4>1. Count(failures, k, now, FailWindow) < FailLimit
        <5>1. Count(failures, k, now, FailWindow) \in Nat
          BY <1>0, CountIsNatural
        <5> QED
          BY <3>2, <5>1 DEF FailuresBlock, Blocked, Count
      <4>2. \A x \in Clients : x # k => Pending(x)' \subseteq Pending(x)
        BY <1>0, <2>1, <3>2 DEF Pending, Guessing
      <4> QED
        BY <4>1, <4>2
    <3> QED
      BY <2>1, <3>1, <3>2
  <2> QED
    BY <1>0, <2>1, <2>2, <2>3, <2>4, GuessesUndisturbed
<1>5. ASSUME NEW h \in Handlers, Redeem(h) \/ Lookup(h) \/ Insert(h) \/ Seed(h) PROVE GuessInv'
  <2>1. /\ UNCHANGED <<now, failures, from, failed, crashes>>
        /\ \E p \in Places : /\ pc' = [pc EXCEPT ![h] = p]
                             /\ p \in Guessing => pc[h] \in Guessing
    <3>1. CASE Redeem(h)
      BY <1>0, <3>1 DEF Redeem, Goto, Places, Guessing
    <3>2. CASE Lookup(h)
      BY <1>0, <3>2 DEF Lookup, Goto, Places, Guessing, httpVars
    <3>3. CASE Insert(h)
      BY <1>0, <3>3 DEF Insert, Goto, Places, Guessing, httpVars
    <3>4. CASE Seed(h)
      BY <1>0, <3>4 DEF Seed, Goto, Places, Guessing, httpVars
    <3> QED
      BY <1>5, <3>1, <3>2, <3>3, <3>4
  <2>2. ToolsDoNotGuess' /\ \A k \in Clients : Pending(k)' \subseteq Pending(k)
    BY <1>0, <2>1 DEF ToolsDoNotGuess, Pending
  <2> QED
    BY <1>0, <2>1, <2>2, GuessesUndisturbed
<1>6. ASSUME NEW h \in Handlers, Explain(h) PROVE GuessInv'
  BY <1>0, <1>6, ExplainGuesses
<1>7. CASE Tick
  BY <1>0, <1>7, TickGuesses
<1>8. CASE CrashApi
  BY <1>0, <1>8, CrashGuesses
<1>9. CASE UNCHANGED vars
  BY <1>1, <1>9 DEF vars, httpVars
<1> QED
  BY <1>2, <1>3, <1>4, <1>5, <1>6, <1>7, <1>8, <1>9 DEF Next, Step

\* In any window the failed guesses of a client are bounded by those that could
\* overlap, once more for every crash (throttle_register asks when a request
\* arrives, record_invite_failure counts when it has failed).
THEOREM GuessesStayBounded == Spec => []GuessesAreBounded
<1>1. GuessInv => GuessesAreBounded
  <2> SUFFICES ASSUME GuessInv, NEW k \in Clients
      PROVE  Cardinality(FailuresIn(k, now)) <= Overlap * (1 + crashes)
    BY DEF GuessesAreBounded, Overlap
  <2>1. now \in Nat /\ now >= now /\ crashes \in Nat /\ HitsUntil(failures, now)
    BY DEF GuessInv, TypeOK, LimiterInv
  <2>2. Cardinality(FailuresIn(k, now))
           <= Count(failures, k, now, FailWindow) + Overlap * crashes
    BY <2>1 DEF GuessInv, FewForgotten
  <2>3. /\ Count(failures, k, now, FailWindow) \in Nat
        /\ Count(failures, k, now, FailWindow) <= Overlap
    BY FewCount
  <2>4. Overlap * (1 + crashes) = Overlap * crashes + Overlap /\ Overlap * crashes \in Nat
    BY <2>1, OverlapTimes
  <2>5. Cardinality(FailuresIn(k, now)) \in Nat
    BY <2>1, FailuresAreFinite DEF GuessInv
  <2> QED
    BY <2>2, <2>3, <2>4, <2>5, OverlapIsNatural
<1> QED
  BY <1>1, InitGuesses, NextGuesses, PTL DEF Spec
=============================================================================
