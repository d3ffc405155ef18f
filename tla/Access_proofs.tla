---------------------------- MODULE Access_proofs ----------------------------
(* Theorems about the modules customers come in by, for any users, requests,  *)
(* codes and bounds: sessions (Accounts), the window of attempts (AuthRate),  *)
(* one-time codes (PhoneLogin) and devices (Devices).                         *)
EXTENDS Accounts, AuthRate, PhoneLogin, Devices, WellFoundedInduction, FiniteSetTheorems, TLAPS

-----------------------------------------------------------------------------
(* Numbers *)

(* The largest of some numbers is one of them, and none is larger. *)
LEMMA LargestOf ==
  ASSUME NEW S \in SUBSET Nat, IsFiniteSet(S), S # {}
  PROVE  Max(S) \in S /\ \A y \in S : y <= Max(S)
<1> DEFINE from(y) == {x \in S : x >= y}
           T == {from(y) : y \in S}
           R == StrictSubsetOrdering(S)
<1>2. T \subseteq FiniteSubsetsOf(S) /\ T # {}
  <2>1. ASSUME NEW y \in S PROVE from(y) \in SUBSET S /\ IsFiniteSet(from(y))
    BY FS_Subset
  <2> HIDE DEF from
  <2> QED
    BY <2>1 DEF FiniteSubsetsOf
<1>3. IsWellFoundedOn(R, FiniteSubsetsOf(S))
  BY FS_StrictSubsetOrderingWellFounded
<1> HIDE DEF T, R
<1>4. \E U \in T : \A V \in T : <<V, U>> \notin R
  BY <1>2, <1>3, WFMin
<1>5. PICK y \in S : \A V \in T : <<V, from(y)>> \notin R
  BY <1>4 DEF T
<1>6. ASSUME NEW z \in S, z > y PROVE FALSE
  <2>1. from(z) \in T
    BY DEF T
  <2>2. from(z) \subseteq from(y) /\ y \in from(y) /\ y \notin from(z)
    <3>1. y \in Nat /\ z \in Nat /\ S \subseteq Nat
      OBVIOUS
    <3>2. \A x \in Nat : x >= z => x >= y
      BY <1>6, <3>1
    <3>3. y >= y /\ ~(y >= z)
      BY <1>6, <3>1
    <3> QED
      BY <3>1, <3>2, <3>3
  <2>3. <<from(z), from(y)>> \in R
    BY <2>2 DEF R, StrictSubsetOrdering
  <2> QED
    BY <1>5, <2>1, <2>3
<1>7. \A z \in S : y >= z
  BY <1>6
<1> QED
  BY <1>7 DEF Max

LEMMA MaxOf ==
  ASSUME NEW N \in Nat, NEW S \in SUBSET (0..N), S # {}
  PROVE  Max(S) \in S /\ \A y \in S : y <= Max(S)
<1>1. IsFiniteSet(0..N)
  BY FS_Interval
<1>2. IsFiniteSet(S)
  BY <1>1, FS_Subset
<1> QED
  BY <1>2, LargestOf

(* Some numbers have a least. *)
LEMMA LeastOf ==
  ASSUME NEW T \in SUBSET Nat, T # {}
  PROVE  \E n \in T : \A m \in T : n <= m
<1>1. \E n \in T : \A m \in T : <<m, n>> \notin OpToRel(<, Nat)
  BY NatLessThanWellFounded, WFMin
<1>2. \A m, n \in Nat : <<m, n>> \notin OpToRel(<, Nat) => n <= m
  BY DEF OpToRel
<1> QED
  BY <1>1, <1>2

-----------------------------------------------------------------------------
(* Accounts *)

(* Types *)

ActRecs == [pc : ActPCs, op : Ops, u : Users, row : UserRows, new : Secrets,
            kept : Requests \cup {Nothing}, put : BOOLEAN]

\* A refresh and a change of one's own password know their session.
Knows(a) == a.pc \in {"reread", "role"} \/ a.op = "change" => a.kept \in Requests
RefreshKeeps == \A r \in Requests : Knows(act[r])

AccountTypes == AccountsTypeOK /\ RefreshKeeps

LEMMA NoRequestType == NoRequest \in ActRecs /\ NoUser \in UserRows /\ NoRequest.pc = "idle"
                     /\ NoRequest.op = "none"
  BY AccountBounds DEF NoRequest, ActRecs, ActPCs, Ops, NoUser, UserRows, Passwords

(* Whatever a request becomes, the others are as they were. *)
LEMMA ActStep ==
  ASSUME AccountTypes, NEW r \in Requests, NEW a \in ActRecs, Knows(a), act' = [act EXCEPT ![r] = a]
  PROVE  /\ act' \in [Requests -> ActRecs] /\ RefreshKeeps' /\ act'[r] = a
         /\ \A q \in Requests \ {r} : act'[q] = act[q]
<1>1. act \in [Requests -> ActRecs] /\ RefreshKeeps
  BY DEF AccountTypes, AccountsTypeOK, ActRecs
<1>2. act' \in [Requests -> ActRecs] /\ act'[r] = a /\ \A q \in Requests \ {r} : act'[q] = act[q]
  BY <1>1
<1> QED
  BY <1>1, <1>2 DEF RefreshKeeps, Knows

(* A request that goes on is as it was but for its step; one that ends knows nothing. *)
LEMMA GotoType ==
  ASSUME AccountTypes, NEW r \in Requests, NEW pc \in ActPCs, Goto(r, pc),
         pc \in {"reread", "role"} => act[r].kept \in Requests
  PROVE  /\ act' \in [Requests -> ActRecs] /\ RefreshKeeps'
         /\ act'[r].pc = pc
         /\ \A q \in Requests \ {r} : act'[q] = act[q]
<1>1. act[r] \in ActRecs /\ Knows(act[r])
  BY DEF AccountTypes, AccountsTypeOK, ActRecs, RefreshKeeps
<1>2. CASE pc \in {"done", "refused"}
  <2> DEFINE a == [NoRequest EXCEPT !.pc = pc]
  <2>1. act' = [act EXCEPT ![r] = a]
    BY <1>2 DEF Goto
  <2>2. a \in ActRecs /\ a.pc = pc /\ a.op = "none"
    BY NoRequestType DEF ActRecs
  <2>3. Knows(a)
    BY <1>2, <2>2 DEF Knows
  <2> HIDE DEF a
  <2> QED
    BY <2>1, <2>2, <2>3, ActStep
<1>3. CASE pc \notin {"done", "refused"}
  <2> DEFINE a == [act[r] EXCEPT !.pc = pc]
  <2>1. act' = [act EXCEPT ![r] = a]
    BY <1>3 DEF Goto
  <2>2. a \in ActRecs /\ a.pc = pc /\ a.kept = act[r].kept /\ a.op = act[r].op
    BY <1>1 DEF ActRecs
  <2>3. Knows(a)
    BY <1>1, <2>2 DEF Knows
  <2> HIDE DEF a
  <2> QED
    BY <2>1, <2>2, <2>3, ActStep
<1> QED
  BY <1>2, <1>3

(* A request that starts has read a row and keeps at most a session. *)
LEMMA StartType ==
  ASSUME AccountTypes, NEW r \in Requests, NEW u \in Users, NEW op \in Ops,
         NEW pc \in ActPCs \ {"idle", "done", "reread", "role"}, NEW p \in Secrets,
         NEW s \in Requests \cup {Nothing},
         \/ Start(r, op, u, pc) /\ op # "change"
         \/ StartChange(r, op, u, pc, p, s) /\ (op = "change" => s \in Requests)
  PROVE  /\ act' \in [Requests -> ActRecs] /\ RefreshKeeps'
         /\ act[r].pc = "idle" /\ act'[r].pc = pc
         /\ \A q \in Requests \ {r} : act'[q] = act[q]
         /\ UNCHANGED <<user, session, held, histories>>
<1>1. act[r] \in ActRecs /\ user[u] \in UserRows
  BY DEF AccountTypes, AccountsTypeOK, ActRecs
<1>2. PICK k \in Requests \cup {Nothing}, n \in Secrets :
        /\ act' = [act EXCEPT ![r] = [act[r] EXCEPT !.pc = pc, !.op = op, !.u = u, !.row = user[u],
                                                    !.new = n, !.kept = k]]
        /\ op = "change" => k \in Requests
  <2>1. CASE Start(r, op, u, pc) /\ op # "change"
    <3>1. [act[r] EXCEPT !.pc = pc, !.op = op, !.u = u, !.row = user[u]] =
            [act[r] EXCEPT !.pc = pc, !.op = op, !.u = u, !.row = user[u],
                           !.new = act[r].new, !.kept = act[r].kept]
      BY <1>1 DEF ActRecs
    <3>2. act[r].kept \in Requests \cup {Nothing} /\ act[r].new \in Secrets
      BY <1>1 DEF ActRecs
    <3> QED
      BY <2>1, <3>1, <3>2 DEF Start
  <2>2. CASE StartChange(r, op, u, pc, p, s) /\ (op = "change" => s \in Requests)
    BY <2>2 DEF StartChange
  <2> QED
    BY <2>1, <2>2
<1> DEFINE a == [act[r] EXCEPT !.pc = pc, !.op = op, !.u = u, !.row = user[u], !.new = n, !.kept = k]
<1>3. a \in ActRecs /\ a.pc = pc /\ a.op = op /\ a.kept = k
  BY <1>1 DEF ActRecs
<1>4. Knows(a)
  BY <1>2, <1>3 DEF Knows
<1>5. act' = [act EXCEPT ![r] = a]
  BY <1>2
<1> HIDE DEF a
<1>6. act[r].pc = "idle" /\ UNCHANGED <<user, session, held, histories>>
  BY DEF Start, StartChange
<1> QED
  BY <1>3, <1>4, <1>5, <1>6, ActStep

(* Revoking sessions changes nothing else of them. *)
LEMMA RevokeType ==
  ASSUME AccountTypes, NEW S, Revoke(S)
  PROVE  /\ DOMAIN session' = DOMAIN session
         /\ \A s \in DOMAIN session : /\ session'[s] \in SessionRows
                                      /\ session'[s].hash = session[s].hash
<1> SUFFICES ASSUME NEW s \in DOMAIN session
             PROVE  session'[s] \in SessionRows /\ session'[s].hash = session[s].hash
  BY DEF Revoke
<1> DEFINE stays == session[s].live /\ s \notin S
<1>1. session[s] \in SessionRows
  BY DEF AccountTypes, AccountsTypeOK
<1>2. stays \in BOOLEAN
  OBVIOUS
<1>3. session'[s] = [session[s] EXCEPT !.live = stays]
  BY DEF Revoke
<1> HIDE DEF stays
<1> QED
  BY <1>1, <1>2, <1>3 DEF SessionRows

-----------------------------------------------------------------------------
(* What a step does to sessions and requests *)

\* Steps that open no session and exchange no pair.
Quiet ==
  /\ UNCHANGED swaps
  /\ DOMAIN session' = DOMAIN session
  /\ \A s \in DOMAIN session : session'[s].hash = session[s].hash
  /\ \A r \in Requests : /\ act[r].pc # "idle" => act'[r].pc # "idle"
                         /\ act[r].pc = "done" => act'[r].pc = "done"

Exchange(r, t) == RefreshSwap(r, t) /\ t.s \in Swappable(t)

LEMMA ActionTypes ==
  ASSUME AccountTypes, [AccountsNext]_accountVars
  PROVE  AccountTypes'
<1> DEFINE Rest == /\ held' \subseteq Pairs /\ swaps' \subseteq [by : Requests, s : Requests, hash : Requests]
                   /\ overlap' \subseteq Users /\ excused' \subseteq Requests /\ accCrashes' \in Nat
           Rows == user' \in [Users -> UserRows]
           Sess == \A s \in DOMAIN session' : s \in Requests /\ session'[s] \in SessionRows
           Acts == act' \in [Requests -> ActRecs] /\ RefreshKeeps'
<1> SUFFICES Rest /\ Rows /\ Sess /\ Acts
  BY DEF AccountTypes, AccountsTypeOK, ActRecs
<1>0. /\ user \in [Users -> UserRows] /\ held \subseteq Pairs
      /\ \A s \in DOMAIN session : s \in Requests /\ session[s] \in SessionRows
      /\ act \in [Requests -> ActRecs] /\ RefreshKeeps
      /\ swaps \subseteq [by : Requests, s : Requests, hash : Requests]
      /\ overlap \subseteq Users /\ excused \subseteq Requests /\ accCrashes \in Nat
  BY DEF AccountTypes, AccountsTypeOK, ActRecs
<1>1. CASE UNCHANGED accountVars
  BY <1>0, <1>1 DEF accountVars, RefreshKeeps
<1>2. ASSUME NEW u \in Users, AdminRemove(u) PROVE Rest /\ Rows /\ Sess /\ Acts
  BY <1>0, <1>2 DEF AdminRemove, histories, UserRows, RefreshKeeps
<1>3. ASSUME NEW u \in Users, NEW p \in Secrets \cup {Nothing}, CreateUser(u, p)
      PROVE  Rest /\ Rows /\ Sess /\ Acts
  <2>1. [is |-> "here", pwd |-> p, active |-> p = Nothing] \in UserRows
    BY DEF UserRows, Passwords
  <2> QED
    BY <1>0, <1>3, <2>1 DEF CreateUser, histories, RefreshKeeps
<1>4. ASSUME NEW r \in Requests, NEW u \in Users, LoginRead(r, u) \/ SocialRead(r, u) \/ ConfirmRead(r, u)
      PROVE  Rest /\ Rows /\ Sess /\ Acts
  <2>1. AccountTypes /\ (CHOOSE p \in Secrets : TRUE) \in Secrets
    BY AccountBounds
  <2>2. Acts /\ UNCHANGED <<user, session, held, histories>>
    BY <1>4, <2>1, StartType DEF LoginRead, SocialRead, ConfirmRead, Ops, ActPCs
  <2> QED
    BY <1>0, <2>2 DEF histories
<1>5. ASSUME NEW r \in Requests, NEW u \in Users, NEW p \in Secrets, ResetVerify(r, u, p) \/ AdminUpdate(r, u, p)
      PROVE  Rest /\ Rows /\ Sess /\ Acts
  <2>1. Acts /\ UNCHANGED <<user, session, held, histories>>
    BY <1>5, StartType DEF ResetVerify, AdminUpdate, Ops, ActPCs
  <2> QED
    BY <1>0, <2>1 DEF histories
<1>6. ASSUME NEW r \in Requests, NEW t \in held, RefreshSwap(r, t) PROVE Rest /\ Rows /\ Sess /\ Acts
  <2>0. t \in Pairs
    BY <1>0
  <2>1. CASE t.s \in Swappable(t)
    <3>1. t.s \in DOMAIN session /\ t.s \in Requests /\ t.hash \in Requests
      BY <1>0, <2>0, <2>1 DEF Swappable, Pairs
    <3>2. /\ session' = [session EXCEPT ![t.s].hash = r]
          /\ swaps' = swaps \cup {[by |-> r, s |-> t.s, hash |-> t.hash]}
          /\ act' = [act EXCEPT ![r] = [@ EXCEPT !.pc = "reread", !.op = "refresh", !.kept = t.s]]
          /\ UNCHANGED <<user, held, overlap, excused, accCrashes>>
      BY <1>6, <2>1 DEF RefreshSwap
    <3>3. Acts
      <4> DEFINE a == [act[r] EXCEPT !.pc = "reread", !.op = "refresh", !.kept = t.s]
      <4>0. act[r] \in ActRecs
        BY <1>0
      <4>1. a \in ActRecs /\ a.kept = t.s
        BY <3>1, <4>0 DEF ActRecs, ActPCs, Ops
      <4>2. act' = [act EXCEPT ![r] = a]
        BY <3>2
      <4> HIDE DEF a
      <4>3. Knows(a)
        BY <3>1, <4>1 DEF Knows
      <4> QED
        BY <4>1, <4>2, <4>3, ActStep
    <3>4. Sess
      <4>1. [session[t.s] EXCEPT !.hash = r] \in SessionRows
        BY <1>0, <3>1 DEF SessionRows
      <4> QED
        BY <1>0, <3>1, <3>2, <4>1
    <3> QED
      BY <1>0, <3>1, <3>2, <3>3, <3>4
  <2>2. CASE t.s \notin Swappable(t)
    <3>1. Goto(r, "refused") /\ UNCHANGED <<session, swaps, user, held, overlap, excused, accCrashes>>
      BY <1>6, <2>2 DEF RefreshSwap
    <3>2. Acts
      BY <3>1, GotoType DEF ActPCs
    <3> QED
      BY <1>0, <3>1, <3>2
  <2> QED
    BY <2>1, <2>2
<1>7. ASSUME NEW r \in Requests, NEW t \in held, DeleteStart(r, t) PROVE Rest /\ Rows /\ Sess /\ Acts
  <2>1. session[t.s].u \in Users /\ (CHOOSE p \in Secrets : TRUE) \in Secrets
    BY <1>0, <1>7, AccountBounds DEF DeleteStart, Accepts, Live, SessionRows
  <2>2. Acts /\ UNCHANGED <<user, session, held, histories>>
    BY <1>7, <2>1, StartType DEF DeleteStart, Ops, ActPCs
  <2> QED
    BY <1>0, <2>2 DEF histories
<1>8. ASSUME NEW r \in Requests, NEW t \in held, NEW p \in Secrets, ChangeRead(r, t, p)
      PROVE  Rest /\ Rows /\ Sess /\ Acts
  <2>1. session[t.s].u \in Users /\ t.s \in Requests
    BY <1>0, <1>8 DEF ChangeRead, Accepts, Live, SessionRows
  <2>2. Acts /\ UNCHANGED <<user, session, held, histories>>
    BY <1>8, <2>1, StartType DEF ChangeRead, Ops, ActPCs
  <2> QED
    BY <1>0, <2>2 DEF histories
<1>9. ASSUME NEW r \in Requests, OpenSession(r) PROVE Rest /\ Rows /\ Sess /\ Acts
  <2> DEFINE proved == IF act[r].op = "login" THEN act[r].row.pwd ELSE Nothing
             opened == [u |-> act[r].u, hash |-> r, live |-> TRUE, pwd |-> proved]
  <2>1. proved \in Passwords /\ act[r].u \in Users
    BY <1>0 DEF ActRecs, UserRows, Passwords
  <2>2. opened \in SessionRows
    BY <2>1 DEF SessionRows
  <2>3. /\ session' = [s \in DOMAIN session \cup {r} |-> IF s = r THEN opened ELSE session[s]]
        /\ held' = held \cup {[s |-> r, hash |-> r]} /\ Goto(r, "done")
        /\ excused' \subseteq excused \cup {r} /\ UNCHANGED <<user, swaps, overlap, accCrashes>>
    BY <1>9 DEF OpenSession
  <2> HIDE DEF opened
  <2>4. Acts
    BY <2>3, GotoType DEF ActPCs
  <2> QED
    BY <1>0, <2>2, <2>3, <2>4 DEF Pairs
<1>10. ASSUME NEW r \in Requests, RefreshReread(r) PROVE Rest /\ Rows /\ Sess /\ Acts
  <2>1. /\ act[r].kept \in Requests /\ UNCHANGED <<user, session, held, histories>>
        /\ Goto(r, "role") \/ Goto(r, "refused")
    BY <1>0, <1>10 DEF RefreshReread, RefreshKeeps, Knows
  <2>2. Acts
    BY <2>1, GotoType DEF ActPCs
  <2> QED
    BY <1>0, <2>1, <2>2 DEF histories
<1>11. ASSUME NEW r \in Requests, RefreshIssue(r) PROVE Rest /\ Rows /\ Sess /\ Acts
  <2>1. /\ act[r].kept \in Requests /\ UNCHANGED <<user, session, histories>>
        /\ Goto(r, "done") \/ Goto(r, "refused")
        /\ held' \subseteq held \cup {NewPair(r)}
    BY <1>0, <1>11 DEF RefreshIssue, RefreshKeeps, Knows
  <2>2. Acts
    BY <2>1, GotoType DEF ActPCs
  <2> QED
    BY <1>0, <2>1, <2>2 DEF histories, NewPair, Pairs
<1>12. ASSUME NEW r \in Requests, ResetLoad(r) PROVE Rest /\ Rows /\ Sess /\ Acts
  <2>1. user[act[r].u] \in UserRows
    BY <1>0 DEF ActRecs
  <2> DEFINE pc == IF Here(act[r].u) THEN "revoke" ELSE "refused"
             a == [act[r] EXCEPT !.pc = pc, !.row = user[act[r].u]]
  <2>2. act' = [act EXCEPT ![r] = a]
    BY <1>0, <1>12 DEF ResetLoad
  <2>3. a \in ActRecs /\ a.op = act[r].op /\ a.kept = act[r].kept /\ a.pc \notin {"reread", "role"}
    BY <1>0, <2>1 DEF ActRecs, ActPCs
  <2>4. Knows(a)
    BY <1>0, <2>3 DEF Knows, RefreshKeeps
  <2> HIDE DEF a
  <2>5. Acts
    BY <2>2, <2>3, <2>4, ActStep
  <2> QED
    BY <1>0, <1>12, <2>5 DEF ResetLoad, histories
<1>13. ASSUME NEW r \in Requests, UpdateCompare(r) PROVE Rest /\ Rows /\ Sess /\ Acts
  <2>1. ToHash(r) \in BOOLEAN
    BY DEF ToHash
  <2> DEFINE a == [act[r] EXCEPT !.pc = "save", !.put = ToHash(r)]
  <2>2. act' = [act EXCEPT ![r] = a]
    BY <1>0, <1>13 DEF UpdateCompare
  <2>3. a \in ActRecs /\ a.op = act[r].op /\ a.kept = act[r].kept /\ a.pc = "save"
    BY <1>0, <2>1 DEF ActRecs, ActPCs
  <2>4. Knows(a)
    BY <1>0, <2>3 DEF Knows, RefreshKeeps
  <2> HIDE DEF a
  <2>5. Acts
    BY <2>2, <2>3, <2>4, ActStep
  <2> QED
    BY <1>0, <1>13, <2>5 DEF UpdateCompare, histories
<1>14. ASSUME NEW r \in Requests, UpdateSave(r) PROVE Rest /\ Rows /\ Sess /\ Acts
  <2>1. act[r].u \in Users /\ user[act[r].u] \in UserRows /\ act[r].row \in UserRows
        /\ act[r].new \in Secrets /\ act[r].kept \in Requests \cup {Nothing}
    BY <1>0 DEF ActRecs
  <2>2. Stored(r) \in Passwords /\ ActiveAfter(r) \in BOOLEAN
    BY <2>1 DEF Stored, ActiveAfter, UserRows, Passwords
  <2>3. \/ Goto(r, "refused") \/ Goto(r, "open") \/ Goto(r, "done")
    BY <1>14 DEF UpdateSave
  <2>4. Acts
    BY <2>3, GotoType DEF ActPCs
  <2>5. Rows
    BY <1>0, <1>14, <2>1, <2>2 DEF UpdateSave, UserRows
  <2>6. act[r].op = "change" => act[r].kept \in Requests
    BY <1>0 DEF RefreshKeeps, Knows
  <2> QED
    BY <1>0, <1>14, <2>1, <2>4, <2>5, <2>6 DEF UpdateSave, Kept, SessionsOf
<1>15. ASSUME NEW r \in Requests, RevokeSessions(r) PROVE Rest /\ Rows /\ Sess /\ Acts
  <2>1. /\ Revoke(Revoked(r)) /\ UNCHANGED <<user, held, histories>>
        /\ Goto(r, "remove") \/ Goto(r, "compare")
    BY <1>15 DEF RevokeSessions
  <2>2. Acts
    BY <2>1, GotoType DEF ActPCs
  <2>3. Sess
    BY <1>0, <2>1, RevokeType
  <2> QED
    BY <1>0, <2>1, <2>2, <2>3 DEF histories
<1>16. ASSUME NEW r \in Requests, RemoveUser(r) PROVE Rest /\ Rows /\ Sess /\ Acts
  <2>1. Acts
    BY <1>16, GotoType DEF RemoveUser, ActPCs
  <2> QED
    BY <1>0, <1>16, <2>1 DEF RemoveUser, histories, UserRows
<1>17. ASSUME NEW r \in Requests, AccountCrash(r) PROVE Rest /\ Rows /\ Sess /\ Acts
  <2>1. Acts
    BY <1>17, GotoType DEF AccountCrash, ActPCs
  <2> QED
    BY <1>0, <1>17, <2>1 DEF AccountCrash
<1>18. ASSUME NEW t \in held, Logout(t) PROVE Rest /\ Rows /\ Sess /\ Acts
  <2>1. Sess
    BY <1>0, <1>18, RevokeType DEF Logout
  <2> QED
    BY <1>0, <1>18, <2>1 DEF Logout, histories, RefreshKeeps
<1> QED
  BY <1>1, <1>2, <1>3, <1>4, <1>5, <1>6, <1>7, <1>8, <1>9, <1>10, <1>11, <1>12, <1>13, <1>14,
     <1>15, <1>16, <1>17, <1>18 DEF AccountsNext

-----------------------------------------------------------------------------
(* A pair is exchanged once *)

\* Who opened a session has ended; a session's hash was made by a request under
\* way, and never again is the one that was exchanged.
Ended == \A s \in DOMAIN session : act[s].pc = "done"
Fresh == \A s \in DOMAIN session : act[session[s].hash].pc # "idle"
Spent == \A v \in swaps : /\ v.s \in DOMAIN session /\ session[v.s].hash # v.hash
                          /\ act[v.hash].pc # "idle"

AccountInv == AccountTypes /\ Ended /\ Fresh /\ Spent /\ RefreshedOnce

(* A step is quiet, opens a session, or exchanges a pair. *)
LEMMA StepShape ==
  ASSUME AccountTypes, [AccountsNext]_accountVars
  PROVE  \/ Quiet
         \/ \E r \in Requests : OpenSession(r)
         \/ \E r \in Requests, t \in held : Exchange(r, t)
<1> USE DEF Quiet
<1>0. /\ act \in [Requests -> ActRecs] /\ held \subseteq Pairs
      /\ \A s \in DOMAIN session : session[s] \in SessionRows
  BY DEF AccountTypes, AccountsTypeOK, ActRecs
<1>1. ASSUME UNCHANGED <<swaps, session, act>> PROVE Quiet
  BY <1>1
<1>2. ASSUME UNCHANGED <<swaps, session>>, NEW r \in Requests, act[r].pc # "done",
             act'[r].pc # "idle", \A q \in Requests \ {r} : act'[q] = act[q]
      PROVE  Quiet
  BY <1>2
<1>3. CASE UNCHANGED accountVars
  BY <1>1, <1>3 DEF accountVars
<1>4. ASSUME NEW u \in Users, AdminRemove(u) \/ \E p \in Secrets \cup {Nothing} : CreateUser(u, p)
      PROVE  Quiet
  BY <1>1, <1>4 DEF AdminRemove, CreateUser, histories
<1>5. ASSUME NEW r \in Requests, NEW u \in Users, LoginRead(r, u) \/ SocialRead(r, u) \/ ConfirmRead(r, u)
      PROVE  Quiet
  <2>1. (CHOOSE p \in Secrets : TRUE) \in Secrets
    BY AccountBounds
  <2>2. PICK pc \in {"open", "compare"} :
          /\ act[r].pc = "idle" /\ act'[r].pc = pc
          /\ \A q \in Requests \ {r} : act'[q] = act[q]
          /\ UNCHANGED <<user, session, held, histories>>
    BY <1>5, <2>1, StartType DEF LoginRead, SocialRead, ConfirmRead, Ops, ActPCs
  <2> QED
    BY <1>2, <2>2 DEF histories
<1>6. ASSUME NEW r \in Requests, NEW u \in Users, NEW p \in Secrets, ResetVerify(r, u, p) \/ AdminUpdate(r, u, p)
      PROVE  Quiet
  <2>1. PICK pc \in {"load", "compare"} :
          /\ act[r].pc = "idle" /\ act'[r].pc = pc
          /\ \A q \in Requests \ {r} : act'[q] = act[q]
          /\ UNCHANGED <<user, session, held, histories>>
    BY <1>6, StartType DEF ResetVerify, AdminUpdate, Ops, ActPCs
  <2> QED
    BY <1>2, <2>1 DEF histories
<1>7. ASSUME NEW r \in Requests, NEW t \in held, DeleteStart(r, t) \/ \E p \in Secrets : ChangeRead(r, t, p)
      PROVE  Quiet
  <2>1. session[t.s].u \in Users /\ t.s \in Requests /\ (CHOOSE p \in Secrets : TRUE) \in Secrets
    BY <1>0, <1>7, AccountBounds DEF DeleteStart, ChangeRead, Accepts, Live, SessionRows, Pairs
  <2>2. /\ act[r].pc = "idle" /\ act'[r].pc = "revoke"
        /\ \A q \in Requests \ {r} : act'[q] = act[q]
        /\ UNCHANGED <<user, session, held, histories>>
    BY <1>7, <2>1, StartType DEF DeleteStart, ChangeRead, Ops, ActPCs
  <2> QED
    BY <1>2, <2>2 DEF histories
<1>8. ASSUME NEW r \in Requests, NEW t \in held, RefreshSwap(r, t), ~Exchange(r, t) PROVE Quiet
  <2>1. Goto(r, "refused") /\ UNCHANGED <<session, swaps>> /\ act[r].pc = "idle"
    BY <1>8 DEF Exchange, RefreshSwap
  <2>2. act'[r].pc = "refused" /\ \A q \in Requests \ {r} : act'[q] = act[q]
    BY <2>1, GotoType DEF ActPCs
  <2> QED
    BY <1>2, <2>1, <2>2
<1>9. ASSUME NEW r \in Requests, RefreshReread(r) \/ RefreshIssue(r) \/ UpdateSave(r)
                                 \/ RemoveUser(r) \/ AccountCrash(r)
      PROVE  Quiet
  <2>1. /\ UNCHANGED <<session, swaps>> /\ act[r].pc # "done"
        /\ \/ Goto(r, "refused") \/ Goto(r, "done") \/ Goto(r, "open")
           \/ Goto(r, "role") /\ act[r].pc = "reread"
    BY <1>9 DEF RefreshReread, RefreshIssue, UpdateSave, RemoveUser, AccountCrash, histories
  <2>2. act'[r].pc # "idle" /\ \A q \in Requests \ {r} : act'[q] = act[q]
    BY <2>1, GotoType DEF ActPCs, AccountTypes, RefreshKeeps, Knows
  <2> QED
    BY <1>2, <2>1, <2>2
<1>10. ASSUME NEW r \in Requests, ResetLoad(r) \/ UpdateCompare(r) PROVE Quiet
  <2>1. /\ act'[r].pc # "idle" /\ \A q \in Requests \ {r} : act'[q] = act[q]
        /\ UNCHANGED <<session, swaps>> /\ act[r].pc # "done"
    BY <1>0, <1>10 DEF ResetLoad, UpdateCompare, histories, ActRecs
  <2> QED
    BY <1>2, <2>1
<1>11. ASSUME NEW r \in Requests, RevokeSessions(r) PROVE Quiet
  <2>1. /\ Revoke(Revoked(r)) /\ UNCHANGED swaps /\ act[r].pc = "revoke"
        /\ Goto(r, "remove") \/ Goto(r, "compare")
    BY <1>11 DEF RevokeSessions, histories
  <2>2. act'[r].pc # "idle" /\ \A q \in Requests \ {r} : act'[q] = act[q]
    BY <2>1, GotoType DEF ActPCs
  <2> QED
    BY <2>1, <2>2, RevokeType
<1>12. ASSUME NEW t \in held, Logout(t) PROVE Quiet
  BY <1>12, RevokeType DEF Logout, histories
<1> QED
  BY <1>3, <1>4, <1>5, <1>6, <1>7, <1>8, <1>9, <1>10, <1>11, <1>12 DEF AccountsNext

LEMMA QuietKeeps == ASSUME AccountInv, AccountTypes', Quiet PROVE AccountInv'
<1>1. Ended' /\ Fresh'
  <2> SUFFICES ASSUME NEW s \in DOMAIN session' PROVE act'[s].pc = "done" /\ act'[session'[s].hash].pc # "idle"
    BY DEF Ended, Fresh
  <2>1. s \in DOMAIN session /\ s \in Requests /\ session[s].hash \in Requests
    BY DEF Quiet, AccountInv, AccountTypes, AccountsTypeOK, SessionRows
  <2> QED
    BY <2>1 DEF Quiet, AccountInv, Ended, Fresh
<1>2. Spent'
  <2> SUFFICES ASSUME NEW v \in swaps
               PROVE  /\ v.s \in DOMAIN session' /\ session'[v.s].hash # v.hash
                      /\ act'[v.hash].pc # "idle"
    BY DEF Spent, Quiet
  <2>1. v.hash \in Requests
    BY DEF AccountInv, AccountTypes, AccountsTypeOK
  <2> QED
    BY <2>1 DEF Quiet, AccountInv, Spent
<1>3. RefreshedOnce'
  BY DEF Quiet, AccountInv, RefreshedOnce
<1> QED
  BY <1>1, <1>2, <1>3 DEF AccountInv

LEMMA OpenKeeps == ASSUME AccountInv, AccountTypes', NEW r \in Requests, OpenSession(r) PROVE AccountInv'
<1>1. /\ r \notin DOMAIN session /\ DOMAIN session' = DOMAIN session \cup {r}
      /\ session'[r].hash = r /\ \A s \in DOMAIN session : session'[s] = session[s]
      /\ UNCHANGED swaps
  BY DEF AccountInv, Ended, OpenSession
<1>2. act'[r].pc = "done" /\ \A q \in Requests \ {r} : act'[q] = act[q]
  BY GotoType DEF OpenSession, ActPCs, AccountInv
<1>3. \A s \in DOMAIN session : s \in Requests /\ session[s].hash \in Requests
  BY DEF AccountInv, AccountTypes, AccountsTypeOK, SessionRows
<1>4. Ended' /\ Fresh'
  BY <1>1, <1>2, <1>3 DEF AccountInv, Ended, Fresh
<1>5. Spent'
  <2>1. \A v \in swaps : v.hash \in Requests
    BY DEF AccountInv, AccountTypes, AccountsTypeOK
  <2> QED
    BY <1>1, <1>2, <2>1 DEF AccountInv, Spent
<1> QED
  BY <1>1, <1>4, <1>5 DEF AccountInv, RefreshedOnce

LEMMA ExchangeKeeps ==
  ASSUME AccountInv, AccountTypes', NEW r \in Requests, NEW t \in held, Exchange(r, t)
  PROVE  AccountInv'
<1> DEFINE w == [by |-> r, s |-> t.s, hash |-> t.hash]
<1>1. /\ t.s \in DOMAIN session /\ session[t.s].hash = t.hash
      /\ t.s \in Requests /\ t.hash \in Requests
  BY DEF Exchange, Swappable, AccountInv, AccountTypes, AccountsTypeOK, Pairs
<1>2. /\ session' = [session EXCEPT ![t.s].hash = r] /\ swaps' = swaps \cup {w}
      /\ act' = [act EXCEPT ![r] = [@ EXCEPT !.pc = "reread", !.op = "refresh", !.kept = t.s]]
      /\ act[r].pc = "idle"
  BY DEF Exchange, RefreshSwap
<1>3. act'[r].pc = "reread" /\ \A q \in Requests \ {r} : act'[q] = act[q]
  BY <1>2 DEF AccountInv, AccountTypes, AccountsTypeOK
<1>4. /\ DOMAIN session' = DOMAIN session
      /\ \A s \in DOMAIN session \ {t.s} : session'[s] = session[s]
      /\ session'[t.s].hash = r
  BY <1>1, <1>2 DEF AccountInv, AccountTypes, AccountsTypeOK, SessionRows
<1>5. \A s \in DOMAIN session : s \in Requests /\ session[s].hash \in Requests
  BY DEF AccountInv, AccountTypes, AccountsTypeOK, SessionRows
<1>6. r # t.hash /\ \A v \in swaps : v.hash # r /\ v.hash \in Requests
  BY <1>1, <1>2 DEF AccountInv, Fresh, Spent, AccountTypes, AccountsTypeOK
<1>7. Ended' /\ Fresh'
  BY <1>1, <1>2, <1>3, <1>4, <1>5 DEF AccountInv, Ended, Fresh
<1>8. Spent'
  <2>1. w.s = t.s /\ w.hash = t.hash /\ act[t.hash].pc # "idle"
    BY <1>1 DEF AccountInv, Fresh
  <2> HIDE DEF w
  <2> QED
    BY <1>1, <1>2, <1>3, <1>4, <1>6, <2>1 DEF AccountInv, Spent
<1>9. RefreshedOnce'
  <2>1. w.s = t.s /\ w.hash = t.hash
    OBVIOUS
  <2> HIDE DEF w
  <2>2. \A v \in swaps : ~(v.s = w.s /\ v.hash = w.hash)
    BY <1>1, <2>1 DEF AccountInv, Spent
  <2> QED
    BY <1>2, <2>2 DEF AccountInv, RefreshedOnce
<1> QED
  BY <1>7, <1>8, <1>9 DEF AccountInv

LEMMA InvInit == AccountsInit => AccountInv
<1> SUFFICES ASSUME AccountsInit PROVE AccountInv
  OBVIOUS
<1>1. DOMAIN session = {}
  BY DEF AccountsInit
<1>2. act = [r \in Requests |-> NoRequest] /\ user = [u \in Users |-> NoUser] /\ accCrashes = 0
      /\ held = {} /\ swaps = {} /\ overlap = {} /\ excused = {}
  BY DEF AccountsInit
<1>3. RefreshKeeps /\ act \in [Requests -> ActRecs]
  BY <1>2, NoRequestType DEF RefreshKeeps, Knows
<1>4. AccountTypes
  BY <1>1, <1>2, <1>3, NoRequestType DEF AccountTypes, AccountsTypeOK, ActRecs
<1> QED
  BY <1>1, <1>2, <1>4 DEF AccountInv, Ended, Fresh, Spent, RefreshedOnce

(* A token pair is exchanged for a new one at most once, whatever the number of    *)
(* refreshes that present it at the same time, of logins, logouts and revocations, *)
(* and wherever requests die: refreshToken's UPDATE tests the hash it was given,    *)
(* and no hash is made twice.                                                       *)
THEOREM PairsExchangedOnce == AccountsSpec => []RefreshedOnce
<1>1. AccountsInit => AccountInv
  BY InvInit
<1>2. AccountInv /\ [AccountsNext]_accountVars => AccountInv'
  <2> SUFFICES ASSUME AccountInv, [AccountsNext]_accountVars PROVE AccountInv'
    OBVIOUS
  <2>1. AccountTypes
    BY DEF AccountInv
  <2>2. AccountTypes'
    BY <2>1, ActionTypes
  <2> QED
    BY <2>1, <2>2, StepShape, QuietKeeps, OpenKeeps, ExchangeKeeps
<1>3. AccountInv => RefreshedOnce
  BY DEF AccountInv
<1> QED
  BY <1>1, <1>2, <1>3, PTL DEF AccountsSpec

-----------------------------------------------------------------------------
(* Passwords and the sessions that rest on them *)

Busy == {"load", "revoke", "compare", "save", "open"}

\* The steps a request takes, and that its user was there.
OnItsWay(q) ==
  /\ act[q].pc = "load" => act[q].op = "reset"
  /\ act[q].pc = "revoke" => act[q].op \in {"reset", "change", "delete"}
  /\ act[q].pc \in {"compare", "save"} => act[q].op \in WriteBacks \cup {"reset", "change", "admin"}
  /\ act[q].pc \in Busy => user[act[q].u].is # "absent"

\* The password in a row that is going to be written back is still the table's, and so
\* is not hashed, unless somebody saved another one meanwhile.
RowTrue(q) ==
  act[q].pc \in {"compare", "save"} /\ act[q].op \in WriteBacks =>
    /\ act[q].row.pwd = user[act[q].u].pwd \/ act[q].u \in overlap
    /\ act[q].pc = "save" /\ act[q].put => act[q].u \in overlap

\* Until a reset or a change saves, what lives of the sessions it revoked is excused.
RevokedFirst(q) ==
  act[q].pc \in {"compare", "save"} /\ act[q].op \in {"reset", "change"} =>
    \A s \in DOMAIN session \ excused :
      session[s].u = act[q].u /\ session[s].live /\ session[s].pwd # Nothing =>
        act[q].op = "change" /\ s = act[q].kept

Sound(q) == OnItsWay(q) /\ RowTrue(q) /\ RevokedFirst(q)
SessionsOfUsers == \A s \in DOMAIN session : user[session[s].u].is # "absent"

PasswordInv == /\ \A q \in Requests : Sound(q)
               /\ SessionsOfUsers /\ SessionsFollowPassword /\ PasswordIntact

\* Steps that write no password and open no session.
PasswordsStay ==
  /\ UNCHANGED overlap /\ excused \subseteq excused'
  /\ \A u \in Users : user'[u].pwd = user[u].pwd /\ (user[u].is # "absent" => user'[u].is # "absent")
  /\ DOMAIN session' = DOMAIN session
  /\ \A s \in DOMAIN session : /\ session'[s].u = session[s].u /\ session'[s].pwd = session[s].pwd
                               /\ session'[s].live => session[s].live

LEMMA PasswordsStayKeeps ==
  ASSUME AccountTypes, PasswordInv, PasswordsStay,
         \A q \in Requests : act'[q] = act[q] \/ Sound(q)'
  PROVE  PasswordInv'
<1>1. /\ \A q \in Requests : act[q].u \in Users
      /\ \A s \in DOMAIN session : session[s].u \in Users
  BY DEF AccountTypes, AccountsTypeOK, SessionRows
<1>2. ASSUME NEW q \in Requests, act'[q] = act[q] PROVE Sound(q)'
  <2>1. act[q].u \in Users /\ Sound(q)
    BY <1>1 DEF PasswordInv
  <2>2. OnItsWay(q)' /\ RowTrue(q)'
    BY <1>2, <2>1 DEF Sound, OnItsWay, RowTrue, PasswordsStay
  <2>3. RevokedFirst(q)'
    BY <1>2, <2>1 DEF Sound, RevokedFirst, PasswordsStay
  <2> QED
    BY <2>2, <2>3 DEF Sound
<1>3. SessionsOfUsers' /\ SessionsFollowPassword'
  BY <1>1 DEF PasswordInv, SessionsOfUsers, SessionsFollowPassword, PasswordsStay
<1>4. PasswordIntact'
  BY DEF PasswordInv, PasswordIntact, PasswordsStay
<1> QED
  BY <1>2, <1>3, <1>4 DEF PasswordInv

(* What is not busy is sound, whatever it knows. *)
LEMMA IdleSound == ASSUME NEW q, act'[q].pc \notin Busy PROVE Sound(q)'
  BY DEF Sound, OnItsWay, RowTrue, RevokedFirst, Busy

(* A request that has just read a row is sound. *)
LEMMA StartSound ==
  ASSUME AccountTypes, NEW r \in Requests, NEW u \in Users, NEW op, NEW pc, NEW p, NEW s,
         \/ Start(r, op, u, pc)
         \/ StartChange(r, op, u, pc, p, s),
         <<op, pc>> \in {<<"login", "open">>, <<"social", "compare">>, <<"confirm", "compare">>,
                         <<"reset", "load">>, <<"change", "revoke">>, <<"admin", "compare">>,
                         <<"delete", "revoke">>}
  PROVE  /\ Sound(r)' /\ \A q \in Requests \ {r} : act'[q] = act[q]
         /\ PasswordsStay
<1>1. /\ act'[r].pc = pc /\ act'[r].op = op /\ act'[r].u = u /\ act'[r].row = user[u]
      /\ \A q \in Requests \ {r} : act'[q] = act[q]
  <2>1. act \in [Requests -> ActRecs]
    BY DEF AccountTypes, AccountsTypeOK, ActRecs
  <2>2. CASE Start(r, op, u, pc)
    BY <2>1, <2>2 DEF Start, ActRecs
  <2>3. CASE StartChange(r, op, u, pc, p, s)
    BY <2>1, <2>3 DEF StartChange, ActRecs
  <2> QED
    BY <2>2, <2>3
<1>2. Here(u) /\ UNCHANGED <<user, session, held, histories>>
  BY DEF Start, StartChange
<1>3. PasswordsStay
  BY <1>2 DEF PasswordsStay, histories
<1> QED
  BY <1>1, <1>2, <1>3 DEF Sound, OnItsWay, RowTrue, RevokedFirst, Here, WriteBacks

(* Sessions revoked by a reset or a change. *)
LEMMA RevokeKeeps ==
  ASSUME AccountTypes, PasswordInv, NEW r \in Requests, RevokeSessions(r) PROVE PasswordInv'
<1> DEFINE to == IF act[r].op = "delete" THEN "remove" ELSE "compare"
<1>1. /\ act[r].pc = "revoke" /\ Revoke(Revoked(r)) /\ UNCHANGED <<user, held, histories>>
      /\ Goto(r, to) /\ to \in {"remove", "compare"}
  BY DEF RevokeSessions
<1>2. /\ act' = [act EXCEPT ![r] = [act[r] EXCEPT !.pc = to]]
      /\ act \in [Requests -> ActRecs]
  BY <1>1 DEF Goto, AccountTypes, AccountsTypeOK, ActRecs
<1>3. /\ act'[r].pc = to /\ act'[r].op = act[r].op /\ act'[r].u = act[r].u /\ act'[r].kept = act[r].kept
      /\ \A q \in Requests \ {r} : act'[q] = act[q]
  <2> HIDE DEF to
  <2> QED
    BY <1>2 DEF ActRecs
<1>4. /\ DOMAIN session' = DOMAIN session
      /\ \A s \in DOMAIN session :
           /\ session'[s].u = session[s].u /\ session'[s].pwd = session[s].pwd
           /\ session'[s].live => session[s].live /\ s \notin Revoked(r)
  <2> SUFFICES ASSUME NEW s \in DOMAIN session
               PROVE  /\ session'[s].u = session[s].u /\ session'[s].pwd = session[s].pwd
                      /\ session'[s].live => session[s].live /\ s \notin Revoked(r)
    BY <1>1 DEF Revoke
  <2>1. session[s] \in SessionRows
    BY DEF AccountTypes, AccountsTypeOK
  <2>2. session'[s] = [session[s] EXCEPT !.live = session[s].live /\ s \notin Revoked(r)]
    BY <1>1 DEF Revoke
  <2> QED
    BY <2>1, <2>2 DEF SessionRows
<1>5. PasswordsStay
  BY <1>1, <1>4 DEF PasswordsStay, histories
<1>6. Sound(r)'
  <2>1. OnItsWay(r)' /\ RowTrue(r)'
    BY <1>1, <1>3 DEF PasswordInv, Sound, OnItsWay, RowTrue, Busy, WriteBacks
  <2>2. RevokedFirst(r)'
    BY <1>1, <1>3, <1>4 DEF RevokedFirst, Revoked, SessionsOf, histories
  <2> QED
    BY <2>1, <2>2 DEF Sound
<1> QED
  BY <1>3, <1>5, <1>6, PasswordsStayKeeps

(* The row is compared with the table's. *)
LEMMA CompareKeeps ==
  ASSUME AccountTypes, PasswordInv, NEW r \in Requests, UpdateCompare(r) PROVE PasswordInv'
<1>1. /\ act[r].pc = "compare" /\ UNCHANGED <<user, session, held, histories>>
      /\ act'[r].pc = "save" /\ act'[r].put = ToHash(r)
      /\ act'[r].op = act[r].op /\ act'[r].u = act[r].u /\ act'[r].kept = act[r].kept
      /\ act'[r].row = act[r].row
      /\ \A q \in Requests \ {r} : act'[q] = act[q]
  BY DEF UpdateCompare, AccountTypes, AccountsTypeOK
<1>2. PasswordsStay
  BY <1>1 DEF PasswordsStay, histories
<1>3. Sound(r)
  BY DEF PasswordInv
<1>4. OnItsWay(r)' /\ RevokedFirst(r)'
  BY <1>1, <1>3 DEF Sound, OnItsWay, RevokedFirst, Busy, histories
<1>5. RowTrue(r)'
  BY <1>1, <1>3 DEF Sound, RowTrue, ToHash, histories
<1> QED
  BY <1>1, <1>2, <1>4, <1>5, PasswordsStayKeeps DEF Sound

(* The user of a reset is read once more. *)
LEMMA LoadKeeps ==
  ASSUME AccountTypes, PasswordInv, NEW r \in Requests, ResetLoad(r) PROVE PasswordInv'
<1>1. act \in [Requests -> ActRecs] /\ act[r].pc = "load" /\ UNCHANGED <<user, session, held, histories>>
  BY DEF ResetLoad, AccountTypes, AccountsTypeOK, ActRecs
<1>2. /\ act'[r].pc = (IF Here(act[r].u) THEN "revoke" ELSE "refused")
      /\ act'[r].op = act[r].op /\ act'[r].u = act[r].u
      /\ \A q \in Requests \ {r} : act'[q] = act[q]
  BY <1>1 DEF ResetLoad, ActRecs
<1>3. PasswordsStay
  BY <1>1 DEF PasswordsStay, histories
<1>4. Sound(r)
  BY DEF PasswordInv
<1>5. Sound(r)'
  BY <1>1, <1>2, <1>4 DEF Sound, OnItsWay, RowTrue, RevokedFirst, Busy, Here
<1> QED
  BY <1>2, <1>3, <1>5, PasswordsStayKeeps

(* A session is opened on a password that is the user's, or is excused. *)
LEMMA OpenFollows ==
  ASSUME AccountTypes, PasswordInv, NEW r \in Requests, OpenSession(r) PROVE PasswordInv'
<1> DEFINE u == act[r].u
           proved == IF act[r].op = "login" THEN act[r].row.pwd ELSE Nothing
<1>1. /\ act[r].pc = "open" /\ Goto(r, "done") /\ UNCHANGED <<user, swaps, overlap, accCrashes>>
      /\ session' = [s \in DOMAIN session \cup {r} |->
                       IF s = r THEN [u |-> u, hash |-> r, live |-> TRUE, pwd |-> proved] ELSE session[s]]
      /\ excused' = IF Changing(u) \/ proved # user[u].pwd THEN excused \cup {r} ELSE excused
  BY DEF OpenSession
<1>2. act'[r].pc = "done" /\ \A q \in Requests \ {r} : act'[q] = act[q]
  BY <1>1, GotoType DEF ActPCs
<1>3. /\ DOMAIN session' = DOMAIN session \cup {r} /\ session'[r].u = u /\ session'[r].pwd = proved
      /\ \A s \in DOMAIN session \ {r} : session'[s] = session[s]
      /\ excused \subseteq excused' /\ (Changing(u) \/ proved # user[u].pwd => r \in excused')
  BY <1>1
<1>4. Sound(r)'
  BY <1>2, IdleSound DEF Busy
<1>5. ASSUME NEW q \in Requests \ {r} PROVE Sound(q)'
  <2>1. Sound(q) /\ act'[q] = act[q]
    BY <1>2 DEF PasswordInv
  <2>2. OnItsWay(q)' /\ RowTrue(q)'
    BY <1>1, <2>1 DEF Sound, OnItsWay, RowTrue
  <2>3. ASSUME act[q].pc \in {"compare", "save"}, act[q].op \in {"reset", "change"}, act[q].u = u
        PROVE  r \in excused'
    BY <1>3, <2>3 DEF Changing
  <2>4. RevokedFirst(q)'
    BY <1>3, <2>1, <2>3 DEF Sound, RevokedFirst
  <2> QED
    BY <2>2, <2>4 DEF Sound
<1>6. SessionsOfUsers'
  BY <1>1, <1>3 DEF PasswordInv, Sound, OnItsWay, Busy, SessionsOfUsers
<1>7. SessionsFollowPassword' /\ PasswordIntact'
  <2> HIDE DEF proved
  <2> QED
    BY <1>1, <1>3 DEF PasswordInv, SessionsFollowPassword, PasswordIntact
<1> QED
  BY <1>4, <1>5, <1>6, <1>7 DEF PasswordInv

(* A new user has no sessions, and nobody holds its row. *)
LEMMA CreateKeeps ==
  ASSUME AccountTypes, PasswordInv, NEW u \in Users, NEW p \in Secrets \cup {Nothing}, CreateUser(u, p)
  PROVE  PasswordInv'
<1>1. /\ user[u].is = "absent" /\ UNCHANGED <<session, held, act, histories>>
      /\ user' = [user EXCEPT ![u] = [is |-> "here", pwd |-> p, active |-> p = Nothing]]
  BY DEF CreateUser
<1>2. /\ user \in [Users -> UserRows] /\ \A q \in Requests : act[q].u \in Users
      /\ \A s \in DOMAIN session : session[s].u \in Users
  BY DEF AccountTypes, AccountsTypeOK, SessionRows
<1>3. user'[u].is = "here" /\ user'[u].pwd = p /\ \A w \in Users \ {u} : user'[w] = user[w]
  BY <1>1, <1>2
<1>4. ASSUME NEW q \in Requests PROVE Sound(q)'
  <2>1. Sound(q) /\ act'[q] = act[q]
    BY <1>1 DEF PasswordInv
  <2>2. act[q].pc \in Busy => act[q].u \in Users \ {u}
    BY <1>1, <1>2, <2>1 DEF Sound, OnItsWay
  <2> QED
    BY <1>1, <1>3, <2>1, <2>2 DEF Sound, OnItsWay, RowTrue, RevokedFirst, Busy, histories
<1>5. \A s \in DOMAIN session : session[s].u \in Users \ {u}
  BY <1>1, <1>2 DEF PasswordInv, SessionsOfUsers
<1>6. SessionsOfUsers' /\ SessionsFollowPassword'
  BY <1>1, <1>3, <1>5 DEF PasswordInv, SessionsOfUsers, SessionsFollowPassword, histories
<1>7. PasswordIntact'
  BY <1>1, <1>3, AccountActors DEF PasswordInv, PasswordIntact, histories, Unknown, Nothing
<1> QED
  BY <1>4, <1>6, <1>7 DEF PasswordInv

(* A password is saved: nobody held the row, and what lives of its sessions is excused. *)
LEMMA SaveKeeps ==
  ASSUME AccountTypes, PasswordInv, NEW r \in Requests, UpdateSave(r) PROVE PasswordInv'
<1> DEFINE u == act[r].u
<1>1. /\ user \in [Users -> UserRows] /\ act \in [Requests -> ActRecs]
      /\ \A s \in DOMAIN session : session[s].u \in Users
  BY DEF AccountTypes, AccountsTypeOK, SessionRows, ActRecs
<1>2. /\ act[r].pc = "save" /\ UNCHANGED <<session, held, swaps, accCrashes>>
      /\ u \in Users /\ act[r].new \in Secrets /\ Sound(r)
  BY <1>1 DEF UpdateSave, PasswordInv, ActRecs
<1>3. CASE ~Here(u)
  <2>1. Goto(r, "refused") /\ UNCHANGED <<user, overlap, excused>>
    BY <1>3 DEF UpdateSave
  <2>2. act'[r].pc = "refused" /\ \A q \in Requests \ {r} : act'[q] = act[q]
    BY <2>1, GotoType DEF ActPCs
  <2>3. PasswordsStay /\ Sound(r)'
    BY <1>2, <2>1, <2>2, IdleSound DEF PasswordsStay, Busy
  <2> QED
    BY <2>2, <2>3, PasswordsStayKeeps
<1>4. CASE Here(u)
  <2> DEFINE to == IF act[r].op = "social" THEN "open" ELSE "done"
  <2>1. /\ user' = [user EXCEPT ![u].pwd = Stored(r), ![u].active = ActiveAfter(r)]
        /\ overlap' = IF act[r].put /\ Holding(u) \ {r} # {} THEN overlap \cup {u} ELSE overlap
        /\ excused' = excused \cup Kept(r) /\ Goto(r, to)
    BY <1>4 DEF UpdateSave
  <2>2. /\ user'[u].pwd = Stored(r) /\ user'[u].is = "here"
        /\ \A w \in Users \ {u} : user'[w] = user[w]
        /\ overlap \subseteq overlap' /\ excused \subseteq excused'
        /\ act[r].put /\ Holding(u) \ {r} # {} => u \in overlap'
    BY <1>1, <1>2, <1>4, <2>1 DEF UserRows, Here
  <2>3. act'[r].pc = to /\ \A q \in Requests \ {r} : act'[q] = act[q]
    BY <2>1, GotoType DEF ActPCs
  <2>4. act'[r].pc = "open" => act'[r].u = u
    BY <1>1, <1>2, <2>1 DEF Goto, ActRecs
  <2>5. Sound(r)'
    BY <2>2, <2>3, <2>4 DEF Sound, OnItsWay, RowTrue, RevokedFirst, Busy
  <2>6. user'[u].pwd = user[u].pwd \/ act[r].put
    BY <2>2 DEF Stored
  <2>7. act[r].put /\ act[r].op \in WriteBacks => u \in overlap
    BY <1>2 DEF Sound, RowTrue
  <2>8. ASSUME NEW q \in Requests \ {r} PROVE Sound(q)'
    <3>1. Sound(q) /\ act'[q] = act[q] /\ act[q].u \in Users
      BY <1>1, <2>3 DEF PasswordInv, ActRecs
    <3>2. OnItsWay(q)'
      BY <2>2, <3>1 DEF Sound, OnItsWay
    <3>3. RevokedFirst(q)'
      BY <1>2, <2>2, <3>1 DEF Sound, RevokedFirst
    <3>4. RowTrue(q)'
      <4>1. CASE act[q].u = u /\ act[r].put /\ act[q].pc \in {"compare", "save"} /\ act[q].op \in WriteBacks
        <5>1. q \in Holding(u) \ {r}
          BY <4>1 DEF Holding
        <5> QED
          BY <2>2, <3>1, <4>1, <5>1 DEF RowTrue
      <4>2. CASE act[q].u # u \/ ~act[r].put
        BY <2>2, <2>6, <3>1, <4>2 DEF Sound, RowTrue
      <4>3. CASE ~(act[q].pc \in {"compare", "save"} /\ act[q].op \in WriteBacks)
        BY <3>1, <4>3 DEF RowTrue
      <4> QED
        BY <4>1, <4>2, <4>3
    <3> QED
      BY <3>2, <3>3, <3>4 DEF Sound
  <2>9. SessionsOfUsers'
    BY <1>1, <1>2, <2>2 DEF PasswordInv, SessionsOfUsers
  <2>10. SessionsFollowPassword'
    <3> SUFFICES ASSUME NEW s \in DOMAIN session, s \notin excused', session[s].live, session[s].pwd # Nothing,
                        session[s].u \notin overlap'
                 PROVE  session[s].pwd = user'[session[s].u].pwd
      BY <1>2 DEF SessionsFollowPassword
    <3>1. session[s].pwd = user[session[s].u].pwd /\ s \notin Kept(r) /\ session[s].u \in Users
      BY <1>1, <2>1, <2>2 DEF PasswordInv, SessionsFollowPassword
    <3>2. CASE session[s].u # u \/ ~act[r].put
      BY <2>2, <2>6, <3>1, <3>2
    <3>3. CASE session[s].u = u /\ act[r].put
      <4>1. act[r].op \in {"reset", "change", "admin"}
        BY <1>2, <2>2, <2>7, <3>3 DEF Sound, OnItsWay
      <4>2. act[r].op # "admin"
        BY <3>1, <3>3 DEF Kept, SessionsOf
      <4>3. act[r].op = "change" /\ s = act[r].kept
        BY <1>2, <2>2, <3>3, <4>1, <4>2 DEF Sound, RevokedFirst
      <4> QED
        BY <3>1, <4>3 DEF Kept
    <3> QED
      BY <3>2, <3>3
  <2>11. PasswordIntact'
    <3>1. act[r].put /\ act[r].op \notin WriteBacks => user'[u].pwd # Unknown
      BY <1>2, <2>2, AccountActors DEF Stored
    <3> QED
      BY <2>2, <2>6, <2>7, <3>1 DEF PasswordInv, PasswordIntact
  <2> QED
    BY <2>5, <2>8, <2>9, <2>10, <2>11 DEF PasswordInv
<1> QED
  BY <1>3, <1>4

(* A step of one request that is none of those leaves the passwords and, but for one  *)
(* that starts, a request that is no longer on its way.                               *)
LEMMA EndKeeps ==
  ASSUME AccountTypes, PasswordInv, PasswordsStay, NEW r \in Requests, act'[r].pc \notin Busy,
         \A q \in Requests \ {r} : act'[q] = act[q]
  PROVE  PasswordInv'
<1>1. Sound(r)'
  BY IdleSound
<1> QED
  BY <1>1, PasswordsStayKeeps

LEMMA StartKeeps ==
  ASSUME AccountTypes, PasswordInv,
         \/ \E r \in Requests, u \in Users :
              \/ LoginRead(r, u) \/ SocialRead(r, u) \/ ConfirmRead(r, u)
              \/ \E p \in Secrets : ResetVerify(r, u, p) \/ AdminUpdate(r, u, p)
         \/ \E r \in Requests, t \in held : DeleteStart(r, t) \/ \E p \in Secrets : ChangeRead(r, t, p)
  PROVE  PasswordInv'
<1>1. \A s \in DOMAIN session : session[s].u \in Users
  BY DEF AccountTypes, AccountsTypeOK, SessionRows
<1>2. PICK r \in Requests, u \in Users :
        \/ Start(r, "login", u, "open") \/ Start(r, "social", u, "compare")
        \/ Start(r, "confirm", u, "compare") \/ Start(r, "delete", u, "revoke")
        \/ \E p \in Secrets : \/ StartChange(r, "reset", u, "load", p, Nothing)
                               \/ StartChange(r, "admin", u, "compare", p, Nothing)
                               \/ \E t \in held : StartChange(r, "change", u, "revoke", p, t.s)
  <2>1. CASE \E r \in Requests, u \in Users :
              \/ LoginRead(r, u) \/ SocialRead(r, u) \/ ConfirmRead(r, u)
              \/ \E p \in Secrets : ResetVerify(r, u, p) \/ AdminUpdate(r, u, p)
    BY <2>1 DEF LoginRead, SocialRead, ConfirmRead, ResetVerify, AdminUpdate
  <2>2. ASSUME NEW r \in Requests, NEW t \in held, DeleteStart(r, t) \/ \E p \in Secrets : ChangeRead(r, t, p)
        PROVE  /\ session[t.s].u \in Users
               /\ \/ Start(r, "delete", session[t.s].u, "revoke")
                  \/ \E p \in Secrets : StartChange(r, "change", session[t.s].u, "revoke", p, t.s)
    BY <1>1, <2>2 DEF DeleteStart, ChangeRead, Accepts, Live
  <2> QED
    BY <2>1, <2>2
<1>3. Sound(r)' /\ PasswordsStay /\ \A q \in Requests \ {r} : act'[q] = act[q]
  BY <1>2, StartSound
<1> QED
  BY <1>3, PasswordsStayKeeps

LEMMA RefreshKeepsPasswords ==
  ASSUME AccountTypes, PasswordInv,
         \/ \E r \in Requests, t \in held : RefreshSwap(r, t)
         \/ \E r \in Requests : RefreshReread(r) \/ RefreshIssue(r)
  PROVE  PasswordInv'
<1>0. act \in [Requests -> ActRecs] /\ \A s \in DOMAIN session : session[s] \in SessionRows
  BY DEF AccountTypes, AccountsTypeOK, ActRecs
<1>1. ASSUME NEW r \in Requests, NEW t \in held, RefreshSwap(r, t) PROVE PasswordInv'
  <2>1. CASE t.s \in Swappable(t)
    <3>1. /\ session' = [session EXCEPT ![t.s].hash = r] /\ t.s \in DOMAIN session
          /\ act' = [act EXCEPT ![r] = [@ EXCEPT !.pc = "reread", !.op = "refresh", !.kept = t.s]]
          /\ UNCHANGED <<user, held, overlap, excused, accCrashes>>
      BY <1>1, <2>1 DEF RefreshSwap, Swappable
    <3>2. act'[r].pc = "reread" /\ \A q \in Requests \ {r} : act'[q] = act[q]
      BY <1>0, <3>1 DEF ActRecs
    <3>3. PasswordsStay
      BY <1>0, <3>1 DEF PasswordsStay, SessionRows
    <3> QED
      BY <3>2, <3>3, EndKeeps DEF Busy
  <2>2. CASE t.s \notin Swappable(t)
    <3>1. Goto(r, "refused") /\ UNCHANGED <<user, session, overlap, excused>>
      BY <1>1, <2>2 DEF RefreshSwap
    <3>2. act'[r].pc = "refused" /\ \A q \in Requests \ {r} : act'[q] = act[q]
      BY <3>1, GotoType DEF ActPCs
    <3> QED
      BY <3>1, <3>2, EndKeeps DEF Busy, PasswordsStay
  <2> QED
    BY <2>1, <2>2
<1>2. ASSUME NEW r \in Requests, RefreshReread(r) \/ RefreshIssue(r) PROVE PasswordInv'
  <2>1. /\ UNCHANGED <<user, session, overlap, excused>>
        /\ \/ Goto(r, "refused") \/ Goto(r, "done")
           \/ Goto(r, "role") /\ act[r].pc = "reread"
    BY <1>2 DEF RefreshReread, RefreshIssue, histories
  <2>2. act[r].pc = "reread" => act[r].kept \in Requests
    BY DEF AccountTypes, RefreshKeeps, Knows
  <2>3. act'[r].pc \notin Busy /\ \A q \in Requests \ {r} : act'[q] = act[q]
    BY <2>1, <2>2, GotoType DEF ActPCs, Busy
  <2> QED
    BY <2>1, <2>3, EndKeeps DEF PasswordsStay
<1> QED
  BY <1>1, <1>2

LEMMA RemoveKeeps ==
  ASSUME AccountTypes, PasswordInv,
         \/ \E u \in Users : AdminRemove(u)
         \/ \E r \in Requests : RemoveUser(r) \/ AccountCrash(r)
         \/ \E t \in held : Logout(t)
  PROVE  PasswordInv'
<1>0. /\ user \in [Users -> UserRows] /\ act \in [Requests -> ActRecs]
      /\ \A s \in DOMAIN session : session[s] \in SessionRows
  BY DEF AccountTypes, AccountsTypeOK, ActRecs
<1>1. ASSUME NEW u \in Users, AdminRemove(u) PROVE PasswordInv'
  <2>1. PasswordsStay /\ UNCHANGED act
    BY <1>0, <1>1 DEF AdminRemove, PasswordsStay, histories, UserRows
  <2> QED
    BY <2>1, PasswordsStayKeeps
<1>2. ASSUME NEW r \in Requests, RemoveUser(r) \/ AccountCrash(r) PROVE PasswordInv'
  <2>1. Goto(r, "done") \/ Goto(r, "refused")
    BY <1>2 DEF RemoveUser, AccountCrash
  <2>2. act'[r].pc \notin Busy /\ \A q \in Requests \ {r} : act'[q] = act[q]
    BY <2>1, GotoType DEF ActPCs, Busy
  <2>3. PasswordsStay
    BY <1>0, <1>2 DEF RemoveUser, AccountCrash, PasswordsStay, histories, UserRows
  <2> QED
    BY <2>2, <2>3, EndKeeps
<1>3. ASSUME NEW t \in held, Logout(t) PROVE PasswordInv'
  <2>1. Revoke({t.s}) /\ UNCHANGED <<user, held, act, histories>>
    BY <1>3 DEF Logout
  <2>2. \A s \in DOMAIN session : session'[s] = [session[s] EXCEPT !.live = @ /\ s \notin {t.s}]
    BY <2>1 DEF Revoke
  <2>3. DOMAIN session' = DOMAIN session
    BY <2>1 DEF Revoke
  <2>4. PasswordsStay
    BY <1>0, <2>1, <2>2, <2>3 DEF PasswordsStay, SessionRows, histories
  <2> QED
    BY <2>1, <2>4, PasswordsStayKeeps
<1> QED
  BY <1>1, <1>2, <1>3

LEMMA PasswordStep ==
  ASSUME AccountTypes, PasswordInv, [AccountsNext]_accountVars PROVE PasswordInv'
<1>1. CASE UNCHANGED accountVars
  BY <1>1, PasswordsStayKeeps DEF accountVars, PasswordsStay
<1>2. CASE AccountsNext
  BY <1>2, CreateKeeps, StartKeeps, OpenFollows, RefreshKeepsPasswords, RemoveKeeps, LoadKeeps, RevokeKeeps,
     CompareKeeps, SaveKeeps DEF AccountsNext
<1> QED
  BY <1>1, <1>2

LEMMA PasswordsHold == AccountsSpec => [](AccountTypes /\ PasswordInv)
<1>1. AccountsInit => AccountTypes /\ PasswordInv
  <2> SUFFICES ASSUME AccountsInit PROVE PasswordInv
    BY InvInit DEF AccountInv
  <2>1. /\ DOMAIN session = {} /\ \A u \in Users : user[u].pwd = Nothing
        /\ \A q \in Requests : act[q].pc = "idle"
    BY NoRequestType DEF AccountsInit, NoUser
  <2> QED
    BY <2>1 DEF PasswordInv, Sound, OnItsWay, RowTrue, RevokedFirst, Busy, SessionsOfUsers,
                SessionsFollowPassword, PasswordIntact, Unknown, Nothing
<1>2. AccountTypes /\ PasswordInv /\ [AccountsNext]_accountVars => (AccountTypes /\ PasswordInv)'
  BY ActionTypes, PasswordStep
<1> QED
  BY <1>1, <1>2, PTL DEF AccountsSpec

(* Once a password is another one, no session that was opened with the old one lives,  *)
(* but for those kept by who changed it, opened while it was being changed, left by an  *)
(* administrator, and those of a user whose row another request was writing back: for   *)
(* any number of logins, resets, changes and removals that interleave and die           *)
(* (resetPassword and AuthService.update revoke before they save).                      *)
THEOREM OldSessionsDie == AccountsSpec => []SessionsFollowPassword
<1>1. AccountTypes /\ PasswordInv => SessionsFollowPassword
  BY DEF PasswordInv
<1> QED
  BY <1>1, PasswordsHold, PTL

(* A user's password is never hashed twice but where a write back of its row met a     *)
(* change of it: UsersService.update reads the hash again before it hashes.            *)
THEOREM NobodyLockedOut == AccountsSpec => []PasswordIntact
<1>1. AccountTypes /\ PasswordInv => PasswordIntact
  BY DEF PasswordInv
<1> QED
  BY <1>1, PasswordsHold, PTL

-----------------------------------------------------------------------------
(* AuthRate *)

(* Types *)

TryRecs == [pc : TryPCs, email : Emails, seen : Nat]

LEMMA HitsFinite ==
  ASSUME NEW e
  PROVE  IsFiniteSet(Hits(e)) /\ Cardinality(Hits(e)) \in Nat
  BY RateBounds, FS_Subset, FS_CardinalityType DEF Hits

LEMMA RateInitType == RateInit => RateTypeOK
  BY RateBounds DEF RateInit, RateTypeOK, TryPCs

LEMMA RateNextType == RateTypeOK /\ [RateNext]_rateVars => RateTypeOK'
<1> SUFFICES ASSUME RateTypeOK, [RateNext]_rateVars PROVE RateTypeOK'
  OBVIOUS
<1> USE DEF RateTypeOK, TryPCs
<1>1. CASE UNCHANGED rateVars
  BY <1>1 DEF rateVars
<1>2. ASSUME NEW a \in Attempts, NEW e \in Emails, TryStart(a, e) PROVE RateTypeOK'
  BY <1>2 DEF TryStart
<1>3. ASSUME NEW a \in Attempts, TryLock(a) PROVE RateTypeOK'
  BY <1>3 DEF TryLock
<1>4. ASSUME NEW a \in Attempts, TryCount(a) PROVE RateTypeOK'
  BY <1>4, HitsFinite DEF TryCount
<1>5. ASSUME NEW a \in Attempts, TrySave(a) PROVE RateTypeOK'
  BY <1>5 DEF TrySave
<1>6. ASSUME NEW a \in Attempts, HitAges(a) PROVE RateTypeOK'
  BY <1>6 DEF HitAges
<1>7. ASSUME NEW a \in Attempts, RateCrash(a) PROVE RateTypeOK'
  BY <1>7 DEF RateCrash
<1> QED
  BY <1>1, <1>2, <1>3, <1>4, <1>5, <1>6, <1>7 DEF RateNext

-----------------------------------------------------------------------------
(* The invariant *)

\* Requests for one email hold its lock one at a time.
TurnsTaken ==
  \A a, b \in Attempts :
    HasRateLock(a) /\ HasRateLock(b) /\ try[a].email = try[b].email => a = b

\* A hit is that of a request that has passed.
HitsPassed == \A a \in Attempts : hit[a] # "none" => try[a].pc = "passed"

\* What a request with the lock has counted is still true when it saves its hit.
CountHolds ==
  \A a \in Attempts : try[a].pc = "save" => Cardinality(Hits(try[a].email)) < EmailMax

RateInv == RateTypeOK /\ TurnsTaken /\ HitsPassed /\ CountHolds /\ HitsWithinLimit

(* A set that shrinks has no more elements. *)
LEMMA FewerHits ==
  ASSUME NEW e, Hits(e)' \subseteq Hits(e)
  PROVE  Cardinality(Hits(e)') <= Cardinality(Hits(e)) /\ Cardinality(Hits(e)') \in Nat
  BY HitsFinite, FS_Subset, FS_CardinalityType

(* The lock: it is taken where nobody has it, and kept by no other step. *)
LEMMA StepTurns == RateInv /\ [RateNext]_rateVars => TurnsTaken'
<1> SUFFICES ASSUME RateInv, [RateNext]_rateVars PROVE TurnsTaken'
  OBVIOUS
<1> USE DEF RateInv, RateTypeOK, TryPCs, TurnsTaken, HasRateLock
<1>1. CASE UNCHANGED rateVars
  BY <1>1 DEF rateVars
<1>2. ASSUME NEW a \in Attempts, NEW e \in Emails, TryStart(a, e) PROVE TurnsTaken'
  BY <1>2 DEF TryStart
<1>3. ASSUME NEW a \in Attempts, TryLock(a) PROVE TurnsTaken'
  BY <1>3 DEF TryLock, RateLocked
<1>4. ASSUME NEW a \in Attempts, TryCount(a) PROVE TurnsTaken'
  BY <1>4 DEF TryCount
<1>5. ASSUME NEW a \in Attempts, TrySave(a) PROVE TurnsTaken'
  BY <1>5 DEF TrySave
<1>6. ASSUME NEW a \in Attempts, HitAges(a) PROVE TurnsTaken'
  BY <1>6 DEF HitAges
<1>7. ASSUME NEW a \in Attempts, RateCrash(a) PROVE TurnsTaken'
  BY <1>7 DEF RateCrash
<1> QED
  BY <1>1, <1>2, <1>3, <1>4, <1>5, <1>6, <1>7 DEF RateNext

(* The count and the limit follow from who may save. *)
LEMMA StepLimit ==
  RateInv /\ [RateNext]_rateVars => HitsPassed' /\ CountHolds' /\ HitsWithinLimit'
<1> SUFFICES ASSUME RateInv, [RateNext]_rateVars PROVE HitsPassed' /\ CountHolds' /\ HitsWithinLimit'
  OBVIOUS
<1> DEFINE Few == \A e \in Emails : Hits(e)' \subseteq Hits(e)
           Still == \A b \in Attempts : try'[b].pc = "save" =>
                      try[b].pc = "save" /\ try'[b].email = try[b].email
           Goal == HitsPassed' /\ CountHolds' /\ HitsWithinLimit'
<1>0. RateTypeOK /\ RateTypeOK' /\ EmailMax \in Nat
  BY RateNextType, RateBounds DEF RateInv
<1>1. ASSUME Few, Still PROVE CountHolds' /\ HitsWithinLimit'
  <2>1. ASSUME NEW e \in Emails PROVE Cardinality(Hits(e)') <= EmailMax
    BY <1>0, <1>1, <2>1, FewerHits, HitsFinite DEF RateInv, HitsWithinLimit
  <2>2. ASSUME NEW b \in Attempts, try'[b].pc = "save"
        PROVE  (Cardinality(Hits(try[b].email)) < EmailMax)'
    <3>1. try[b].pc = "save" /\ try'[b].email = try[b].email /\ try[b].email \in Emails
      BY <1>0, <1>1, <2>2 DEF RateTypeOK
    <3>2. PICK e \in Emails : e = try[b].email
      BY <3>1
    <3>3. Cardinality(Hits(e)) < EmailMax
      BY <3>1, <3>2 DEF RateInv, CountHolds
    <3>4. Cardinality(Hits(e)') <= Cardinality(Hits(e)) /\ Cardinality(Hits(e)') \in Nat
      BY <1>1, FewerHits
    <3>5. Hits(try[b].email)' = Hits(e)'
      BY <3>1, <3>2 DEF Hits
    <3> QED
      BY <1>0, <3>3, <3>4, <3>5, HitsFinite
  <2> QED
    BY <2>1, <2>2 DEF CountHolds, HitsWithinLimit
<1> USE <1>0 DEF RateTypeOK, TryPCs
<1>2. CASE UNCHANGED rateVars
  <2>1. Few /\ Still /\ HitsPassed'
    BY <1>2 DEF rateVars, Hits, HitsPassed, RateInv
  <2> QED
    BY <2>1, <1>1
<1>3. ASSUME NEW a \in Attempts, NEW e \in Emails, TryStart(a, e) PROVE Goal
  <2>1. Few /\ Still /\ HitsPassed'
    BY <1>3 DEF TryStart, Hits, HitsPassed, RateInv
  <2> QED
    BY <2>1, <1>1
<1>4. ASSUME NEW a \in Attempts, TryLock(a) PROVE Goal
  <2>1. Few /\ Still /\ HitsPassed'
    BY <1>4 DEF TryLock, Hits, HitsPassed, RateInv
  <2> QED
    BY <2>1, <1>1
<1>5. ASSUME NEW a \in Attempts, RateCrash(a) PROVE Goal
  <2>1. Few /\ Still /\ HitsPassed'
    BY <1>5 DEF RateCrash, Hits, HitsPassed, RateInv
  <2> QED
    BY <2>1, <1>1
<1>6. ASSUME NEW a \in Attempts, HitAges(a) PROVE Goal
  <2>1. Few /\ Still /\ HitsPassed'
    BY <1>6 DEF HitAges, Hits, HitsPassed, RateInv
  <2> QED
    BY <2>1, <1>1
<1>7. ASSUME NEW a \in Attempts, TryCount(a) PROVE Goal
  <2>1. HitsPassed' /\ \A e : Hits(e)' = Hits(e)
    BY <1>7 DEF TryCount, Hits, HitsPassed, RateInv
  <2>2. HitsWithinLimit'
    BY <2>1 DEF HitsWithinLimit, RateInv
  <2>3. ASSUME NEW b \in Attempts, try'[b].pc = "save"
        PROVE  (Cardinality(Hits(try[b].email)) < EmailMax)'
    <3>1. try'[b].email = try[b].email
      BY <1>7 DEF TryCount
    <3>2. PICK e \in Emails : e = try[b].email
      OBVIOUS
    <3>3. Hits(try[b].email)' = Hits(e)
      BY <1>7, <3>1, <3>2 DEF TryCount, Hits
    <3>4. CASE b = a
      <4>1. ~(Cardinality(Hits(try[a].email)) >= EmailMax)
        BY <1>7, <2>3, <3>4 DEF TryCount
      <4>2. Hits(try[a].email) = Hits(e)
        BY <3>2, <3>4
      <4> QED
        BY <3>3, <4>1, <4>2, HitsFinite
    <3>5. CASE b # a
      BY <1>7, <2>3, <3>2, <3>3, <3>5 DEF TryCount, RateInv, CountHolds
    <3> QED
      BY <3>4, <3>5
  <2> QED
    BY <2>1, <2>2, <2>3 DEF CountHolds
<1>8. ASSUME NEW a \in Attempts, TrySave(a) PROVE Goal
  <2>1. /\ try[a].pc = "save" /\ try'[a].pc = "passed" /\ hit'[a] = "recent" /\ hit[a] = "none"
        /\ \A b \in Attempts : try'[b].email = try[b].email
        /\ \A b \in Attempts \ {a} : try'[b] = try[b] /\ hit'[b] = hit[b]
    BY <1>8 DEF TrySave, RateInv, HitsPassed
  <2>2. HitsPassed'
    BY <2>1 DEF HitsPassed, RateInv
  <2>3. PICK e \in Emails : e = try[a].email
    OBVIOUS
  <2>4. Hits(e)' = Hits(e) \cup {a} /\ a \notin Hits(e)
    BY <2>1, <2>3 DEF Hits
  <2>5. \A d \in Emails \ {e} : Hits(d)' = Hits(d)
    BY <2>1, <2>3 DEF Hits
  <2>6. Cardinality(Hits(e)') = Cardinality(Hits(e)) + 1
    BY <2>4, HitsFinite, FS_AddElement
  <2>7. Cardinality(Hits(e)) < EmailMax
    BY <2>1, <2>3 DEF RateInv, CountHolds
  <2>8. HitsWithinLimit'
    BY <2>5, <2>6, <2>7, HitsFinite DEF HitsWithinLimit, RateInv
  <2>9. ASSUME NEW b \in Attempts, try'[b].pc = "save"
        PROVE  (Cardinality(Hits(try[b].email)) < EmailMax)'
    <3>1. b # a /\ try[b].pc = "save" /\ try[b].email # e
      BY <2>1, <2>3, <2>9 DEF RateInv, TurnsTaken, HasRateLock
    <3>2. PICK d \in Emails : d = try[b].email
      OBVIOUS
    <3>3. Hits(try[b].email)' = Hits(d)
      BY <2>1, <2>5, <3>1, <3>2 DEF Hits
    <3> QED
      BY <3>1, <3>2, <3>3 DEF RateInv, CountHolds
  <2> QED
    BY <2>2, <2>8, <2>9 DEF CountHolds
<1> QED
  BY <1>2, <1>3, <1>4, <1>5, <1>6, <1>7, <1>8 DEF RateNext

(* assertEmailAuthRate keeps the limit of an email for any number of requests that
   overlap, die or see their hits leave the window: the count that a request takes
   under the advisory lock still holds when it stores its own hit. *)
THEOREM LimitHolds == RateSpec => []HitsWithinLimit
<1>1. RateInit => RateInv
  <2> SUFFICES ASSUME RateInit PROVE RateInv
    OBVIOUS
  <2>1. \A e : Hits(e) = {}
    BY DEF RateInit, Hits
  <2>2. \A e : Cardinality(Hits(e)) <= EmailMax
    BY <2>1, FS_EmptySet, RateBounds
  <2> QED
    BY <2>2, RateInitType DEF RateInit, RateInv, TurnsTaken, HitsPassed, CountHolds, HitsWithinLimit,
       HasRateLock
<1>2. RateInv /\ [RateNext]_rateVars => RateInv'
  BY RateNextType, StepTurns, StepLimit DEF RateInv
<1> QED
  BY <1>1, <1>2, PTL DEF RateSpec, RateInv

-----------------------------------------------------------------------------
(* PhoneLogin: types *)

LoginRecs == [pc : LoginPCs, kind : Kinds, phone : Phones, c : Codes, row : CodeRows, user : Logins \cup {NoOne}]
IssueRecs == [pc : {"idle", "save", "done"}, phone : Phones]

PhoneTypes ==
  /\ code \in [Codes -> CodeRows]
  /\ issue \in [Issuers -> IssueRecs]
  /\ login \in [Logins -> LoginRecs]
  /\ account \in [Logins -> Phones \cup {NoOne}] /\ profile \subseteq Logins
  /\ owner \in [Orders -> Logins \cup {NoOne}]
  /\ placed \in [Orders -> Phones \cup {NoOne}]
  /\ admitted \in [Codes -> Nat] /\ guesses \in [Codes -> Nat] /\ stale \in [Codes -> Nat]

\* What a code has let in, and what was tried against it, by its row and the late saves.
CodeCounted(c) ==
  /\ code[c].attempts <= MaxAttempts
  /\ guesses[c] <= MaxAttempts * stale[c] + code[c].attempts
  /\ admitted[c] <= stale[c] + (IF code[c].consumed THEN 1 ELSE 0)
  /\ code[c].age = "none" => guesses[c] = 0 /\ admitted[c] = 0

\* A check compares with a row of a code that is there, was unused and not tried too often.
Comparing(k) == k.pc = "compare" => k.row.attempts < MaxAttempts /\ ~k.row.consumed /\ code[k.c].age # "none"

PhoneInv == PhoneTypes /\ (\A c \in Codes : CodeCounted(c)) /\ \A l \in Logins : Comparing(login[l])

LEMMA NoLoginOk == NoLogin \in LoginRecs /\ NoLogin.pc = "idle" /\ NoCode \in CodeRows /\ 1 \in Codes
<1>1. AnyPhone \in Phones
  BY LoginActors DEF AnyPhone
<1>2. NoCode \in CodeRows
  BY <1>1 DEF NoCode, CodeRows, Ages
<1>3. 1 \in Codes
  BY LoginBounds DEF Codes
<1> QED
  BY <1>1, <1>2, <1>3 DEF NoLogin, LoginRecs, LoginPCs, Kinds

LEMMA EndOk ==
  ASSUME NEW l \in Logins, NEW pc \in {"refused", "in"}, End(l, pc)
  PROVE  \E k \in LoginRecs : login' = [login EXCEPT ![l] = k] /\ k.pc # "compare"
<1>1. [NoLogin EXCEPT !.pc = pc] \in LoginRecs /\ [NoLogin EXCEPT !.pc = pc].pc = pc
  BY NoLoginOk DEF LoginRecs, LoginPCs
<1> QED
  BY <1>1 DEF End

-----------------------------------------------------------------------------
(* PhoneLogin: the steps *)

\* What a login does to its own record, the codes being as they were.
LEMMA LoginMoves ==
  ASSUME PhoneInv, NEW l \in Logins, NEW k \in LoginRecs, login' = [login EXCEPT ![l] = k], Comparing(k),
         UNCHANGED <<codeVars, issue, placed>>,
         account' \in [Logins -> Phones \cup {NoOne}], profile' \subseteq Logins, owner' \in [Orders -> Logins \cup {NoOne}]
  PROVE  PhoneInv'
<1>1. PhoneTypes'
  BY DEF PhoneInv, PhoneTypes, codeVars
<1>2. \A c \in Codes : CodeCounted(c)'
  BY DEF PhoneInv, CodeCounted, codeVars
<1>3. \A m \in Logins : login'[m] = k \/ login'[m] = login[m]
  BY DEF PhoneInv, PhoneTypes
<1>4. \A m \in Logins : Comparing(login[m])'
  BY <1>3 DEF PhoneInv, Comparing, codeVars
<1> QED
  BY <1>1, <1>2, <1>4 DEF PhoneInv

LEMMA IssueKeeps ==
  ASSUME PhoneInv, NEW i \in Issuers, IssueSave(i) \/ \E p \in Phones : IssueCount(i, p)
  PROVE  PhoneInv'
<1>0. issue \in [Issuers -> IssueRecs] /\ issue[i] \in IssueRecs /\ code \in [Codes -> CodeRows]
  BY DEF PhoneInv, PhoneTypes
<1>1. ASSUME NEW p \in Phones, IssueCount(i, p) PROVE PhoneInv'
  <2>1. issue' \in [Issuers -> IssueRecs]
    BY <1>0, <1>1 DEF IssueCount, IssueRecs
  <2>2. UNCHANGED <<codeVars, login, account, profile, orderVars>>
    BY <1>1 DEF IssueCount
  <2> QED
    BY <2>1, <2>2 DEF PhoneInv, PhoneTypes, CodeCounted, Comparing, codeVars, orderVars
<1>2. CASE IssueSave(i)
  <2>1. PICK c \in Codes : code[c].age = "none" /\ code' = [code EXCEPT ![c] = [NoCode EXCEPT !.phone = issue[i].phone, !.age = "valid"]]
    BY <1>2 DEF IssueSave
  <2> DEFINE new == [NoCode EXCEPT !.phone = issue[i].phone, !.age = "valid"]
  <2>2. new \in CodeRows /\ new.attempts = 0 /\ ~new.consumed /\ new.age = "valid"
    BY <1>0, NoLoginOk DEF CodeRows, Ages, IssueRecs, NoCode
  <2> HIDE DEF new
  <2>3. issue' \in [Issuers -> IssueRecs]
    BY <1>0, <1>2 DEF IssueSave, IssueRecs
  <2>4. UNCHANGED <<login, account, profile, orderVars, admitted, guesses, stale>>
    BY <1>2 DEF IssueSave
  <2>5. code' \in [Codes -> CodeRows] /\ code'[c] = new /\ \A d \in Codes \ {c} : code'[d] = code[d]
    BY <1>0, <2>1, <2>2 DEF new
  <2>6. PhoneTypes'
    BY <2>3, <2>4, <2>5 DEF PhoneInv, PhoneTypes, orderVars
  <2>7. CodeCounted(c)'
    <3>1. guesses[c] = 0 /\ admitted[c] = 0 /\ stale[c] \in Nat
      BY <2>1 DEF PhoneInv, PhoneTypes, CodeCounted
    <3>2. MaxAttempts * stale[c] \in Nat /\ MaxAttempts \in Nat
      BY <3>1, LoginBounds
    <3>3. guesses[c] <= MaxAttempts * stale[c] + 0 /\ admitted[c] <= stale[c] + 0
      BY <3>1, <3>2
    <3> QED
      BY <2>2, <2>4, <2>5, <3>1, <3>2, <3>3 DEF CodeCounted
  <2>8. \A d \in Codes \ {c} : CodeCounted(d)'
    BY <2>4, <2>5 DEF PhoneInv, CodeCounted
  <2>9. \A l \in Logins : Comparing(login[l])'
    BY <2>1, <2>2, <2>4, <2>5 DEF PhoneInv, PhoneTypes, LoginRecs, Comparing
  <2> QED
    BY <2>6, <2>7, <2>8, <2>9 DEF PhoneInv
<1> QED
  BY <1>1, <1>2

LEMMA GrowKeeps == ASSUME PhoneInv, NEW c \in Codes, Grow(c) PROVE PhoneInv'
<1>0. code \in [Codes -> CodeRows] /\ code[c] \in CodeRows
  BY DEF PhoneInv, PhoneTypes
<1>1. PICK age \in {"expired", "past"} : code' = [code EXCEPT ![c] = [code[c] EXCEPT !.age = age]]
  BY DEF Grow
<1>2. UNCHANGED <<issue, login, account, profile, orderVars, admitted, guesses, stale>>
  BY DEF Grow
<1> DEFINE older == [code[c] EXCEPT !.age = age]
<1>3. older \in CodeRows /\ older.attempts = code[c].attempts /\ older.consumed = code[c].consumed /\ older.age # "none"
  BY <1>0 DEF CodeRows, Ages
<1> HIDE DEF older
<1>4. code' \in [Codes -> CodeRows] /\ code'[c] = older /\ \A d \in Codes \ {c} : code'[d] = code[d]
  BY <1>0, <1>1, <1>3 DEF older
<1>5. PhoneTypes'
  BY <1>2, <1>4 DEF PhoneInv, PhoneTypes, orderVars
<1>6. \A d \in Codes : CodeCounted(d)'
  BY <1>2, <1>3, <1>4 DEF PhoneInv, CodeCounted
<1>7. \A l \in Logins : Comparing(login[l])'
  BY <1>2, <1>3, <1>4 DEF PhoneInv, PhoneTypes, LoginRecs, Comparing
<1> QED
  BY <1>5, <1>6, <1>7 DEF PhoneInv

LEMMA CheckReadKeeps ==
  ASSUME PhoneInv, NEW l \in Logins, NEW kind \in Kinds, NEW p \in Phones, CheckRead(l, kind, p)
  PROVE  PhoneInv'
<1>0. login[l] \in LoginRecs /\ code \in [Codes -> CodeRows]
  BY DEF PhoneInv, PhoneTypes
<1>1. UNCHANGED <<codeVars, issue, account, profile, orderVars>>
  BY DEF CheckRead
<1>2. CASE End(l, "refused")
  BY <1>1, <1>2, EndOk, LoginMoves DEF Comparing, PhoneInv, PhoneTypes, orderVars
<1>3. CASE ~End(l, "refused")
  <2> DEFINE c == Max(Unused(p))
             k == [login[l] EXCEPT !.pc = "compare", !.kind = kind, !.phone = p, !.c = c, !.row = code[c]]
  <2>1. Unused(p) # {} /\ code[c].age = "valid" /\ code[c].attempts < MaxAttempts /\ login' = [login EXCEPT ![l] = k]
    BY <1>3 DEF CheckRead
  <2>2. c \in Unused(p)
    <3>1. Unused(p) \subseteq 0..MaxCodes /\ MaxCodes \in Nat
      BY LoginBounds DEF Unused, Issued, Codes
    <3> QED
      BY <2>1, <3>1, MaxOf
  <2>3. c \in Codes /\ ~code[c].consumed
    BY <2>2 DEF Unused, Issued
  <2> HIDE DEF c
  <2>4. k \in LoginRecs /\ k.pc = "compare" /\ k.c = c /\ k.row = code[c]
    BY <1>0, <2>3 DEF LoginRecs, LoginPCs
  <2>5. Comparing(k)
    BY <2>1, <2>3, <2>4 DEF Comparing
  <2> HIDE DEF k
  <2> QED
    BY <1>1, <2>1, <2>4, <2>5, LoginMoves DEF PhoneInv, PhoneTypes, orderVars
<1> QED
  BY <1>2, <1>3

(* Of the guesses and of those let in: a save that is in time adds to its row's *)
(* own count what a late one adds to the late saves.                            *)
LEMMA CheckSaveCounts ==
  ASSUME PhoneInv, NEW l \in Logins, NEW right \in BOOLEAN, CheckSave(l, right)
  PROVE  (\A c \in Codes : CodeCounted(c)') /\ code' \in [Codes -> CodeRows]
         /\ guesses' \in [Codes -> Nat] /\ admitted' \in [Codes -> Nat] /\ stale' \in [Codes -> Nat]
         /\ \A c \in Codes : code[c].age # "none" => code'[c].age # "none"
<1>a. login[l] \in LoginRecs
  BY DEF PhoneInv, PhoneTypes
<1>b. PICK c \in Codes, row \in CodeRows : c = login[l].c /\ row = login[l].row
  BY <1>a DEF LoginRecs
<1> DEFINE new == Checked(l, right)
<1>0. /\ code \in [Codes -> CodeRows] /\ c \in Codes /\ row \in CodeRows /\ code[c] \in CodeRows
      /\ guesses \in [Codes -> Nat] /\ admitted \in [Codes -> Nat] /\ stale \in [Codes -> Nat]
      /\ CodeCounted(c) /\ row.attempts < MaxAttempts /\ ~row.consumed /\ code[c].age # "none"
  BY <1>b DEF PhoneInv, PhoneTypes, CheckSave, Comparing
<1>1. /\ code' = [code EXCEPT ![c] = new] /\ guesses' = [guesses EXCEPT ![c] = @ + 1]
      /\ admitted' = [admitted EXCEPT ![c] = IF right THEN @ + 1 ELSE @]
      /\ stale' = [stale EXCEPT ![c] = IF Newer(l) THEN @ + 1 ELSE @]
  BY <1>b DEF CheckSave, Record
<1>2. Newer(l) <=> code[c].attempts # row.attempts \/ code[c].consumed # row.consumed
  BY <1>b DEF Newer
<1>3. /\ new \in CodeRows /\ new.attempts = row.attempts + 1 /\ new.consumed = right /\ new.age = code[c].age
      /\ row.attempts \in Nat /\ code[c].attempts \in Nat /\ row.consumed \in BOOLEAN /\ code[c].consumed \in BOOLEAN
  <2>1. new = [row EXCEPT !.age = code[c].age, !.attempts = row.attempts + 1, !.consumed = right]
    BY <1>b DEF Checked
  <2>2. /\ row.attempts \in Nat /\ code[c].attempts \in Nat /\ row.consumed \in BOOLEAN /\ code[c].consumed \in BOOLEAN
        /\ code[c].age \in Ages
    BY <1>0 DEF CodeRows
  <2>3. row.attempts + 1 \in Nat
    BY <2>2
  <2> HIDE DEF new
  <2> QED
    BY <1>0, <2>1, <2>2, <2>3 DEF CodeRows
<1> HIDE DEF new
<1>4. code' \in [Codes -> CodeRows] /\ code'[c] = new /\ \A d \in Codes \ {c} : code'[d] = code[d]
  BY <1>0, <1>1, <1>3
<1>5. /\ guesses' \in [Codes -> Nat] /\ guesses'[c] = guesses[c] + 1 /\ \A d \in Codes \ {c} : guesses'[d] = guesses[d]
  BY <1>0, <1>1
<1>6. /\ admitted' \in [Codes -> Nat] /\ admitted'[c] = (IF right THEN admitted[c] + 1 ELSE admitted[c])
      /\ \A d \in Codes \ {c} : admitted'[d] = admitted[d]
  BY <1>0, <1>1
<1>7. /\ stale' \in [Codes -> Nat] /\ stale'[c] = (IF Newer(l) THEN stale[c] + 1 ELSE stale[c])
      /\ \A d \in Codes \ {c} : stale'[d] = stale[d]
  BY <1>0, <1>1
<1>8. \A d \in Codes \ {c} : CodeCounted(d)'
  BY <1>4, <1>5, <1>6, <1>7 DEF PhoneInv, CodeCounted
<1>9. new.attempts <= MaxAttempts
  BY <1>0, <1>3, LoginBounds
<1>10. guesses'[c] <= MaxAttempts * stale'[c] + new.attempts
  <2> DEFINE most == MaxAttempts * stale[c]
  <2>1. most \in Nat /\ MaxAttempts \in Nat /\ stale[c] \in Nat /\ guesses[c] \in Nat /\ guesses[c] <= most + code[c].attempts
        /\ code[c].attempts <= MaxAttempts
    BY <1>0, LoginBounds DEF CodeCounted
  <2>2. MaxAttempts * (stale[c] + 1) = most + MaxAttempts
    BY <2>1
  <2>3. CASE Newer(l)
    <3>1. MaxAttempts * stale'[c] = most + MaxAttempts
      BY <1>7, <2>2, <2>3
    <3> HIDE DEF most
    <3>2. guesses[c] + 1 <= most + MaxAttempts + (row.attempts + 1)
      BY <1>3, <2>1
    <3> QED
      BY <1>3, <1>5, <3>1, <3>2
  <2>4. CASE ~Newer(l)
    <3>1. MaxAttempts * stale'[c] = most /\ code[c].attempts = row.attempts
      BY <1>2, <1>7, <2>4
    <3> HIDE DEF most
    <3>2. guesses[c] + 1 <= most + (row.attempts + 1)
      BY <1>3, <2>1, <3>1
    <3> QED
      BY <1>3, <1>5, <3>1, <3>2
  <2> QED
    BY <2>3, <2>4
<1>11. admitted'[c] <= stale'[c] + (IF right THEN 1 ELSE 0)
  <2>1. stale[c] \in Nat /\ admitted[c] \in Nat /\ admitted[c] <= stale[c] + (IF code[c].consumed THEN 1 ELSE 0)
    BY <1>0 DEF CodeCounted
  <2>2. CASE Newer(l)
    BY <1>6, <1>7, <2>1, <2>2
  <2>3. CASE ~Newer(l)
    <3>1. ~code[c].consumed
      BY <1>0, <1>2, <2>3
    <3> QED
      BY <1>6, <1>7, <2>1, <2>3, <3>1
  <2> QED
    BY <2>2, <2>3
<1>12. CodeCounted(c)'
  <2>1. code'[c].attempts = new.attempts /\ code'[c].consumed = right /\ code'[c].age # "none"
    BY <1>0, <1>3, <1>4
  <2> QED
    BY <1>9, <1>10, <1>11, <2>1 DEF CodeCounted
<1> QED
  BY <1>0, <1>3, <1>4, <1>5, <1>6, <1>7, <1>8, <1>12

LEMMA CheckSaveKeeps == ASSUME PhoneInv, NEW l \in Logins, NEW right \in BOOLEAN, CheckSave(l, right) PROVE PhoneInv'
<1>0. login \in [Logins -> LoginRecs] /\ login[l] \in LoginRecs
  BY DEF PhoneInv, PhoneTypes
<1>1. UNCHANGED <<issue, account, profile, orderVars>>
  BY DEF CheckSave
<1>2. \E k \in LoginRecs : login' = [login EXCEPT ![l] = k] /\ k.pc # "compare"
  <2>1. CASE right
    <3>1. [login[l] EXCEPT !.pc = "find", !.c = 1, !.row = NoCode] \in LoginRecs
          /\ [login[l] EXCEPT !.pc = "find", !.c = 1, !.row = NoCode].pc = "find"
      BY <1>0, NoLoginOk DEF LoginRecs, LoginPCs
    <3> QED
      BY <2>1, <3>1 DEF CheckSave, Admit
  <2>2. CASE ~right
    BY <2>2, EndOk DEF CheckSave, Admit
  <2> QED
    BY <2>1, <2>2
<1>3. login' \in [Logins -> LoginRecs] /\ \A m \in Logins : login'[m] = login[m] \/ login'[m].pc # "compare"
  BY <1>0, <1>2
<1>4. PhoneTypes'
  BY <1>1, <1>3, CheckSaveCounts DEF PhoneInv, PhoneTypes, orderVars
<1>5. \A m \in Logins : Comparing(login[m])'
  BY <1>0, <1>3, CheckSaveCounts DEF PhoneInv, LoginRecs, Comparing
<1> QED
  BY <1>4, <1>5, CheckSaveCounts DEF PhoneInv

LEMMA AccountKeeps ==
  ASSUME PhoneInv, NEW l \in Logins,
         \/ \E p \in Phones : Firebase(l, p)
         \/ FindAccount(l) \/ MakeAccount(l) \/ SaveProfile(l) \/ ClaimOrders(l)
  PROVE  PhoneInv'
<1>0. /\ login[l] \in LoginRecs /\ UNCHANGED <<codeVars, issue, placed>>
      /\ account \in [Logins -> Phones \cup {NoOne}] /\ owner \in [Orders -> Logins \cup {NoOne}] /\ profile \subseteq Logins
  BY DEF PhoneInv, PhoneTypes, Firebase, FindAccount, MakeAccount, SaveProfile, ClaimOrders, orderVars
<1>1. account' \in [Logins -> Phones \cup {NoOne}] /\ owner' \in [Orders -> Logins \cup {NoOne}] /\ profile' \subseteq Logins
  <2>1. login[l].phone \in Phones /\ login[l].user \in Logins \cup {NoOne}
    BY <1>0 DEF LoginRecs
  <2> QED
    BY <1>0, <2>1 DEF Firebase, FindAccount, MakeAccount, SaveProfile, ClaimOrders, orderVars
<1>2. \E k \in LoginRecs : login' = [login EXCEPT ![l] = k] /\ k.pc # "compare"
  <2> DEFINE moved(pc) == [login[l] EXCEPT !.pc = pc]
  <2>1. ASSUME NEW pc \in LoginPCs PROVE moved(pc) \in LoginRecs /\ moved(pc).pc = pc
    BY <1>0 DEF LoginRecs
  <2>2. ASSUME NEW p \in Phones, Firebase(l, p) PROVE \E k \in LoginRecs : login' = [login EXCEPT ![l] = k] /\ k.pc # "compare"
    <3>1. [login[l] EXCEPT !.pc = "find", !.kind = "firebase", !.phone = p] \in LoginRecs
          /\ [login[l] EXCEPT !.pc = "find", !.kind = "firebase", !.phone = p].pc = "find"
      BY <1>0 DEF LoginRecs, LoginPCs, Kinds
    <3> QED
      BY <2>2, <3>1, EndOk DEF Firebase
  <2>3. ASSUME NEW pc \in {"claim", "profile"}, NEW u \in Logins
        PROVE  [login[l] EXCEPT !.pc = pc, !.user = u] \in LoginRecs /\ [login[l] EXCEPT !.pc = pc, !.user = u].pc = pc
    BY <1>0 DEF LoginRecs, LoginPCs
  <2>4. CASE FindAccount(l)
    <3>1. \/ login' = [login EXCEPT ![l] = moved("make")]
          \/ End(l, "refused")
          \/ \E u \in Logins : login' = [login EXCEPT ![l] = [login[l] EXCEPT !.pc = "claim", !.user = u]]
      BY <2>4 DEF FindAccount, AccountsOf
    <3>2. "make" \in LoginPCs
      BY DEF LoginPCs
    <3> HIDE DEF moved
    <3> QED
      BY <2>1, <2>3, <3>1, <3>2, EndOk
  <2>5. CASE MakeAccount(l)
    <3>1. \/ End(l, "refused")
          \/ \E pc \in {"claim", "profile"} : login' = [login EXCEPT ![l] = [login[l] EXCEPT !.pc = pc, !.user = l]]
      <4>1. CASE login[l].kind = "register"
        BY <2>5, <4>1 DEF MakeAccount
      <4>2. CASE login[l].kind # "register"
        BY <2>5, <4>2 DEF MakeAccount
      <4> QED
        BY <4>1, <4>2
    <3> QED
      BY <2>3, <3>1, EndOk, ZenonT(30)
  <2>6. CASE SaveProfile(l)
    <3>1. "claim" \in LoginPCs /\ login' = [login EXCEPT ![l] = moved("claim")]
      BY <2>6 DEF LoginPCs, SaveProfile
    <3> HIDE DEF moved
    <3> QED
      BY <2>1, <3>1
  <2>7. CASE ClaimOrders(l)
    BY <2>7, EndOk DEF ClaimOrders
  <2> QED
    BY <2>2, <2>4, <2>5, <2>6, <2>7
<1>3. PICK k \in LoginRecs : login' = [login EXCEPT ![l] = k] /\ k.pc # "compare"
  BY <1>2
<1> QED
  BY <1>0, <1>1, <1>3, LoginMoves DEF Comparing

-----------------------------------------------------------------------------
LEMMA PhoneInitInv == PhoneInit => PhoneInv
<1> SUFFICES ASSUME PhoneInit PROVE PhoneInv
  OBVIOUS
<1>1. AnyPhone \in Phones
  BY LoginActors DEF AnyPhone
<1>2. PhoneTypes
  BY <1>1, NoLoginOk DEF PhoneInit, PhoneTypes, IssueRecs
<1>3. \A c \in Codes : CodeCounted(c)
  <2> SUFFICES ASSUME NEW c \in Codes PROVE CodeCounted(c)
    OBVIOUS
  <2>1. code[c].attempts = 0 /\ guesses[c] = 0 /\ admitted[c] = 0 /\ stale[c] = 0 /\ ~code[c].consumed
    BY DEF PhoneInit, NoCode
  <2>2. MaxAttempts * 0 = 0 /\ 0 <= MaxAttempts
    BY LoginBounds
  <2> QED
    BY <2>1, <2>2 DEF CodeCounted
<1>4. \A l \in Logins : Comparing(login[l])
  BY NoLoginOk DEF PhoneInit, Comparing
<1> QED
  BY <1>2, <1>3, <1>4 DEF PhoneInv

LEMMA PhoneStep == PhoneInv /\ [PhoneNext]_phoneVars => PhoneInv'
<1> SUFFICES ASSUME PhoneInv, [PhoneNext]_phoneVars PROVE PhoneInv'
  OBVIOUS
<1>1. CASE UNCHANGED phoneVars
  BY <1>1 DEF phoneVars, codeVars, orderVars, PhoneInv, PhoneTypes, CodeCounted, Comparing
<1>2. ASSUME NEW i \in Issuers, IssueSave(i) \/ \E p \in Phones : IssueCount(i, p) PROVE PhoneInv'
  BY <1>2, IssueKeeps
<1>3. ASSUME NEW c \in Codes, Grow(c) PROVE PhoneInv'
  BY <1>3, GrowKeeps
<1>4. ASSUME NEW l \in Logins,
             \/ \E p \in Phones : Firebase(l, p) \/ \E kind \in Kinds : CheckRead(l, kind, p)
             \/ \E right \in BOOLEAN : CheckSave(l, right)
             \/ FindAccount(l) \/ MakeAccount(l) \/ SaveProfile(l) \/ ClaimOrders(l)
      PROVE  PhoneInv'
  BY <1>4, AccountKeeps, CheckReadKeeps, CheckSaveKeeps
<1> QED
  BY <1>1, <1>2, <1>3, <1>4 DEF PhoneNext

LEMMA PhoneAlways == PhoneSpec => []PhoneInv
  BY PhoneInitInv, PhoneStep, PTL DEF PhoneSpec

LEMMA PhoneTyped == PhoneInv => PhoneTypeOK
BY DEF PhoneInv, PhoneTypes, PhoneTypeOK, LoginRecs, IssueRecs

(* Codes, requests, logins, accounts and orders stay what they are. *)
THEOREM PhoneTypeSafe == PhoneSpec => []PhoneTypeOK
  BY PhoneTyped, PhoneAlways, PTL

(* However many checks overlap, a code lets in one login and takes MaxAttempts  *)
(* guesses, and as many again for each row that was saved late.                 *)
THEOREM CodesAreCounted == PhoneSpec => []CodesAreAccounted
<1>1. PhoneInv => CodesAreAccounted
  <2> SUFFICES ASSUME PhoneInv, NEW c \in Codes
               PROVE  admitted[c] <= 1 + stale[c] /\ guesses[c] <= MaxAttempts * (1 + stale[c])
    BY DEF CodesAreAccounted
  <2> DEFINE most == MaxAttempts * stale[c]
  <2>1. /\ stale[c] \in Nat /\ guesses[c] \in Nat /\ admitted[c] \in Nat /\ most \in Nat /\ MaxAttempts \in Nat
        /\ code[c].attempts \in Nat
    BY LoginBounds DEF PhoneInv, PhoneTypes, CodeRows
  <2>2. guesses[c] <= most + code[c].attempts /\ code[c].attempts <= MaxAttempts
        /\ admitted[c] <= stale[c] + (IF code[c].consumed THEN 1 ELSE 0)
    BY DEF PhoneInv, CodeCounted
  <2>3. MaxAttempts * (1 + stale[c]) = most + MaxAttempts
    BY <2>1
  <2> HIDE DEF most
  <2>4. guesses[c] <= most + MaxAttempts
    BY <2>1, <2>2
  <2>5. admitted[c] <= 1 + stale[c]
    BY <2>1, <2>2
  <2> QED
    BY <2>3, <2>4, <2>5
<1> QED
  BY <1>1, PhoneAlways, PTL

(* No login takes an order from the account that it was given to. *)
THEOREM OrdersStay == PhoneSpec => OrdersStayClaimed
<1> DEFINE Stays == \A o \in Orders : owner[o] # NoOne => owner'[o] = owner[o]
<1>1. [PhoneNext]_phoneVars => [Stays]_phoneVars
  <2> SUFFICES ASSUME PhoneNext PROVE Stays
    OBVIOUS
  <2>1. UNCHANGED owner \/ \E l \in Logins : ClaimOrders(l)
    BY DEF PhoneNext, IssueSave, IssueCount, Grow, Firebase, CheckRead, CheckSave, FindAccount, MakeAccount,
           SaveProfile, orderVars
  <2> QED
    BY <2>1 DEF ClaimOrders, Claimable
<1> QED
  BY <1>1, PTL DEF PhoneSpec, OrdersStayClaimed

-----------------------------------------------------------------------------
(* Devices: types *)

CallRecs == [pc : {"idle", "save", "make", "write", "check", "rows", "send", "done"},
             kind : {"register", "prefer", "other", "notify", "broadcast"},
             to : SUBSET Owners, d : Tokens, pref : Prefs, was : DeviceRows,
             rows : [Tokens -> DeviceRows], seen : [Tokens -> Nat],
             allowed : SUBSET Owners, unwanted : SUBSET Owners]

DeviceTypes ==
  /\ device \in [Tokens -> DeviceRows] /\ prefs \in [Owners -> Prefs]
  /\ call \in [Calls -> CallRecs]
  /\ holder \in [Tokens -> Holders] /\ times \in [Tokens -> Nat] /\ wish \in [Owners -> Prefs]
  /\ crossed \subseteq Tokens /\ reverted \subseteq Owners

\* Who turned pushes off, and was not saved over, has them off.
WishesKept == \A u \in Owners : wish[u] = "off" /\ u \notin reverted => prefs[u] = "off"

\* Nobody is both to be pushed to and not, and who is to be written for has a profile choice.
CallOk(k) == k.allowed \cap k.unwanted = {} /\ (k.pc = "write" => k.pref \in Prefs)

DevicesInv == DeviceTypes /\ RegisteredStays /\ WishesKept /\ \A c \in Calls : CallOk(call[c])

LEMMA NoCallOk == NoCall \in CallRecs /\ CallOk(NoCall) /\ NoCall.d \in Tokens /\ NoDevice \in DeviceRows
<1>1. NoDevice \in DeviceRows
  BY DEF NoDevice, DeviceRows, Holders
<1>2. (CHOOSE d \in Tokens : TRUE) \in Tokens
  BY DeviceBounds
<1> QED
  BY <1>1, <1>2 DEF NoCall, CallRecs, CallOk, Prefs

(* A request that is as it should be leaves the others so. *)
LEMMA CallingOk ==
  ASSUME DevicesInv, NEW c \in Calls, NEW k \in CallRecs, Calling(c, k), CallOk(k)
  PROVE  call' \in [Calls -> CallRecs] /\ \A e \in Calls : CallOk(call'[e])
  BY DEF DevicesInv, DeviceTypes, Calling

LEMMA CallEndsOk ==
  ASSUME DevicesInv, NEW c \in Calls, CallEnds(c)
  PROVE  call' \in [Calls -> CallRecs] /\ \A e \in Calls : CallOk(call'[e])
<1>1. [NoCall EXCEPT !.pc = "done"] \in CallRecs /\ CallOk([NoCall EXCEPT !.pc = "done"])
  BY NoCallOk DEF CallRecs, CallOk
<1> QED
  BY <1>1, CallingOk DEF CallEnds

-----------------------------------------------------------------------------
(* Devices: the steps *)

RegisterSteps(c) == \/ \E u \in Owners, d \in Tokens : RegisterRead(c, u, d)
                    \/ \E u \in Owners : RegisterSave(c, u)

LEMMA RegisterKeeps == ASSUME DevicesInv, NEW c \in Calls, RegisterSteps(c) PROVE DevicesInv'
<1>0. call[c] \in CallRecs /\ device \in [Tokens -> DeviceRows] /\ holder \in [Tokens -> Holders] /\ times \in [Tokens -> Nat]
  BY DEF DevicesInv, DeviceTypes
<1>1. ASSUME NEW u \in Owners, NEW d \in Tokens, RegisterRead(c, u, d) PROVE DevicesInv'
  <2> DEFINE k == [NoCall EXCEPT !.pc = "save", !.to = {u}, !.d = d, !.was = device[d]]
  <2>1. k \in CallRecs /\ CallOk(k)
    BY <1>0, NoCallOk DEF CallRecs, CallOk
  <2>2. Calling(c, k) /\ UNCHANGED <<device, prefs, deviceHistories>>
    BY <1>1 DEF RegisterRead
  <2> HIDE DEF k
  <2>3. call' \in [Calls -> CallRecs] /\ \A e \in Calls : CallOk(call'[e])
    BY <2>1, <2>2, CallingOk
  <2> QED
    BY <2>2, <2>3 DEF DevicesInv, DeviceTypes, RegisteredStays, WishesKept, deviceHistories
<1>2. ASSUME NEW u \in Owners, RegisterSave(c, u) PROVE DevicesInv'
  <2> DEFINE d == call[c].d
  <2>1. d \in Tokens /\ call[c].was.id \in Nat
    BY <1>0 DEF CallRecs, DeviceRows
  <2>2. UNCHANGED <<prefs, wish, reverted>> /\ CallEnds(c)
        /\ \/ UNCHANGED <<device, holder, times, crossed>>
           \/ /\ \E id \in {times[d] + 1, call[c].was.id} : device' = [device EXCEPT ![d] = [of |-> u, id |-> id]]
              /\ holder' = [holder EXCEPT ![d] = u] /\ times' = [times EXCEPT ![d] = @ + 1] /\ crossed' = crossed \ {d}
    BY <1>2 DEF RegisterSave
  <2>3. call' \in [Calls -> CallRecs] /\ \A e \in Calls : CallOk(call'[e])
    BY <2>2, CallEndsOk
  <2>4. CASE UNCHANGED <<device, holder, times, crossed>>
    BY <2>2, <2>3, <2>4 DEF DevicesInv, DeviceTypes, RegisteredStays, WishesKept
  <2>5. CASE /\ \E id \in {times[d] + 1, call[c].was.id} : device' = [device EXCEPT ![d] = [of |-> u, id |-> id]]
             /\ holder' = [holder EXCEPT ![d] = u] /\ times' = [times EXCEPT ![d] = @ + 1] /\ crossed' = crossed \ {d}
    <3>0. times[d] + 1 \in Nat /\ call[c].was.id \in Nat
      BY <1>0, <2>1
    <3>1. PICK id \in Nat : device' = [device EXCEPT ![d] = [of |-> u, id |-> id]]
      BY <2>5, <3>0
    <3> HIDE DEF d
    <3>2. device' \in [Tokens -> DeviceRows] /\ holder' \in [Tokens -> Holders] /\ times' \in [Tokens -> Nat]
      <4>1. [of |-> u, id |-> id] \in DeviceRows
        BY DEF DeviceRows, Holders
      <4>2. device' \in [Tokens -> DeviceRows]
        BY <1>0, <3>1, <4>1
      <4>3. holder' \in [Tokens -> Holders]
        BY <1>0, <2>5 DEF Holders
      <4>4. times' \in [Tokens -> Nat]
        BY <1>0, <2>1, <2>5
      <4> QED
        BY <4>2, <4>3, <4>4
    <3>3. RegisteredStays'
      BY <1>0, <2>1, <2>5, <3>1 DEF DevicesInv, RegisteredStays
    <3> QED
      BY <2>2, <2>3, <2>5, <3>2, <3>3 DEF DevicesInv, DeviceTypes, WishesKept
  <2> QED
    BY <2>2, <2>4, <2>5
<1> QED
  BY <1>1, <1>2 DEF RegisterSteps

LEMMA UnregisterKeeps == ASSUME DevicesInv, NEW u \in Owners, NEW d \in Tokens, Unregister(u, d) PROVE DevicesInv'
<1>0. u # NoOwner
  BY DeviceBounds
<1>1. device' \in [Tokens -> DeviceRows] /\ holder' \in [Tokens -> Holders]
  BY NoCallOk DEF DevicesInv, DeviceTypes, Unregister, Holders
<1>2. RegisteredStays'
  BY <1>0 DEF DevicesInv, DeviceTypes, RegisteredStays, Unregister, OwnRow, NoDevice
<1> QED
  BY <1>1, <1>2 DEF DevicesInv, DeviceTypes, WishesKept, Unregister

PrefsSteps(c) ==
  \E u \in Owners : \/ PrefsMake(c, u) \/ PrefsWrite(c, u)
                    \/ PrefsRead(c, u, "other", "none")
                    \/ \E pref \in {"on", "off"} : PrefsRead(c, u, "prefer", pref)

LEMMA PrefsKeeps == ASSUME DevicesInv, NEW c \in Calls, PrefsSteps(c) PROVE DevicesInv'
<1>0. call[c] \in CallRecs /\ prefs \in [Owners -> Prefs] /\ wish \in [Owners -> Prefs]
  BY DEF DevicesInv, DeviceTypes
<1>1. ASSUME NEW u \in Owners, NEW kind \in {"other", "prefer"}, NEW pref \in Prefs, PrefsRead(c, u, kind, pref) PROVE DevicesInv'
  <2> DEFINE k == [NoCall EXCEPT !.pc = IF prefs[u] = "none" THEN "make" ELSE "write", !.kind = kind,
                                 !.to = {u}, !.pref = IF kind = "prefer" THEN pref ELSE prefs[u]]
  <2>1. k \in CallRecs /\ CallOk(k)
    BY <1>0, NoCallOk DEF CallRecs, CallOk
  <2>2. Calling(c, k) /\ UNCHANGED <<device, prefs, deviceHistories>>
    BY <1>1 DEF PrefsRead
  <2> HIDE DEF k
  <2>3. call' \in [Calls -> CallRecs] /\ \A e \in Calls : CallOk(call'[e])
    BY <2>1, <2>2, CallingOk
  <2> QED
    BY <2>2, <2>3 DEF DevicesInv, DeviceTypes, RegisteredStays, WishesKept, deviceHistories
<1>2. ASSUME NEW u \in Owners, PrefsMake(c, u) PROVE DevicesInv'
  <2> DEFINE k == [call[c] EXCEPT !.pc = "write", !.pref = IF @ = "none" THEN "on" ELSE @]
  <2>1. k \in CallRecs /\ CallOk(k)
    BY <1>0 DEF CallRecs, CallOk, Prefs, DevicesInv
  <2>2. UNCHANGED <<device, deviceHistories>>
        /\ \/ CallEnds(c) /\ UNCHANGED prefs
           \/ prefs[u] = "none" /\ prefs' = [prefs EXCEPT ![u] = "on"] /\ Calling(c, k)
    BY <1>2 DEF PrefsMake
  <2> HIDE DEF k
  <2>3. call' \in [Calls -> CallRecs] /\ \A e \in Calls : CallOk(call'[e])
    BY <2>1, <2>2, CallingOk, CallEndsOk
  <2>4. prefs' \in [Owners -> Prefs] /\ WishesKept'
    BY <1>0, <2>2 DEF Prefs, DevicesInv, WishesKept, deviceHistories
  <2> QED
    BY <2>2, <2>3, <2>4 DEF DevicesInv, DeviceTypes, RegisteredStays, deviceHistories
<1>3. ASSUME NEW u \in Owners, PrefsWrite(c, u) PROVE DevicesInv'
  <2>1. call[c].pref \in Prefs
    BY <1>0 DEF CallRecs
  <2>2. UNCHANGED <<device, holder, times, crossed>> /\ CallEnds(c) /\ prefs' = [prefs EXCEPT ![u] = call[c].pref]
        /\ \/ wish' = [wish EXCEPT ![u] = call[c].pref] /\ reverted' = reverted \ {u}
           \/ wish' = wish /\ (IF prefs[u] # call[c].pref THEN reverted' = reverted \cup {u} ELSE reverted' = reverted)
    <3>1. CASE call[c].kind = "prefer"
      BY <1>3, <3>1 DEF PrefsWrite
    <3>2. CASE call[c].kind # "prefer"
      BY <1>0, <1>3, <3>2 DEF PrefsWrite
    <3> QED
      BY <3>1, <3>2
  <2>3. call' \in [Calls -> CallRecs] /\ \A e \in Calls : CallOk(call'[e])
    BY <2>2, CallEndsOk
  <2>4. prefs' \in [Owners -> Prefs] /\ wish' \in [Owners -> Prefs] /\ reverted' \subseteq Owners
    BY <1>0, <2>1, <2>2 DEF DevicesInv, DeviceTypes
  <2>5. WishesKept'
    BY <1>0, <2>1, <2>2 DEF DevicesInv, WishesKept
  <2> QED
    BY <2>2, <2>3, <2>4, <2>5 DEF DevicesInv, DeviceTypes, RegisteredStays
<1> QED
  BY <1>1, <1>2, <1>3 DEF PrefsSteps, Prefs

NotifySteps(c) == (\E users \in SUBSET Owners : NotifyStart(c, users)) \/ NotifyCheck(c) \/ NotifyRows(c) \/ PushesEnd(c)

LEMMA NotifyKeeps == ASSUME DevicesInv, NEW c \in Calls, NotifySteps(c) PROVE DevicesInv'
<1>0. call[c] \in CallRecs /\ device \in [Tokens -> DeviceRows] /\ times \in [Tokens -> Nat] /\ CallOk(call[c])
  BY DEF DevicesInv, DeviceTypes
<1>1. UNCHANGED <<device, prefs, deviceHistories>>
  BY DEF NotifySteps, NotifyStart, NotifyCheck, NotifyRows, PushesEnd
<1>2. call' \in [Calls -> CallRecs] /\ \A e \in Calls : CallOk(call'[e])
  <2>1. ASSUME NEW users \in SUBSET Owners, NotifyStart(c, users)
        PROVE  call' \in [Calls -> CallRecs] /\ \A e \in Calls : CallOk(call'[e])
    <3>1. PICK kind \in {"notify", "broadcast"}, pc \in {"check", "rows"} :
            Calling(c, [NoCall EXCEPT !.to = users, !.kind = kind, !.pc = pc])
      BY <2>1 DEF NotifyStart
    <3>2. [NoCall EXCEPT !.to = users, !.kind = kind, !.pc = pc] \in CallRecs
          /\ CallOk([NoCall EXCEPT !.to = users, !.kind = kind, !.pc = pc])
      BY NoCallOk DEF CallRecs, CallOk
    <3> QED
      BY <3>1, <3>2, CallingOk
  <2>2. CASE NotifyCheck(c)
    <3> DEFINE yes == Allowed(call[c].to)
               no == {u \in call[c].to \ reverted : wish[u] = "off"}
    <3>1. yes \subseteq Owners /\ no \subseteq Owners /\ yes \cap no = {}
      BY <1>0 DEF Allowed, CallRecs, DevicesInv, WishesKept
    <3>2. PICK pc \in {"rows", "send"} : Calling(c, [call[c] EXCEPT !.allowed = yes, !.unwanted = no, !.pc = pc])
      BY <2>2 DEF NotifyCheck
    <3> HIDE DEF yes, no
    <3>3. [call[c] EXCEPT !.allowed = yes, !.unwanted = no, !.pc = pc] \in CallRecs
          /\ CallOk([call[c] EXCEPT !.allowed = yes, !.unwanted = no, !.pc = pc])
      BY <1>0, <3>1 DEF CallRecs, CallOk
    <3> QED
      BY <3>2, <3>3, CallingOk
  <2>3. CASE NotifyRows(c)
    <3> DEFINE read == [d \in Tokens |-> IF device[d].of \in call[c].to THEN device[d] ELSE NoDevice]
    <3>1. read \in [Tokens -> DeviceRows]
      BY <1>0, NoCallOk
    <3>2. PICK pc \in {"check", "send"} : Calling(c, [call[c] EXCEPT !.rows = read, !.seen = times, !.pc = pc])
      BY <2>3 DEF NotifyRows
    <3> HIDE DEF read
    <3>3. [call[c] EXCEPT !.rows = read, !.seen = times, !.pc = pc] \in CallRecs
          /\ CallOk([call[c] EXCEPT !.rows = read, !.seen = times, !.pc = pc])
      BY <1>0, <3>1 DEF CallRecs, CallOk
    <3> QED
      BY <3>2, <3>3, CallingOk
  <2>4. CASE PushesEnd(c)
    BY <2>4, CallEndsOk DEF PushesEnd
  <2> QED
    BY <2>1, <2>2, <2>3, <2>4 DEF NotifySteps
<1> QED
  BY <1>1, <1>2 DEF DevicesInv, DeviceTypes, RegisteredStays, WishesKept, deviceHistories

LEMMA PushKeeps ==
  ASSUME DevicesInv, NEW c \in Calls, NEW d \in Tokens, NEW known \in BOOLEAN, Push(c, d, known)
  PROVE  DevicesInv'
<1>0. call[c] \in CallRecs /\ CallOk(call[c]) /\ NoDevice \in DeviceRows
  BY NoCallOk DEF DevicesInv, DeviceTypes
<1> DEFINE k == [call[c] EXCEPT !.rows[d] = NoDevice]
<1>1. k \in CallRecs /\ CallOk(k)
  BY <1>0 DEF CallRecs, CallOk
<1>2. Calling(c, k) /\ UNCHANGED <<prefs, times, wish, reverted>>
      /\ \/ UNCHANGED <<device, holder, crossed>>
         \/ /\ device' = [device EXCEPT ![d] = NoDevice]
            /\ \/ holder' = [holder EXCEPT ![d] = NoOwner] /\ UNCHANGED crossed
               \/ crossed' = crossed \cup {d} /\ UNCHANGED holder
  BY DEF Push
<1> HIDE DEF k
<1>3. call' \in [Calls -> CallRecs] /\ \A e \in Calls : CallOk(call'[e])
  BY <1>1, <1>2, CallingOk
<1>4. device' \in [Tokens -> DeviceRows] /\ holder' \in [Tokens -> Holders] /\ crossed' \subseteq Tokens
  BY <1>0, <1>2 DEF DevicesInv, DeviceTypes, Holders
<1>5. RegisteredStays'
  BY <1>2 DEF DevicesInv, DeviceTypes, RegisteredStays, NoDevice
<1> QED
  BY <1>2, <1>3, <1>4, <1>5 DEF DevicesInv, DeviceTypes, WishesKept

-----------------------------------------------------------------------------
LEMMA DevicesInitInv == DevicesInit => DevicesInv
<1> SUFFICES ASSUME DevicesInit PROVE DevicesInv
  OBVIOUS
<1>1. DeviceTypes
  BY NoCallOk DEF DevicesInit, DeviceTypes, Prefs, Holders
<1> QED
  BY <1>1, NoCallOk DEF DevicesInit, DevicesInv, RegisteredStays, WishesKept, NoDevice

LEMMA DevicesStep == DevicesInv /\ [DevicesNext]_deviceVars => DevicesInv'
<1> SUFFICES ASSUME DevicesInv, [DevicesNext]_deviceVars PROVE DevicesInv'
  OBVIOUS
<1>1. CASE UNCHANGED deviceVars
  BY <1>1 DEF deviceVars, deviceHistories, DevicesInv, DeviceTypes, RegisteredStays, WishesKept
<1>2. ASSUME NEW u \in Owners, NEW d \in Tokens, Unregister(u, d) PROVE DevicesInv'
  BY <1>2, UnregisterKeeps
<1>3. ASSUME NEW c \in Calls,
             \/ RegisterSteps(c) \/ PrefsSteps(c) \/ NotifySteps(c)
             \/ \E d \in Tokens, known \in BOOLEAN : Push(c, d, known)
      PROVE  DevicesInv'
  BY <1>3, RegisterKeeps, PrefsKeeps, NotifyKeeps, PushKeeps
<1> QED
  BY <1>1, <1>2, <1>3 DEF DevicesNext, RegisterSteps, PrefsSteps, NotifySteps

LEMMA DevicesAlways == DevicesSpec => []DevicesInv
  BY DevicesInitInv, DevicesStep, PTL DEF DevicesSpec

LEMMA DevicesTyped == DevicesInv => DevicesTypeOK
BY DEF DevicesInv, DeviceTypes, DevicesTypeOK, CallRecs

(* The rows, the profiles and the requests on them stay what they are. *)
THEOREM DevicesTypeSafe == DevicesSpec => []DevicesTypeOK
  BY DevicesTyped, DevicesAlways, PTL

(* A device stays with whoever registered it last, whatever others register,    *)
(* leave or are pushed meanwhile.                                               *)
THEOREM DevicesStay == DevicesSpec => []RegisteredStays
<1>1. DevicesInv => RegisteredStays
  BY DEF DevicesInv
<1> QED
  BY <1>1, DevicesAlways, PTL

(* Who has turned pushes off is not in the set of those that a push may go to. *)
THEOREM OptOutsStand == DevicesSpec => []OptOutRespected
<1>1. DevicesInv => OptOutRespected
  BY DEF DevicesInv, CallOk, OptOutRespected, PushedTo
<1> QED
  BY <1>1, DevicesAlways, PTL
=============================================================================
