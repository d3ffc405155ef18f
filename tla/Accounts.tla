------------------------------ MODULE Accounts ------------------------------
(***************************************************************************)
(* Users and their sessions (AuthService, UsersService, SessionService).   *)
(*                                                                         *)
(* A session row holds the hash of the one token pair that is good; a      *)
(* refresh exchanges it by an UPDATE that tests the hash it was given. The *)
(* password is changed in steps: the sessions are revoked before it is     *)
(* written, and several other operations write a whole user row that they  *)
(* read earlier, its hashed password included: UsersService.update hashes  *)
(* what it is given unless the table holds the same.                       *)
(***************************************************************************)
EXTENDS Integers, FiniteSets

CONSTANTS
  Users,
  Requests,    \* requests; a login is also the id of the session it opens, and each
               \* login or refresh the random hash it makes
  Secrets,     \* passwords
  MaxAccountCrash  \* bound: requests that die half way

Unknown == "nobody knows it"   \* the hash of a hash
Nothing == "none"

ASSUME AccountBounds == MaxAccountCrash \in Nat /\ Users # {} /\ Secrets # {}
ASSUME AccountActors == Nothing \notin Requests \cup Secrets /\ Unknown \notin Secrets

VARIABLES
  user,       \* the user rows: whether there is one, password, whether the email is confirmed
  session,    \* the session rows, and the password their login proved (history)
  held,       \* token pairs clients hold: session and hash
  act,        \* requests: step, operation, and what they read
  swaps,      \* history: exchanges of a token pair
  overlap,    \* history: users whose password was saved while a row of theirs was held
  excused,    \* history: sessions opened on a password that was being changed, kept by
              \* who changed it, or left by an admin who did
  accCrashes  \* history: requests that died half way

accountVars == <<user, session, held, act, swaps, overlap, excused, accCrashes>>

Passwords == Secrets \cup {Unknown, Nothing}
UserRows == [is : {"absent", "here", "gone"}, pwd : Passwords, active : BOOLEAN]
SessionRows == [u : Users, hash : Requests, live : BOOLEAN, pwd : Passwords]
Pairs == [s : Requests, hash : Requests]
Ops == {"login", "social", "confirm", "reset", "change", "admin", "refresh", "delete", "none"}
ActPCs == {"idle", "load", "revoke", "compare", "save", "open", "reread", "role", "remove",
           "done", "refused"}

AccountsTypeOK ==
  /\ user \in [Users -> UserRows]
  /\ \A s \in DOMAIN session : s \in Requests /\ session[s] \in SessionRows
  /\ held \subseteq Pairs
  /\ act \in [Requests -> [pc : ActPCs, op : Ops, u : Users, row : UserRows, new : Secrets,
                           kept : Requests \cup {Nothing}, put : BOOLEAN]]
  /\ swaps \subseteq [by : Requests, s : Requests, hash : Requests]
  /\ overlap \subseteq Users /\ excused \subseteq Requests
  /\ accCrashes \in Nat

NoUser == [is |-> "absent", pwd |-> Nothing, active |-> FALSE]
Here(u) == user[u].is = "here"

NoRequest == [pc |-> "idle", op |-> "none", u |-> CHOOSE u \in Users : TRUE, row |-> NoUser,
              new |-> CHOOSE p \in Secrets : TRUE, kept |-> Nothing, put |-> FALSE]

AccountsInit ==
  /\ user = [u \in Users |-> NoUser]
  /\ session = << >> /\ held = {}
  /\ act = [r \in Requests |-> NoRequest]
  /\ swaps = {} /\ overlap = {} /\ excused = {} /\ accCrashes = 0

\* A request that ends forgets what it knew.
Goto(r, pc) == act' = [act EXCEPT ![r] = [(IF pc \in {"done", "refused"} THEN NoRequest ELSE @) EXCEPT !.pc = pc]]
histories == <<swaps, overlap, excused, accCrashes>>

-----------------------------------------------------------------------------
(* Sessions *)

Live(s) == s \in DOMAIN session /\ session[s].live
SessionsOf(u) == {s \in DOMAIN session : session[s].u = u}
Revoke(sessions) == session' = [s \in DOMAIN session |->
                                  [session[s] EXCEPT !.live = @ /\ s \notin sessions]]

\* JwtStrategy.validate: the session's hash is the token's, and its user is there.
Accepts(t) == /\ Live(t.s) /\ session[t.s].hash = t.hash
              /\ Here(session[t.s].u)

\* A request that changes u's password has revoked the sessions and not saved yet.
Changing(u) == \E q \in Requests : /\ act[q].op \in {"reset", "change", "admin"} /\ act[q].u = u
                                   /\ act[q].pc \in {"compare", "save"}

\* issueSession, and the ends of validateLogin and validateSocialLogin. Only a
\* login with a password proves one.
OpenSession(r) ==
  LET u == act[r].u
      proved == IF act[r].op = "login" THEN act[r].row.pwd ELSE Nothing IN
  /\ act[r].pc = "open"
  /\ session' = [s \in DOMAIN session \cup {r} |->
                   IF s = r THEN [u |-> u, hash |-> r, live |-> TRUE, pwd |-> proved] ELSE session[s]]
  /\ held' = held \cup {[s |-> r, hash |-> r]}
  /\ excused' = IF Changing(u) \/ proved # user[u].pwd THEN excused \cup {r} ELSE excused
  /\ Goto(r, "done")
  /\ UNCHANGED <<user, swaps, overlap, accCrashes>>

\* Fault: the UPDATE is by id only.
Swappable_ById(t) == {s \in DOMAIN session : s = t.s}

\* refreshToken: SessionRepository.updateByHash, an UPDATE ... WHERE id AND hash,
\* which soft-deleted rows match as well.
Swappable(t) == {s \in DOMAIN session : s = t.s /\ session[s].hash = t.hash}

RefreshSwap(r, t) ==
  /\ act[r].pc = "idle" /\ t \in held
  /\ IF t.s \in Swappable(t)
       THEN /\ session' = [session EXCEPT ![t.s].hash = r]
            /\ swaps' = swaps \cup {[by |-> r, s |-> t.s, hash |-> t.hash]}
            /\ act' = [act EXCEPT ![r] = [@ EXCEPT !.pc = "reread", !.op = "refresh", !.kept = t.s]]
       ELSE Goto(r, "refused") /\ UNCHANGED <<session, swaps>>
  /\ UNCHANGED <<user, held, overlap, excused, accCrashes>>

\* The row is read again, which finds live rows only; then the user's role.
RefreshReread(r) ==
  /\ act[r].pc = "reread"
  /\ Goto(r, IF Live(act[r].kept) THEN "role" ELSE "refused")
  /\ UNCHANGED <<user, session, held, histories>>

NewPair(r) == [s |-> act[r].kept, hash |-> r]

RefreshIssue(r) ==
  /\ act[r].pc = "role"
  /\ IF ~Here(session[act[r].kept].u)
       THEN Goto(r, "refused") /\ UNCHANGED held
       ELSE Goto(r, "done") /\ held' = held \cup {NewPair(r)}
  /\ UNCHANGED <<user, session, histories>>

\* logout, behind JwtStrategy.
Logout(t) ==
  /\ t \in held /\ Accepts(t)
  /\ Revoke({t.s})
  /\ UNCHANGED <<user, held, act, histories>>

-----------------------------------------------------------------------------
(* Writing a user row: UsersService.update and the repository *)

\* register and the first social login: an email is taken once (a unique index).
CreateUser(u, p) ==
  /\ user[u].is = "absent"
  /\ user' = [user EXCEPT ![u] = [is |-> "here", pwd |-> p, active |-> p = Nothing]]
  /\ UNCHANGED <<session, held, act, histories>>

\* The operations that write back a row they have read, with the password in it.
WriteBacks == {"social", "confirm"}
Holding(u) == {q \in Requests : /\ act[q].op \in WriteBacks /\ act[q].u = u
                                /\ act[q].pc \in {"compare", "save"}}

\* Fault: every password given is hashed.
ToHash_Always(r) == act[r].op \notin WriteBacks \/ act[r].row.pwd # Nothing

\* UsersService.update given a password reads the row again: what the table holds is
\* taken for a hash, anything else is hashed. What a client chose is never a hash.
ToHash(r) == \/ act[r].op \notin WriteBacks
             \/ act[r].row.pwd \notin {Nothing, user[act[r].u].pwd}

UpdateCompare(r) ==
  /\ act[r].pc = "compare"
  /\ act' = [act EXCEPT ![r].pc = "save", ![r].put = ToHash(r)]
  /\ UNCHANGED <<user, session, held, histories>>

\* What is hashed from a row is the hash of a hash.
Stored(r) == CASE ~act[r].put -> user[act[r].u].pwd
               [] act[r].put /\ act[r].op \in WriteBacks -> Unknown
               [] OTHER -> act[r].new

\* Whole rows carry the status they were read with, and confirmations a new one.
ActiveAfter(r) == CASE act[r].op = "confirm" -> TRUE
                  [] act[r].op \in {"social", "reset"} -> act[r].row.active
                  [] OTHER -> user[act[r].u].active

\* Sessions that outlive a change of the password.
Kept(r) == CASE act[r].op = "change" -> {act[r].kept}
             [] act[r].op = "admin" -> SessionsOf(act[r].u)
             [] OTHER -> {}

\* UserRepository.update reads, merges and saves; a removed row is not found.
UpdateSave(r) ==
  LET u == act[r].u IN
  /\ act[r].pc = "save"
  /\ IF ~Here(u) THEN Goto(r, "refused") /\ UNCHANGED <<user, overlap, excused>>
     ELSE /\ user' = [user EXCEPT ![u].pwd = Stored(r), ![u].active = ActiveAfter(r)]
          /\ overlap' = IF act[r].put /\ Holding(u) \ {r} # {} THEN overlap \cup {u} ELSE overlap
          /\ excused' = excused \cup Kept(r)
          /\ Goto(r, IF act[r].op = "social" THEN "open" ELSE "done")
  /\ UNCHANGED <<session, held, swaps, accCrashes>>

-----------------------------------------------------------------------------
(* The operations, up to their first write *)

Start(r, op, u, pc) ==
  /\ act[r].pc = "idle" /\ Here(u)
  /\ act' = [act EXCEPT ![r] = [@ EXCEPT !.pc = pc, !.op = op, !.u = u, !.row = user[u]]]
  /\ UNCHANGED <<user, session, held, histories>>

\* validateLogin with the right password; the status is not looked at.
LoginRead(r, u) == user[u].pwd \in Secrets /\ Start(r, "login", u, "open")
\* validateSocialLogin of a known account writes back the row it found.
SocialRead(r, u) == Start(r, "social", u, "compare")
\* confirmEmail and confirmNewEmail write the row back, activated.
ConfirmRead(r, u) == Start(r, "confirm", u, "compare")

StartChange(r, op, u, pc, p, s) ==
  /\ act[r].pc = "idle" /\ Here(u)
  /\ act' = [act EXCEPT ![r] = [@ EXCEPT !.pc = pc, !.op = op, !.u = u, !.row = user[u],
                                         !.new = p, !.kept = s]]
  /\ UNCHANGED <<user, session, held, histories>>

\* resetPassword, with a token of forgotPassword whose fingerprint is that of the
\* password there is; the user is read once more before the sessions are revoked.
ResetVerify(r, u, p) == StartChange(r, "reset", u, "load", p, Nothing)

ResetLoad(r) ==
  /\ act[r].pc = "load"
  /\ act' = [act EXCEPT ![r].pc = IF Here(act[r].u) THEN "revoke" ELSE "refused",
                        ![r].row = user[act[r].u]]
  /\ UNCHANGED <<user, session, held, histories>>

\* AuthService.update by a client who knows the old password.
ChangeRead(r, t, p) ==
  /\ t \in held /\ Accepts(t) /\ user[session[t.s].u].pwd \in Secrets
  /\ StartChange(r, "change", session[t.s].u, "revoke", p, t.s)

\* UsersController.update and remove leave the sessions alone.
AdminUpdate(r, u, p) == StartChange(r, "admin", u, "compare", p, Nothing)

AdminRemove(u) ==
  /\ Here(u)
  /\ user' = [user EXCEPT ![u].is = "gone"]
  /\ UNCHANGED <<session, held, act, histories>>

\* softDelete: the sessions, then the user.
DeleteStart(r, t) ==
  /\ t \in held /\ Accepts(t)
  /\ Start(r, "delete", session[t.s].u, "revoke")

\* Fault: a reset leaves the sessions alone.
Revoked_NotOnReset(r) == IF act[r].op = "reset" THEN {} ELSE SessionsOf(act[r].u) \ {act[r].kept}

\* deleteByUserId, or deleteByUserIdWithExclude of the session that asks.
Revoked(r) == SessionsOf(act[r].u) \ (IF act[r].op = "change" THEN {act[r].kept} ELSE {})

RevokeSessions(r) ==
  /\ act[r].pc = "revoke"
  /\ Revoke(Revoked(r))
  /\ Goto(r, IF act[r].op = "delete" THEN "remove" ELSE "compare")
  /\ UNCHANGED <<user, held, histories>>

RemoveUser(r) ==
  /\ act[r].pc = "remove"
  /\ user' = [user EXCEPT ![act[r].u].is = "gone"]
  /\ Goto(r, "done")
  /\ UNCHANGED <<session, held, histories>>

\* A process dies; what the request has written stays.
AccountCrash(r) ==
  /\ accCrashes < MaxAccountCrash /\ act[r].pc \notin {"idle", "done", "refused"}
  /\ Goto(r, "refused") /\ accCrashes' = accCrashes + 1
  /\ UNCHANGED <<user, session, held, swaps, overlap, excused>>

AccountsNext ==
  \/ \E u \in Users : AdminRemove(u) \/ \E p \in Secrets \cup {Nothing} : CreateUser(u, p)
  \/ \E r \in Requests, u \in Users :
       \/ LoginRead(r, u) \/ SocialRead(r, u) \/ ConfirmRead(r, u)
       \/ \E p \in Secrets : ResetVerify(r, u, p) \/ AdminUpdate(r, u, p)
  \/ \E r \in Requests, t \in held :
       RefreshSwap(r, t) \/ DeleteStart(r, t) \/ \E p \in Secrets : ChangeRead(r, t, p)
  \/ \E r \in Requests :
       \/ OpenSession(r) \/ RefreshReread(r) \/ RefreshIssue(r) \/ ResetLoad(r)
       \/ UpdateCompare(r) \/ UpdateSave(r) \/ RevokeSessions(r) \/ RemoveUser(r) \/ AccountCrash(r)
  \/ \E t \in held : Logout(t)

AccountsSpec == AccountsInit /\ [][AccountsNext]_accountVars

-----------------------------------------------------------------------------
(* Properties *)

\* A token pair is exchanged once, however many refreshes present it at the same
\* time ("refresh token only one time use", CHANGELOG.md:19).
RefreshedOnce == \A v, w \in swaps : v.s = w.s /\ v.hash = w.hash => v = w

\* A session opened with a password is dead once the password is another one
\* (resetPassword and AuthService.update revoke it), but for the excused ones.
SessionsFollowPassword ==
  \A s \in DOMAIN session \ excused :
    session[s].live /\ session[s].pwd # Nothing =>
      session[s].pwd = user[session[s].u].pwd \/ session[s].u \in overlap

\* Nobody is locked out by a hash of a hash, unless a password was saved while
\* another request held the row it was about to write back (UsersService.update).
PasswordIntact == \A u \in Users : user[u].pwd = Unknown => u \in overlap
=============================================================================
