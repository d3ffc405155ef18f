------------------------------ MODULE Devices ------------------------------
(***************************************************************************)
(* Devices and the notices pushed to them (PushService,                    *)
(* NotificationsService), and the profile that says whether its user wants *)
(* them (ProfileService, and the others that save a profile).              *)
(*                                                                         *)
(* A device's row passes from user to user as they log in on it. A profile *)
(* is read, changed and saved whole by each of its writers, and a push     *)
(* reads rows that may have changed hands when it is sent.                 *)
(***************************************************************************)
EXTENDS Naturals, FiniteSets

CONSTANTS
  Owners,   \* users
  Tokens,   \* device tokens
  Calls     \* requests

NoOwner == "nobody"

ASSUME DeviceBounds == NoOwner \notin Owners /\ IsFiniteSet(Calls) /\ Tokens # {}

VARIABLES
  device,   \* device_token: the owner and the id of each token's row
  prefs,    \* user_profile: none, or whether pushEnabled
  call,     \* requests: step, kind, users, token, what they read
  holder,   \* history: who registered each token last and has not left it
  times,    \* history: registrations of each token
  wish,     \* history: whether each user last asked for pushes, or nothing yet
  crossed,  \* history: tokens whose row was saved or deleted over a registration not seen
  reverted  \* history: users whose choice was saved over by another writer of the profile

deviceHistories == <<holder, times, wish, crossed, reverted>>
deviceVars == <<device, prefs, call, deviceHistories>>

Prefs == {"none", "on", "off"}
Holders == Owners \cup {NoOwner}
DeviceRows == [of : Holders, id : Nat]
NoDevice == [of |-> NoOwner, id |-> 0]
Registered(d) == device[d].of # NoOwner

NoCall == [pc |-> "idle", kind |-> "register", to |-> {}, d |-> CHOOSE d \in Tokens : TRUE,
           pref |-> "none", was |-> NoDevice, rows |-> [d \in Tokens |-> NoDevice], seen |-> [d \in Tokens |-> 0],
           allowed |-> {}, unwanted |-> {}]

DevicesTypeOK ==
  /\ device \in [Tokens -> DeviceRows] /\ prefs \in [Owners -> Prefs]
  /\ call \in [Calls -> [pc : {"idle", "save", "make", "write", "check", "rows", "send", "done"},
                         kind : {"register", "prefer", "other", "notify", "broadcast"},
                         to : SUBSET Owners, d : Tokens, pref : Prefs, was : DeviceRows,
                         rows : [Tokens -> DeviceRows], seen : [Tokens -> Nat],
                         allowed : SUBSET Owners, unwanted : SUBSET Owners]]
  /\ holder \in [Tokens -> Holders] /\ times \in [Tokens -> Nat] /\ wish \in [Owners -> Prefs]
  /\ crossed \subseteq Tokens /\ reverted \subseteq Owners

DevicesInit ==
  /\ device = [d \in Tokens |-> NoDevice] /\ prefs = [u \in Owners |-> "none"]
  /\ call = [c \in Calls |-> NoCall]
  /\ holder = [d \in Tokens |-> NoOwner] /\ times = [d \in Tokens |-> 0]
  /\ wish = prefs /\ crossed = {} /\ reverted = {}

Calling(c, fields) == call' = [call EXCEPT ![c] = fields]
CallEnds(c) == Calling(c, [NoCall EXCEPT !.pc = "done"])

-----------------------------------------------------------------------------
(* register, unregister *)

RegisterRead(c, u, d) ==
  /\ call[c].pc = "idle"
  /\ Calling(c, [NoCall EXCEPT !.pc = "save", !.to = {u}, !.d = d, !.was = device[d]])
  /\ UNCHANGED <<device, prefs, deviceHistories>>

\* token is unique: of two first registrations the later is refused. A row that was
\* deleted since it was read comes back under its id.
RegisterSave(c, u) ==
  LET d == call[c].d
      first == call[c].was.of = NoOwner
  IN
  /\ call[c].pc = "save" /\ u \in call[c].to
  /\ IF Registered(d) /\ (first \/ call[c].was.id # device[d].id)
       THEN UNCHANGED <<device, holder, times, crossed>>
       ELSE /\ device' = [device EXCEPT ![d] = [of |-> u, id |-> IF first THEN times[d] + 1 ELSE call[c].was.id]]
            /\ holder' = [holder EXCEPT ![d] = u]
            /\ times' = [times EXCEPT ![d] = @ + 1]
            /\ crossed' = crossed \ {d}
  /\ CallEnds(c)
  /\ UNCHANGED <<prefs, wish, reverted>>

\* Fault: the row is deleted whoever it belongs to.
OwnRow_Anyones(u, d) == Registered(d)

\* DELETE ... WHERE userId and token.
OwnRow(u, d) == device[d].of = u

Unregister(u, d) ==
  /\ device' = IF OwnRow(u, d) THEN [device EXCEPT ![d] = NoDevice] ELSE device
  /\ holder' = IF holder[d] = u THEN [holder EXCEPT ![d] = NoOwner] ELSE holder
  /\ UNCHANGED <<prefs, call, times, wish, crossed, reverted>>

-----------------------------------------------------------------------------
(* Writers of the profile: updateProfile, and the others (diet preferences, *)
(* saved events, the phone of a registration), which leave pushEnabled be   *)

PrefsRead(c, u, kind, pref) ==
  /\ call[c].pc = "idle"
  /\ Calling(c, [NoCall EXCEPT !.pc = IF prefs[u] = "none" THEN "make" ELSE "write", !.kind = kind,
                               !.to = {u}, !.pref = IF kind = "prefer" THEN pref ELSE prefs[u]])
  /\ UNCHANGED <<device, prefs, deviceHistories>>

\* ensureProfile: userId is unique, so that of two first profiles the later is refused.
PrefsMake(c, u) ==
  /\ call[c].pc = "make" /\ u \in call[c].to
  /\ IF prefs[u] # "none"
       THEN CallEnds(c) /\ UNCHANGED prefs
       ELSE /\ prefs' = [prefs EXCEPT ![u] = "on"]
            /\ Calling(c, [call[c] EXCEPT !.pc = "write", !.pref = IF @ = "none" THEN "on" ELSE @])
  /\ UNCHANGED <<device, deviceHistories>>

\* The whole row is saved, pushEnabled as it was read unless that is what changes.
PrefsWrite(c, u) ==
  LET chooses == call[c].kind = "prefer" IN
  /\ call[c].pc = "write" /\ u \in call[c].to
  /\ prefs' = [prefs EXCEPT ![u] = call[c].pref]
  /\ wish' = [wish EXCEPT ![u] = IF chooses THEN call[c].pref ELSE @]
  /\ reverted' = IF chooses THEN reverted \ {u}
                 ELSE IF prefs[u] # call[c].pref THEN reverted \cup {u} ELSE reverted
  /\ CallEnds(c)
  /\ UNCHANGED <<device, holder, times, crossed>>

-----------------------------------------------------------------------------
(* notifyUser asks whether pushes are wanted, then reads the rows; notifyUsers *)
(* the other way round                                                         *)

NotifyStart(c, users) ==
  LET one == Cardinality(users) = 1 IN
  /\ call[c].pc = "idle" /\ users # {}
  /\ Calling(c, [NoCall EXCEPT !.to = users, !.kind = IF one THEN "notify" ELSE "broadcast",
                               !.pc = IF one THEN "check" ELSE "rows"])
  /\ UNCHANGED <<device, prefs, deviceHistories>>

\* Fault: everybody is pushed to.
Allowed_All(users) == users

\* pushAllowedSet: a user without a profile has not said no.
Allowed(users) == {u \in users : prefs[u] # "off"}

NotifyCheck(c) ==
  /\ call[c].pc = "check"
  /\ Calling(c, [call[c] EXCEPT !.allowed = Allowed(call[c].to),
                                !.unwanted = {u \in call[c].to \ reverted : wish[u] = "off"},
                                !.pc = IF call[c].kind = "notify" THEN "rows" ELSE "send"])
  /\ UNCHANGED <<device, prefs, deviceHistories>>

NotifyRows(c) ==
  /\ call[c].pc = "rows"
  /\ Calling(c, [call[c] EXCEPT !.rows = [d \in Tokens |-> IF device[d].of \in call[c].to THEN device[d] ELSE NoDevice],
                                !.seen = times,
                                !.pc = IF call[c].kind = "notify" THEN "send" ELSE "check"])
  /\ UNCHANGED <<device, prefs, deviceHistories>>

PushedTo(c) == {d \in Tokens : call[c].rows[d].of \in call[c].allowed}

\* dispatch: a device is tried once. One that the provider does not know any more
\* loses the row that was read, by its id.
Push(c, d, known) ==
  LET row == call[c].rows[d] IN
  /\ call[c].pc = "send" /\ d \in PushedTo(c)
  /\ Calling(c, [call[c] EXCEPT !.rows[d] = NoDevice])
  /\ IF known \/ device[d].id # row.id
       THEN UNCHANGED <<device, holder, crossed>>
       ELSE /\ device' = [device EXCEPT ![d] = NoDevice]
            /\ IF times[d] = call[c].seen[d]
                 THEN holder' = [holder EXCEPT ![d] = NoOwner] /\ UNCHANGED crossed
                 ELSE crossed' = crossed \cup {d} /\ UNCHANGED holder
  /\ UNCHANGED <<prefs, times, wish, reverted>>

PushesEnd(c) ==
  /\ call[c].pc = "send" /\ PushedTo(c) = {}
  /\ CallEnds(c)
  /\ UNCHANGED <<device, prefs, deviceHistories>>

DevicesNext ==
  \/ \E u \in Owners, d \in Tokens : Unregister(u, d)
  \/ \E c \in Calls :
       \/ \E u \in Owners, d \in Tokens : RegisterRead(c, u, d)
       \/ \E u \in Owners : \/ RegisterSave(c, u) \/ PrefsMake(c, u) \/ PrefsWrite(c, u)
                            \/ PrefsRead(c, u, "other", "none")
                            \/ \E pref \in {"on", "off"} : PrefsRead(c, u, "prefer", pref)
       \/ \E users \in SUBSET Owners : NotifyStart(c, users)
       \/ NotifyCheck(c) \/ NotifyRows(c) \/ PushesEnd(c)
       \/ \E d \in Tokens, known \in BOOLEAN : Push(c, d, known)

DevicesSpec == DevicesInit /\ [][DevicesNext]_deviceVars

-----------------------------------------------------------------------------
(* Properties *)

\* A device belongs to the user who registered it last, until that user leaves it: a
\* former user's late unregister does not silence it. But the answer that a token is
\* dead, given to a push that began before, takes the new registration away.
RegisteredStays == \A d \in Tokens \ crossed : device[d].of = holder[d]

\* Who has turned pushes off is sent none that began afterwards, unless another writer
\* saved the profile it had read before (all of them save the whole row).
OptOutRespected ==
  \A c \in Calls : call[c].pc = "send" => \A d \in PushedTo(c) : call[c].rows[d].of \notin call[c].unwanted
=============================================================================
