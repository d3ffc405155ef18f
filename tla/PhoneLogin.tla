----------------------------- MODULE PhoneLogin -----------------------------
(***************************************************************************)
(* Logging in with a phone number (AuthService): codes are issued, checked *)
(* and consumed, an account is found or made, and the orders its phone     *)
(* placed as a guest are given to it.                                      *)
(*                                                                         *)
(* A check reads the code's row, compares (asynchronously) and saves the   *)
(* row it read, so that overlapping checks write over each other; and no   *)
(* index keeps two logins from making an account for the same phone.       *)
(***************************************************************************)
EXTENDS Integers, FiniteSets, FiniteSetsExt

CONSTANTS
  Phones, Orders,
  Logins,       \* requests: verifyPhoneOtp, registerWithPhone, loginWithFirebaseIdToken
  Issuers,      \* requests running requestPhoneOtp
  MaxCodes,     \* bound: rows of phone_otp
  RateMax,      \* OTP_RATE_MAX
  MaxAttempts   \* OTP_MAX_ATTEMPTS

Codes == 1..MaxCodes
NoOne == "nobody"

ASSUME LoginBounds == MaxCodes \in Nat \ {0} /\ RateMax \in Nat /\ MaxAttempts \in Nat
ASSUME LoginActors == NoOne \notin Logins /\ Phones # {} /\ IsFiniteSet(Logins)

VARIABLES
  code,      \* the phone_otp rows, in the order of createdAt
  issue,     \* requests for a code: step and phone
  login,     \* logins: step, kind, phone, the row they read, the account they found
  account,   \* the accounts: each is made by a login, for a phone
  profile,   \* accounts whose profile has the phone
  owner,     \* userId of each guest order
  placed,    \* guestPhone of each guest order
  admitted,  \* history: logins each code let in
  guesses,   \* history: comparisons against each code
  stale      \* history: rows saved over a newer version, per code

codeVars  == <<code, admitted, guesses, stale>>
orderVars == <<owner, placed>>
phoneVars == <<codeVars, issue, login, account, profile, orderVars>>

Ages == {"none", "valid", "expired", "past"}
CodeRows == [phone : Phones, age : Ages, attempts : Nat, consumed : BOOLEAN]
Kinds == {"verify", "register", "firebase"}
LoginPCs == {"idle", "compare", "find", "make", "profile", "claim", "in", "refused"}

PhoneTypeOK ==
  /\ code \in [Codes -> CodeRows]
  /\ issue \in [Issuers -> [pc : {"idle", "save", "done"}, phone : Phones]]
  /\ login \in [Logins -> [pc : LoginPCs, kind : Kinds, phone : Phones, c : Codes,
                           row : CodeRows, user : Logins \cup {NoOne}]]
  /\ account \in [Logins -> Phones \cup {NoOne}] /\ profile \subseteq Logins
  /\ owner \in [Orders -> Logins \cup {NoOne}]
  /\ placed \in [Orders -> Phones \cup {NoOne}]
  /\ admitted \in [Codes -> Nat] /\ guesses \in [Codes -> Nat] /\ stale \in [Codes -> Nat]

AnyPhone == CHOOSE p \in Phones : TRUE
NoCode == [phone |-> AnyPhone, age |-> "none", attempts |-> 0, consumed |-> FALSE]

NoLogin == [pc |-> "idle", kind |-> "verify", phone |-> AnyPhone, c |-> 1,
            row |-> NoCode, user |-> NoOne]

\* The guest orders are there from the start: OrdersService.create no longer takes
\* an order without a user.
PhoneInit ==
  /\ code = [c \in Codes |-> NoCode]
  /\ issue = [i \in Issuers |-> [pc |-> "idle", phone |-> AnyPhone]]
  /\ login = [l \in Logins |-> NoLogin]
  /\ account = [l \in Logins |-> NoOne] /\ profile = {}
  /\ owner = [o \in Orders |-> NoOne]
  /\ placed \in [Orders -> Phones \cup {NoOne}]
  /\ admitted = [c \in Codes |-> 0] /\ guesses = [c \in Codes |-> 0] /\ stale = [c \in Codes |-> 0]

\* A login ends and forgets what it knew.
End(l, pc) == login' = [login EXCEPT ![l] = [NoLogin EXCEPT !.pc = pc]]

-----------------------------------------------------------------------------
(* requestPhoneOtp: count, then insert *)

Issued(p) == {c \in Codes : code[c].age # "none" /\ code[c].phone = p}
Recent(p) == {c \in Issued(p) : code[c].age # "past"}

IssueCount(i, p) ==
  /\ issue[i].pc = "idle"
  /\ issue' = [issue EXCEPT ![i] = [pc |-> IF Cardinality(Recent(p)) < RateMax THEN "save" ELSE "done",
                                    phone |-> p]]
  /\ UNCHANGED <<codeVars, login, account, profile, orderVars>>

IssueSave(i) ==
  /\ issue[i].pc = "save"
  /\ \E c \in Codes :
       /\ code[c].age = "none" /\ \A d \in 1..(c - 1) : code[d].age # "none"
       /\ code' = [code EXCEPT ![c] = [NoCode EXCEPT !.phone = issue[i].phone, !.age = "valid"]]
  /\ issue' = [issue EXCEPT ![i].pc = "done"]
  /\ UNCHANGED <<login, account, profile, orderVars, admitted, guesses, stale>>

\* Time passes: first expiresAt, then the window of the rate limit.
Grow(c) ==
  /\ code[c].age \in {"valid", "expired"}
  /\ code' = [code EXCEPT ![c].age = IF @ = "valid" THEN "expired" ELSE "past"]
  /\ UNCHANGED <<issue, login, account, profile, orderVars, admitted, guesses, stale>>

-----------------------------------------------------------------------------
(* consumePhoneOtp: verifyPhoneOtp and registerWithPhone start with it *)

Unused(p) == {c \in Issued(p) : ~code[c].consumed}

\* The newest code that nobody has used, if it is valid and not tried too often.
CheckRead(l, kind, p) ==
  LET c == Max(Unused(p)) IN
  /\ login[l].pc = "idle" /\ kind # "firebase"
  /\ IF Unused(p) # {} /\ code[c].age = "valid" /\ code[c].attempts < MaxAttempts
       THEN login' = [login EXCEPT ![l] = [@ EXCEPT !.pc = "compare", !.kind = kind, !.phone = p,
                                                    !.c = c, !.row = code[c]]]
       ELSE End(l, "refused")
  /\ UNCHANGED <<codeVars, issue, account, profile, orderVars>>

\* Everything but its age, which is time and not a column.
Newer(l) == /\ code[login[l].c].attempts # login[l].row.attempts
               \/ code[login[l].c].consumed # login[l].row.consumed

\* The row as this check saves it: tried once more, and used if the guess is right.
Checked(l, right) == [login[l].row EXCEPT !.age = code[login[l].c].age, !.attempts = @ + 1, !.consumed = right]

Admit(l, right) == IF right THEN login' = [login EXCEPT ![l] = [@ EXCEPT !.pc = "find", !.c = 1, !.row = NoCode]]
                            ELSE End(l, "refused")

Record(l, right) ==
  LET c == login[l].c IN
  /\ guesses' = [guesses EXCEPT ![c] = @ + 1]
  /\ admitted' = [admitted EXCEPT ![c] = IF right THEN @ + 1 ELSE @]
  /\ stale' = [stale EXCEPT ![c] = IF Newer(l) THEN @ + 1 ELSE @]

\* Fault: a wrong guess is refused before it is counted.
CheckSave_WrongUncounted(l, right) ==
  /\ login[l].pc = "compare"
  /\ code' = IF right THEN [code EXCEPT ![login[l].c] = Checked(l, right)] ELSE code
  /\ Admit(l, right) /\ Record(l, right)
  /\ UNCHANGED <<issue, account, profile, orderVars>>

CheckSave(l, right) ==
  /\ login[l].pc = "compare"
  /\ code' = [code EXCEPT ![login[l].c] = Checked(l, right)]
  /\ Admit(l, right) /\ Record(l, right)
  /\ UNCHANGED <<issue, account, profile, orderVars>>

-----------------------------------------------------------------------------
(* The account, its guest orders, its session *)

\* lookupFirebasePhone: the identity provider vouches for the phone, or does not.
Firebase(l, p) ==
  /\ login[l].pc = "idle"
  /\ \/ login' = [login EXCEPT ![l] = [@ EXCEPT !.pc = "find", !.kind = "firebase", !.phone = p]]
     \/ End(l, "refused")
  /\ UNCHANGED <<codeVars, issue, account, profile, orderVars>>

AccountsOf(p) == {u \in Logins : account[u] = p}

\* findBySocialIdAndProvider. ensurePhoneUser takes the account it finds;
\* registerWithPhone refuses, the code being used up.
FindAccount(l) ==
  /\ login[l].pc = "find"
  /\ \/ /\ AccountsOf(login[l].phone) = {}
        /\ login' = [login EXCEPT ![l].pc = "make"]
     \/ /\ login[l].kind = "register" /\ AccountsOf(login[l].phone) # {}
        /\ End(l, "refused")
     \/ \E u \in AccountsOf(login[l].phone) :
          /\ login[l].kind # "register"
          /\ login' = [login EXCEPT ![l] = [@ EXCEPT !.pc = "claim", !.user = u]]
  /\ UNCHANGED <<codeVars, issue, account, profile, orderVars>>

\* UsersService.create; no index on socialId and provider is unique. A
\* registration is refused if another user has its email.
MakeAccount(l) ==
  /\ login[l].pc = "make"
  /\ \/ /\ account' = [account EXCEPT ![l] = login[l].phone]
        /\ login' = [login EXCEPT ![l] = [@ EXCEPT !.user = l,
                            !.pc = IF login[l].kind = "register" THEN "profile" ELSE "claim"]]
     \/ /\ login[l].kind = "register"
        /\ End(l, "refused")
        /\ UNCHANGED account
  /\ UNCHANGED <<codeVars, issue, profile, orderVars>>

\* upsertProfilePhone, on registration only.
SaveProfile(l) ==
  /\ login[l].pc = "profile"
  /\ profile' = profile \cup {l}
  /\ login' = [login EXCEPT ![l].pc = "claim"]
  /\ UNCHANGED <<codeVars, issue, account, orderVars>>

\* Fault: the UPDATE forgets userId IS NULL.
Claimable_Taken(p) == {o \in Orders : placed[o] = p}

\* claimGuestOrders: one UPDATE of the orders that have no user yet.
Claimable(p) == {o \in Orders : placed[o] = p /\ owner[o] = NoOne}

\* The last step but issueSession, which is OpenSession in Accounts.
ClaimOrders(l) ==
  /\ login[l].pc = "claim"
  /\ owner' = [o \in Orders |-> IF o \in Claimable(login[l].phone) THEN login[l].user ELSE owner[o]]
  /\ End(l, "in")
  /\ UNCHANGED <<codeVars, issue, account, profile, placed>>

PhoneNext ==
  \/ \E i \in Issuers : IssueSave(i) \/ \E p \in Phones : IssueCount(i, p)
  \/ \E c \in Codes : Grow(c)
  \/ \E l \in Logins :
       \/ \E p \in Phones : Firebase(l, p) \/ \E kind \in Kinds : CheckRead(l, kind, p)
       \/ \E right \in BOOLEAN : CheckSave(l, right)
       \/ FindAccount(l) \/ MakeAccount(l) \/ SaveProfile(l) \/ ClaimOrders(l)

PhoneSpec == PhoneInit /\ [][PhoneNext]_phoneVars

-----------------------------------------------------------------------------
(* Properties *)

\* A code lets in one login, and takes MaxAttempts guesses, more of either only
\* as often as a check saved its row over that of another check (consumePhoneOtp
\* reads, compares and saves in three steps): a save that is late revives a code
\* that is used up, and takes back the guesses it did not see.
CodesAreAccounted ==
  \A c \in Codes : /\ admitted[c] <= 1 + stale[c]
                   /\ guesses[c] <= MaxAttempts * (1 + stale[c])

\* An order that was given to an account stays with it, although two logins that
\* overlap may both make an account for its phone and both claim (claimGuestOrders).
OrdersStayClaimed ==
  [][\A o \in Orders : owner[o] # NoOne => owner'[o] = owner[o]]_phoneVars
=============================================================================
