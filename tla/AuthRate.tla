------------------------------ MODULE AuthRate ------------------------------
(***************************************************************************)
(* The limit on login, registration and reset requests for one email       *)
(* (AuthService.assertEmailAuthRate): the hits of the last window are       *)
(* counted and a hit is stored in a transaction that holds an advisory     *)
(* lock, so that requests for the same email take turns.                   *)
(***************************************************************************)
EXTENDS Integers, FiniteSets

CONSTANTS
  Emails,
  Attempts,    \* requests
  EmailMax,    \* EMAIL_AUTH_MAX
  MaxRateCrash \* bound: requests that die half way

ASSUME RateBounds ==
  EmailMax \in Nat /\ MaxRateCrash \in Nat /\ IsFiniteSet(Attempts) /\ Emails # {}

VARIABLES
  hit,        \* the auth_rate_limit rows: for each request, its hit
  try,        \* requests: step, email, hits counted
  rateCrashes \* history: requests that died half way

rateVars == <<hit, try, rateCrashes>>

TryPCs == {"idle", "lock", "count", "save", "passed", "limited"}

RateTypeOK ==
  /\ hit \in [Attempts -> {"none", "recent", "past"}]
  /\ try \in [Attempts -> [pc : TryPCs, email : Emails, seen : Nat]]
  /\ rateCrashes \in Nat

RateInit ==
  /\ hit = [a \in Attempts |-> "none"]
  /\ try = [a \in Attempts |-> [pc |-> "idle", email |-> CHOOSE e \in Emails : TRUE, seen |-> 0]]
  /\ rateCrashes = 0

Hits(e) == {a \in Attempts : hit[a] = "recent" /\ try[a].email = e}

\* pg_advisory_xact_lock, until the transaction ends.
HasRateLock(a) == try[a].pc \in {"count", "save"}
RateLocked(e) == \E a \in Attempts : try[a].email = e /\ HasRateLock(a)

TryStart(a, e) ==
  /\ try[a].pc = "idle"
  /\ try' = [try EXCEPT ![a] = [@ EXCEPT !.pc = "lock", !.email = e]]
  /\ UNCHANGED <<hit, rateCrashes>>

\* Fault: no lock.
TryLock_Free(a) ==
  /\ try[a].pc = "lock"
  /\ try' = [try EXCEPT ![a].pc = "count"]
  /\ UNCHANGED <<hit, rateCrashes>>

TryLock(a) ==
  /\ try[a].pc = "lock" /\ ~RateLocked(try[a].email)
  /\ try' = [try EXCEPT ![a].pc = "count"]
  /\ UNCHANGED <<hit, rateCrashes>>

TryCount(a) ==
  /\ try[a].pc = "count"
  /\ try' = [try EXCEPT ![a] = [@ EXCEPT !.seen = Cardinality(Hits(try[a].email)),
               !.pc = IF Cardinality(Hits(try[a].email)) >= EmailMax THEN "limited" ELSE "save"]]
  /\ UNCHANGED <<hit, rateCrashes>>

TrySave(a) ==
  /\ try[a].pc = "save"
  /\ hit' = [hit EXCEPT ![a] = "recent"]
  /\ try' = [try EXCEPT ![a].pc = "passed"]
  /\ UNCHANGED rateCrashes

\* A hit leaves the window.
HitAges(a) ==
  /\ hit[a] = "recent"
  /\ hit' = [hit EXCEPT ![a] = "past"]
  /\ UNCHANGED <<try, rateCrashes>>

\* The transaction of a process that dies is rolled back, its lock released.
RateCrash(a) ==
  /\ rateCrashes < MaxRateCrash /\ try[a].pc \in {"lock", "count", "save"}
  /\ try' = [try EXCEPT ![a].pc = "limited"]
  /\ rateCrashes' = rateCrashes + 1
  /\ UNCHANGED hit

RateNext ==
  \E a \in Attempts : \/ \E e \in Emails : TryStart(a, e)
                      \/ TryLock(a) \/ TryCount(a) \/ TrySave(a) \/ HitAges(a) \/ RateCrash(a)

RateSpec == RateInit /\ [][RateNext]_rateVars

\* However many requests for an email overlap, no more than EmailMax of them get
\* through in a window.
HitsWithinLimit == \A e \in Emails : Cardinality(Hits(e)) <= EmailMax
=============================================================================
