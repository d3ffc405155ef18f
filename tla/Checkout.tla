------------------------------ MODULE Checkout ------------------------------
(***************************************************************************)
(* Turning a paid intent into an order (OrdersService.create) or into an   *)
(* event booking with a deposit (EventsService.createBooking).             *)
(*                                                                         *)
(* A request reads and checks, then opens a transaction that checks again  *)
(* under an advisory lock on the intent, inserts the row, reserves stock   *)
(* and redeems the coupon; points and the kitchen follow the commit. What  *)
(* an open transaction has written and locked is a function of its step,   *)
(* so the tables below hold committed values only and a rollback just ends *)
(* the request. In a transaction the intent is checked on a second         *)
(* connection of the pool. Seats of an event are EventBookings' concern.   *)
(***************************************************************************)
EXTENDS Integers, Sequences, FiniteSets

CONSTANTS
  Shoppers,   \* POST /orders requests
  Guests,     \* POST /events/:id/bookings requests
  Admins,     \* requests running CouponService.upsert
  Users, Keys, Items, Intents,
  Payloads,   \* what a shopper may send
  Amount,     \* the amount each intent was created for
  Deposit,    \* the deposit of the event
  Stock,      \* stockQty of each item at the start
  Points,     \* loyalty points of each user at the start
  Earn,       \* points an order earns
  MaxRedemptions,  \* maxRedemptions of the coupon
  Pool,       \* connections of the database pool
  MaxCrash    \* bound: requests that die half way

Threads == Shoppers \cup Guests
Sent == [user : Users, key : Keys, lines : Seq(Items), coupon : BOOLEAN,
         points : Nat, intent : Intents]

ASSUME ThreadsFinite == IsFiniteSet(Threads) /\ Shoppers \cap Guests = {}
ASSUME PayloadsSent  == Payloads \subseteq Sent /\ Payloads # {}
ASSUME Numbers ==
  /\ Amount \in [Intents -> Nat] /\ Stock \in [Items -> Nat] /\ Points \in [Users -> Nat]
  /\ {Deposit, Earn, MaxRedemptions, Pool, MaxCrash} \subseteq Nat

VARIABLES
  paid,       \* intents whose row says 'succeeded'
  committed,  \* requests whose order or booking row is committed
  stock,      \* stockQty of each item
  redeemed,   \* redeemedCount of the coupon
  balance,    \* sum of each user's loyalty_transaction rows
  pushed,     \* orders sent to the kitchen
  req,        \* requests: step, payload, lines reserved, points to redeem, answer
  admin,      \* coupon edits: step and redeemedCount read
  forgot,     \* history: redemptions a coupon edit overwrote
  crashes     \* history: requests that died half way

tables == <<paid, committed, stock, redeemed, balance, pushed>>
history == <<forgot, crashes>>
vars == <<tables, req, admin, history>>

Outcomes == [kind : {"none", "created", "replayed", "conflict", "refused"}, order : Threads]

Steps == {"idle", "find", "quote", "precheck", "begin", "lock", "check", "insert",
          "reserve", "redeem", "commit", "raced", "loyalty", "push", "done"}

Recs == [pc : Steps, p : Sent, n : Nat, points : Nat, answer : Outcomes]

TypeOK ==
  /\ paid \subseteq Intents /\ committed \subseteq Threads
  /\ pushed \subseteq Threads
  /\ stock \in [Items -> Int] /\ redeemed \in Nat /\ balance \in [Users -> Int]
  /\ req \in [Threads -> Recs]
  /\ admin \in [Admins -> [pc : {"idle", "save", "done"}, count : Nat]]
  /\ forgot \in Nat /\ crashes \in Nat

AnyPayload == CHOOSE p \in Payloads : TRUE
Fresh(t) == [pc |-> "idle", p |-> AnyPayload, n |-> 0, points |-> 0,
             answer |-> [kind |-> "none", order |-> t]]

Init ==
  /\ paid = {} /\ committed = {} /\ pushed = {}
  /\ stock = Stock /\ redeemed = 0 /\ balance = Points
  /\ req = [t \in Threads |-> Fresh(t)]
  /\ admin = [a \in Admins |-> [pc |-> "idle", count |-> 0]]
  /\ forgot = 0 /\ crashes = 0

-----------------------------------------------------------------------------
(* What an open transaction holds *)

At(t, steps) == req[t].pc \in steps
Sends(t)     == req[t].p
InTx(t)      == At(t, {"lock", "check", "insert", "reserve", "redeem", "commit"})
\* Fault: a session lock (pg_advisory_lock) is not released by the commit.
HasIntent_SessionLock(t) == At(t, {"check", "insert", "reserve", "redeem", "commit",
                                   "loyalty", "push", "done"})
HasIntent(t) == At(t, {"check", "insert", "reserve", "redeem", "commit"})
HasRow(t)    == At(t, {"reserve", "redeem", "commit"})

\* Units of an item that a request reserved, and whether it locked the item's row.
Taken(t, x)   == Cardinality({k \in 1..req[t].n : Sends(t).lines[k] = x})
HasItem(t, x) == HasRow(t) /\ Taken(t, x) > 0
HasCoupon(t)  == t \in Shoppers /\ At(t, {"commit"}) /\ Sends(t).coupon

\* A query outside a transaction needs a connection that no transaction holds.
Connection == Cardinality({t \in Threads : InTx(t)}) < Pool

Goto(t, pc)       == req' = [req EXCEPT ![t].pc = pc]
Answer(t, kind, o) == req' = [req EXCEPT ![t].pc = "done",
                                         ![t].answer = [kind |-> kind, order |-> o]]
Refuse(t) == Answer(t, "refused", t)

-----------------------------------------------------------------------------
(* The payment side: the status of an intent (see PaymentIntents) *)

\* A capture, or a late failure that a webhook writes over it.
StatusChanges(i) ==
  /\ paid' = IF i \in paid THEN paid \ {i} ELSE paid \cup {i}
  /\ UNCHANGED <<committed, stock, redeemed, balance, pushed, req, admin, history>>

-----------------------------------------------------------------------------
(* Before the transaction *)

Submit(t, p) ==
  /\ At(t, {"idle"})
  /\ req' = [req EXCEPT ![t].pc = IF t \in Shoppers THEN "find" ELSE "precheck", ![t].p = p]
  /\ UNCHANGED <<tables, admin, history>>

\* findIdempotentOrder: the committed order of this user and key.
OrderOf(t) == {o \in committed \cap Shoppers :
                 Sends(o).user = Sends(t).user /\ Sends(o).key = Sends(t).key}

\* Fault: the fingerprints are not compared.
Replay_AnyPayload(t, o) == Answer(t, "replayed", o)

\* replayOrder: the stored fingerprint tells a retry from another request.
Replay(t, o) == IF Sends(o) = Sends(t) THEN Answer(t, "replayed", o)
                ELSE Answer(t, "conflict", o)

FindKey(t) ==
  /\ At(t, {"find"}) /\ Connection
  /\ \/ \E o \in OrderOf(t) : Replay(t, o)
     \/ OrderOf(t) = {} /\ Goto(t, "quote")
  /\ UNCHANGED <<tables, admin, history>>

\* clampRedeemPoints for a request within the percentage cap.
Redeemable(t) ==
  LET b == balance[Sends(t).user] IN IF b <= 0 THEN 0
                                     ELSE IF Sends(t).points < b THEN Sends(t).points ELSE b

\* priceItems, getLoyaltyBalance and summarizeQuote. Each line is checked alone.
QuoteOrder(t) ==
  /\ At(t, {"quote"}) /\ Connection
  /\ IF /\ \A k \in 1..Len(Sends(t).lines) : stock[Sends(t).lines[k]] >= 1
        /\ Sends(t).coupon => redeemed < MaxRedemptions
     THEN req' = [req EXCEPT ![t].pc = "precheck", ![t].points = Redeemable(t)]
     ELSE Refuse(t)
  /\ UNCHANGED <<tables, admin, history>>

\* What summarizeQuote comes to with these points: 10 per line, 3 off by coupon.
Due(t) == IF t \in Guests THEN Deposit
          ELSE 10 * Len(Sends(t).lines) - (IF Sends(t).coupon THEN 3 ELSE 0) - req[t].points

\* assertIntentUnused, over the order and the booking table.
Spent(i) == {u \in committed : Sends(u).intent = i} # {}

\* assertSucceededForOrder
Payable(t) ==
  LET i == Sends(t).intent IN i \in paid /\ Amount[i] = Due(t) /\ ~Spent(i)

Precheck(t) ==
  /\ At(t, {"precheck"}) /\ Connection
  /\ IF Payable(t) THEN Goto(t, "begin") ELSE Refuse(t)
  /\ UNCHANGED <<tables, admin, history>>

-----------------------------------------------------------------------------
(* The transaction *)

Begin(t) ==
  /\ At(t, {"begin"}) /\ Connection
  /\ Goto(t, "lock")
  /\ UNCHANGED <<tables, admin, history>>

\* Fault: the lock is taken by order id, so it excludes nobody.
LockIntent_NotShared(t) ==
  /\ At(t, {"lock"})
  /\ Goto(t, "check")
  /\ UNCHANGED <<tables, admin, history>>

\* lockPaymentIntent: pg_advisory_xact_lock waits for the transaction that has it.
LockIntent(t) ==
  /\ At(t, {"lock"})
  /\ \A u \in Threads : HasIntent(u) => Sends(u).intent # Sends(t).intent
  /\ Goto(t, "check")
  /\ UNCHANGED <<tables, admin, history>>

\* The same check under the lock, through the pool and not the transaction.
Check(t) ==
  /\ At(t, {"check"}) /\ Connection
  /\ IF Payable(t) THEN Goto(t, "insert") ELSE Refuse(t)
  /\ UNCHANGED <<tables, admin, history>>

\* The insert waits for an open transaction with its key; a committed row with
\* the key (of any user) or the intent is a unique violation and rolls back.
SameKey(t, u) == {t, u} \subseteq Shoppers /\ Sends(t).key = Sends(u).key
Duplicate(t) ==
  \E u \in committed :
    \/ SameKey(t, u)
    \/ Sends(u).intent = Sends(t).intent
       /\ ({t, u} \subseteq Shoppers \/ {t, u} \subseteq Guests)

Insert(t) ==
  /\ At(t, {"insert"})
  /\ ~\E u \in Threads \ {t} : HasRow(u) /\ SameKey(t, u)
  /\ IF ~Duplicate(t) THEN Goto(t, IF t \in Shoppers THEN "reserve" ELSE "commit")
     ELSE IF t \in Shoppers THEN Goto(t, "raced") ELSE Refuse(t)
  /\ UNCHANGED <<tables, admin, history>>

NextItem(t) == Sends(t).lines[req[t].n + 1]
AllReserved(t) == req[t].n = Len(Sends(t).lines)

\* Fault: the check of the stock and its update are two statements.
Reserve_ReadThenWrite(t) ==
  /\ At(t, {"reserve"}) /\ ~AllReserved(t)
  /\ IF stock[NextItem(t)] >= 1 THEN req' = [req EXCEPT ![t].n = @ + 1] ELSE Refuse(t)
  /\ UNCHANGED <<tables, admin, history>>

\* reserveStock: one conditional UPDATE per line, which waits for the row; a line
\* that cannot be had gives back the others and rolls back.
Reserve(t) ==
  /\ At(t, {"reserve"}) /\ ~AllReserved(t)
  /\ LET x == NextItem(t)
     IN  /\ \A u \in Shoppers \ {t} : ~HasItem(u, x)
         /\ IF stock[x] - Taken(t, x) >= 1
            THEN req' = [req EXCEPT ![t].n = @ + 1]
            ELSE Refuse(t)
  /\ UNCHANGED <<tables, admin, history>>

Reserved(t) ==
  /\ At(t, {"reserve"}) /\ AllReserved(t)
  /\ Goto(t, IF Sends(t).coupon THEN "redeem" ELSE "commit")
  /\ UNCHANGED <<tables, admin, history>>

\* Fault: the quote's look at the cap is thought to be enough.
RedeemCoupon_Unchecked(t) ==
  /\ At(t, {"redeem"})
  /\ \A u \in Threads : ~HasCoupon(u)
  /\ Goto(t, "commit")
  /\ UNCHANGED <<tables, admin, history>>

\* CouponService.redeem: a conditional UPDATE that waits for the coupon's row.
RedeemCoupon(t) ==
  /\ At(t, {"redeem"})
  /\ \A u \in Threads : ~HasCoupon(u)
  /\ IF redeemed < MaxRedemptions THEN Goto(t, "commit") ELSE Refuse(t)
  /\ UNCHANGED <<tables, admin, history>>

\* Fault: the redemption is given back instead of counted.
Commit_CouponReturned(t) ==
  /\ At(t, {"commit"})
  /\ committed' = committed \cup {t}
  /\ stock' = [x \in Items |-> stock[x] - (IF t \in Shoppers THEN Taken(t, x) ELSE 0)]
  /\ redeemed' = redeemed - (IF HasCoupon(t) THEN 1 ELSE 0)
  /\ IF t \in Shoppers THEN Goto(t, "loyalty") ELSE Answer(t, "created", t)
  /\ UNCHANGED <<paid, balance, pushed, admin, history>>

Commit(t) ==
  /\ At(t, {"commit"})
  /\ committed' = committed \cup {t}
  /\ stock' = [x \in Items |-> stock[x] - (IF t \in Shoppers THEN Taken(t, x) ELSE 0)]
  /\ redeemed' = redeemed + (IF HasCoupon(t) THEN 1 ELSE 0)
  /\ IF t \in Shoppers THEN Goto(t, "loyalty") ELSE Answer(t, "created", t)
  /\ UNCHANGED <<paid, balance, pushed, admin, history>>

\* Two carts that reserve the same items in opposite order: the database picks a victim.
WaitsFor(t, u) == /\ t # u /\ At(t, {"reserve"}) /\ ~AllReserved(t)
                  /\ HasItem(u, NextItem(t))

DeadlockVictim(t) ==
  /\ \E ring \in SUBSET Shoppers :
       /\ t \in ring
       /\ \A u \in ring : (\E v \in ring : WaitsFor(u, v)) /\ (\E v \in ring : WaitsFor(v, u))
  /\ Refuse(t)
  /\ UNCHANGED <<tables, admin, history>>

\* After a unique violation: the order that won, if it is this user's.
Raced(t) ==
  /\ At(t, {"raced"}) /\ Connection
  /\ \/ \E o \in OrderOf(t) : Replay(t, o)
     \/ OrderOf(t) = {} /\ Refuse(t)
  /\ UNCHANGED <<tables, admin, history>>

-----------------------------------------------------------------------------
(* After the commit *)

\* Fault: the balance is not looked at again.
RecordLoyalty_Trusting(t) ==
  LET user == Sends(t).user
  IN  /\ At(t, {"loyalty"}) /\ Connection
      /\ balance' = [balance EXCEPT ![user] = @ - req[t].points + Earn]
      /\ Goto(t, "push")
      /\ UNCHANGED <<paid, committed, stock, redeemed, pushed, admin, history>>

\* recordLoyaltyForOrder, serialised per user by an advisory lock. Too few points
\* fail the request, but not the order.
RecordLoyalty(t) ==
  LET user == Sends(t).user
      short == req[t].points > 0 /\ balance[user] < req[t].points
  IN  /\ At(t, {"loyalty"}) /\ Connection
      /\ \/ short /\ Refuse(t) /\ UNCHANGED balance
         \/ /\ ~short
            /\ balance' = [balance EXCEPT ![user] = @ - req[t].points + Earn]
            /\ Goto(t, "push")
      /\ UNCHANGED <<paid, committed, stock, redeemed, pushed, admin, history>>

\* pushSerenityOrder, then the notice and the response.
PushToKitchen(t) ==
  /\ At(t, {"push"}) /\ Connection
  /\ pushed' = pushed \cup {t}
  /\ Answer(t, "created", t)
  /\ UNCHANGED <<paid, committed, stock, redeemed, balance, admin, history>>

-----------------------------------------------------------------------------
(* CouponService.upsert: reads the row and saves all of it *)

EditRead(a) ==
  /\ admin[a].pc = "idle"
  /\ admin' = [admin EXCEPT ![a] = [pc |-> "save", count |-> redeemed]]
  /\ UNCHANGED <<tables, req, history>>

EditSave(a) ==
  /\ admin[a].pc = "save" /\ \A t \in Threads : ~HasCoupon(t)
  /\ forgot' = forgot + (IF redeemed > admin[a].count THEN redeemed - admin[a].count ELSE 0)
  /\ redeemed' = admin[a].count
  /\ admin' = [admin EXCEPT ![a].pc = "done"]
  /\ UNCHANGED <<paid, committed, stock, balance, pushed, req, crashes>>

\* A request dies; the database rolls back what it had open.
Crash(t) ==
  /\ ~At(t, {"idle", "done"}) /\ crashes < MaxCrash
  /\ crashes' = crashes + 1
  /\ Goto(t, "done")
  /\ UNCHANGED <<tables, admin, forgot>>

-----------------------------------------------------------------------------
Step(t) ==
  \/ FindKey(t) \/ QuoteOrder(t) \/ Precheck(t)
  \/ Begin(t) \/ LockIntent(t) \/ Check(t) \/ Insert(t) \/ Reserve(t) \/ Reserved(t)
  \/ RedeemCoupon(t) \/ Commit(t) \/ DeadlockVictim(t) \/ Raced(t)
  \/ RecordLoyalty(t) \/ PushToKitchen(t)

Next ==
  \/ \E i \in Intents : StatusChanges(i)
  \/ \E t \in Threads, p \in Payloads : Submit(t, p)
  \/ \E t \in Threads : Step(t) \/ Crash(t)
  \/ \E a \in Admins : EditRead(a) \/ EditSave(a)

Spec == Init /\ [][Next]_vars

\* The runtime and the database carry on with every request they started.
FairSpec == Spec /\ \A t \in Threads : WF_vars(Step(t))

-----------------------------------------------------------------------------
(* Properties *)

(* One payment pays for one thing: orders and bookings are in different tables,
   so no unique index spans them, only the lock and the check under it do. *)
IntentSpentOnce ==
  \A t, u \in committed : Sends(t).intent = Sends(u).intent => t = u

(* Requests of one user with one key that succeed all get the same order, and
   none of them asked for something else than what that order is. *)
RetriesAgree ==
  \A t, u \in Shoppers :
    /\ Sends(t).user = Sends(u).user /\ Sends(t).key = Sends(u).key
    /\ {req[t].answer.kind, req[u].answer.kind} \subseteq {"created", "replayed"}
    => /\ req[t].answer.order = req[u].answer.order
       /\ Sends(t) = Sends(u)

\* The lines of committed orders that are for an item.
Sold(x) == UNION {{t} \X {k \in 1..Len(Sends(t).lines) : Sends(t).lines[k] = x} :
                    t \in committed \cap Shoppers}

(* Stock is never oversold and nothing is lost of it: what is on the shelf and
   what committed orders took add up, rollbacks and crashes included. *)
StockConserved ==
  \A x \in Items : stock[x] >= 0 /\ stock[x] + Cardinality(Sold(x)) = Stock[x]

CouponOrders == {t \in committed \cap Shoppers : Sends(t).coupon}

(* Orders got the coupon's discount at most maxRedemptions times, beyond what an
   edit of the coupon made the counter forget. *)
CouponWithinCap == Cardinality(CouponOrders) <= MaxRedemptions + forgot

(* Orders never debit points that are not there, in however many requests at once.
   (A cancel may still take earned points back later, see OrderLifecycle.) *)
PointsNotOverdrawn == \A user \in Users : balance[user] >= 0

(* Every request that is taken up is answered, as long as the pool has more
   connections than there are transactions at a time. *)
RequestsAnswered == \A t \in Threads : At(t, {"find", "precheck"}) ~> At(t, {"done"})
=============================================================================
