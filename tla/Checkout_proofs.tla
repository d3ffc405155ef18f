--------------------------- MODULE Checkout_proofs ---------------------------
(* Theorems about Checkout, for any requests, payloads, prices and crashes. *)
EXTENDS Checkout, FiniteSetTheorems, TLAPS

(* What a request took of an item is a number. *)
LEMMA TakenType == ASSUME NEW t \in Threads, NEW x, TypeOK PROVE Taken(t, x) \in Nat
<1> DEFINE lines == {k \in 1..req[t].n : Sends(t).lines[k] = x}
<1>1. req[t].n \in Nat
  BY DEF TypeOK, Recs
<1>2. IsFiniteSet(1..req[t].n) /\ lines \subseteq 1..req[t].n
  BY <1>1, FS_Interval
<1>3. IsFiniteSet(lines)
  BY <1>2, FS_Subset
<1> QED
  BY <1>3, FS_CardinalityType DEF Taken

(* The initial state is well typed. *)
LEMMA InitType == Init => TypeOK
<1> SUFFICES ASSUME Init PROVE TypeOK
  OBVIOUS
<1>1. AnyPayload \in Sent
  BY PayloadsSent DEF AnyPayload
<1>2. \A t \in Threads : Fresh(t) \in Recs
  BY <1>1 DEF Fresh, Recs, Steps, Outcomes
<1> QED
  BY <1>2, Numbers DEF Init, TypeOK

(* Moving on, or answering, keeps the type of the requests. *)
LEMMA MoveType ==
  ASSUME NEW t \in Threads, req \in [Threads -> Recs],
         \/ \E pc \in Steps : Goto(t, pc)
         \/ \E kind \in {"created", "replayed", "conflict", "refused"}, o \in Threads :
              Answer(t, kind, o)
  PROVE  req' \in [Threads -> Recs]
<1>1. CASE \E pc \in Steps : Goto(t, pc)
  BY <1>1 DEF Goto, Recs
<1>2. ASSUME NEW kind \in {"created", "replayed", "conflict", "refused"}, NEW o \in Threads,
             Answer(t, kind, o)
      PROVE  req' \in [Threads -> Recs]
  <2> DEFINE ans == [kind |-> kind, order |-> o]
             moved == [req EXCEPT ![t].pc = "done"]
  <2>1. ans \in Outcomes
    BY DEF Outcomes
  <2>2. moved \in [Threads -> Recs]
    BY DEF Recs, Steps
  <2>3. req' = [moved EXCEPT ![t].answer = ans]
    BY <1>2 DEF Answer
  <2> HIDE DEF ans, moved
  <2> QED
    BY <2>1, <2>2, <2>3 DEF Recs
<1> QED
  BY <1>1, <1>2

(* A refusal, and a replay of an order, are moves. *)
LEMMA RefuseMoves ==
  ASSUME NEW t \in Threads, req \in [Threads -> Recs], Refuse(t) PROVE req' \in [Threads -> Recs]
  BY MoveType DEF Refuse

LEMMA ReplayMoves ==
  ASSUME NEW t \in Threads, NEW o \in Threads, req \in [Threads -> Recs], Replay(t, o)
  PROVE  req' \in [Threads -> Recs]
  BY MoveType DEF Replay

(* Every step of a request keeps the types. *)
LEMMA StepTypes ==
  ASSUME NEW t \in Threads, TypeOK, Step(t) PROVE TypeOK'
<1> USE DEF TypeOK
<1>1. CASE FindKey(t) \/ Raced(t)
  <2>1. \A o \in OrderOf(t) : o \in Threads
    BY DEF OrderOf
  <2>2. req' \in [Threads -> Recs]
    BY <1>1, <2>1, MoveType, RefuseMoves, ReplayMoves DEF FindKey, Raced, Steps
  <2> QED
    BY <1>1, <2>2 DEF FindKey, Raced, tables, history
<1>2. CASE QuoteOrder(t)
  <2>1. Redeemable(t) \in Nat
    BY DEF Redeemable, Sends, Recs, Sent
  <2>2. CASE Refuse(t)
    BY <1>2, <2>2, RefuseMoves DEF QuoteOrder, tables, history
  <2>3. CASE req' = [req EXCEPT ![t].pc = "precheck", ![t].points = Redeemable(t)]
    <3> DEFINE moved == [req EXCEPT ![t].pc = "precheck"]
               n == Redeemable(t)
    <3>1. moved \in [Threads -> Recs] /\ n \in Nat
      BY <2>1 DEF Recs, Steps
    <3>2. req' = [moved EXCEPT ![t].points = n]
      BY <2>3
    <3> HIDE DEF moved, n
    <3>3. req' \in [Threads -> Recs]
      BY <3>1, <3>2 DEF Recs
    <3> QED
      BY <1>2, <3>3 DEF QuoteOrder, tables, history
  <2> QED
    BY <1>2, <2>2, <2>3 DEF QuoteOrder
<1>3. CASE Precheck(t) \/ Begin(t) \/ LockIntent(t) \/ Check(t) \/ Insert(t) \/ Reserved(t)
           \/ RedeemCoupon(t) \/ DeadlockVictim(t)
  <2>1. req' \in [Threads -> Recs]
    BY <1>3, MoveType, RefuseMoves
    DEF Precheck, Begin, LockIntent, Check, Insert, Reserved, RedeemCoupon, DeadlockVictim, Steps
  <2> QED
    BY <1>3, <2>1 DEF Precheck, Begin, LockIntent, Check, Insert, Reserved, RedeemCoupon,
                      DeadlockVictim, tables, history
<1>4. CASE Reserve(t)
  <2>1. req' \in [Threads -> Recs]
    <3>1. CASE Refuse(t)
      BY <3>1, RefuseMoves
    <3>2. CASE req' = [req EXCEPT ![t].n = @ + 1]
      BY <3>2 DEF Recs
    <3> QED
      BY <1>4, <3>1, <3>2 DEF Reserve
  <2> QED
    BY <1>4, <2>1 DEF Reserve, tables, history
<1>5. CASE Commit(t)
  <2>1. stock' \in [Items -> Int]
    BY <1>5, TakenType DEF Commit
  <2>2. redeemed' \in Nat
    BY <1>5 DEF Commit
  <2>3. req' \in [Threads -> Recs]
    BY <1>5, MoveType DEF Commit, Steps
  <2> QED
    BY <1>5, <2>1, <2>2, <2>3 DEF Commit, history
<1>6. CASE RecordLoyalty(t)
  <2>1. req' \in [Threads -> Recs]
    BY <1>6, MoveType, RefuseMoves DEF RecordLoyalty, Steps
  <2>2. balance' \in [Users -> Int]
    <3> DEFINE user == Sends(t).user
               n == balance[user] - req[t].points + Earn
    <3>1. CASE UNCHANGED balance
      BY <3>1
    <3>2. CASE balance' = [balance EXCEPT ![user] = n]
      <4>1. user \in Users /\ req[t].points \in Int /\ Earn \in Int
        BY Numbers DEF Sends, Recs, Sent
      <4>2. n \in Int
        BY <4>1
      <4> QED
        BY <3>2, <4>2
    <3>3. UNCHANGED balance \/ balance' = [balance EXCEPT ![user] = n]
      BY <1>6 DEF RecordLoyalty
    <3> QED
      BY <3>1, <3>2, <3>3
  <2> QED
    BY <1>6, <2>1, <2>2 DEF RecordLoyalty, history
<1>7. CASE PushToKitchen(t)
  BY <1>7, MoveType DEF PushToKitchen, history
<1> QED
  BY <1>1, <1>2, <1>3, <1>4, <1>5, <1>6, <1>7 DEF Step

(* Every step keeps the types. *)
LEMMA NextType == TypeOK /\ [Next]_vars => TypeOK'
<1> SUFFICES ASSUME TypeOK, [Next]_vars PROVE TypeOK'
  OBVIOUS
<1> USE DEF TypeOK
<1>1. ASSUME NEW i \in Intents, StatusChanges(i) PROVE TypeOK'
  BY <1>1 DEF StatusChanges, history
<1>2. ASSUME NEW t \in Threads, NEW p \in Payloads, Submit(t, p) PROVE TypeOK'
  <2> DEFINE pc == IF t \in Shoppers THEN "find" ELSE "precheck"
             moved == [req EXCEPT ![t].pc = pc]
  <2>1. moved \in [Threads -> Recs] /\ p \in Sent
    BY PayloadsSent DEF Recs, Steps
  <2>2. req' = [moved EXCEPT ![t].p = p]
    BY <1>2 DEF Submit
  <2> HIDE DEF moved
  <2>3. req' \in [Threads -> Recs]
    BY <2>1, <2>2 DEF Recs
  <2> QED
    BY <1>2, <2>3 DEF Submit, tables, history
<1>3. ASSUME NEW t \in Threads, Step(t) PROVE TypeOK'
  BY <1>3, StepTypes
<1>4. ASSUME NEW t \in Threads, Crash(t) PROVE TypeOK'
  BY <1>4, MoveType DEF Crash, tables, Steps
<1>5. ASSUME NEW a \in Admins, EditRead(a) PROVE TypeOK'
  BY <1>5 DEF EditRead, tables, history
<1>6. ASSUME NEW a \in Admins, EditSave(a) PROVE TypeOK'
  <2>1. admin[a].count \in Nat /\ forgot' \in Nat
    BY <1>6 DEF EditSave
  <2>2. admin' \in [Admins -> [pc : {"idle", "save", "done"}, count : Nat]]
    BY <1>6 DEF EditSave
  <2> QED
    BY <1>6, <2>1, <2>2 DEF EditSave
<1>7. CASE UNCHANGED vars
  BY <1>7 DEF vars, tables, history
<1> QED
  BY <1>1, <1>2, <1>3, <1>4, <1>5, <1>6, <1>7 DEF Next

(* Every variable keeps its type, and the coupon's counter stays a number. *)
THEOREM TypeCorrect == Spec => []TypeOK
  BY InitType, NextType, PTL DEF Spec

-----------------------------------------------------------------------------
(* One payment pays for one thing *)

LockedPCs  == {"check", "insert", "reserve", "redeem", "commit"}
CheckedPCs == {"insert", "reserve", "redeem", "commit"}
PastPCs    == {"loyalty", "push", "done"}

\* Two requests for one intent are never behind its lock together.
LockExcludes ==
  \A t, u \in Threads :
    req[t].pc \in LockedPCs /\ req[u].pc \in LockedPCs /\ req[t].p.intent = req[u].p.intent => t = u

\* What was checked under the lock stays true until the lock is released.
CheckedUnspent ==
  \A t \in Threads : req[t].pc \in CheckedPCs => ~Spent(req[t].p.intent)

\* A committed request is past its transaction, and its payload is settled.
CommittedPast == \A t \in committed : req[t].pc \in PastPCs

IInv == TypeOK /\ LockExcludes /\ CheckedUnspent /\ CommittedPast /\ IntentSpentOnce

\* What a step of one request can do to the lock, the check and the commit.
Shape(t) ==
  /\ \A u \in Threads \ {t} : req'[u] = req[u]
  /\ req'[t].p = req[t].p
  /\ req'[t].pc \in LockedPCs => req[t].pc \in LockedPCs \/ LockIntent(t)
  /\ req'[t].pc \in CheckedPCs => req[t].pc \in CheckedPCs \/ ~Spent(req[t].p.intent)
  /\ req[t].pc \in PastPCs => req'[t].pc \in PastPCs
  /\ \/ UNCHANGED committed
     \/ /\ committed' = committed \cup {t} /\ req[t].pc = "commit"
        /\ req'[t].pc \in PastPCs

(* Replays and refusals end a request. *)
LEMMA EndShape ==
  ASSUME NEW t \in Threads, TypeOK, UNCHANGED committed,
         Refuse(t) \/ \E o \in Threads : Replay(t, o)
  PROVE  Shape(t)
  BY DEF TypeOK, Recs, Refuse, Replay, Answer, Shape, LockedPCs, CheckedPCs, PastPCs

(* Every step of a request has this shape. *)
LEMMA StepShape ==
  ASSUME NEW t \in Threads, TypeOK, Step(t) \/ Crash(t) PROVE Shape(t)
<1> USE DEF TypeOK, At, Sends
<1> DEFINE moves(pcs) == UNCHANGED committed /\ \E pc \in pcs : Goto(t, pc)
<1>1. ASSUME moves({"find", "quote", "precheck", "begin", "lock", "raced", "done"}),
             req[t].pc \notin PastPCs \/ Goto(t, "done")
      PROVE  Shape(t)
  BY <1>1 DEF Goto, Recs, Shape, LockedPCs, CheckedPCs, PastPCs
<1>2. CASE FindKey(t) \/ Raced(t)
  <2>1. \A o \in OrderOf(t) : o \in Threads
    BY DEF OrderOf
  <2>2. CASE Goto(t, "quote")
    BY <1>1, <1>2, <2>2 DEF FindKey, Raced, tables, PastPCs
  <2> QED
    BY <1>2, <2>1, <2>2, EndShape DEF FindKey, Raced, tables
<1>3. CASE QuoteOrder(t)
  <2>1. CASE Refuse(t)
    BY <1>3, <2>1, EndShape DEF QuoteOrder, tables
  <2>2. CASE ~Refuse(t)
    BY <1>3, <2>2 DEF QuoteOrder, tables, Recs, Shape, LockedPCs, CheckedPCs, PastPCs
  <2> QED
    BY <2>1, <2>2
<1>4. CASE Precheck(t) \/ Begin(t)
  <2>1. CASE Refuse(t)
    BY <1>4, <2>1, EndShape DEF Precheck, Begin, tables
  <2>2. CASE ~Refuse(t)
    BY <1>1, <1>4, <2>2 DEF Precheck, Begin, tables, PastPCs
  <2> QED
    BY <2>1, <2>2
<1>5. CASE LockIntent(t)
  BY <1>5 DEF LockIntent, Goto, tables, Recs, Shape, LockedPCs, CheckedPCs, PastPCs
<1>6. CASE Check(t)
  <2>1. CASE Refuse(t)
    BY <1>6, <2>1, EndShape DEF Check, tables
  <2>2. CASE ~Refuse(t)
    <3>1. ~Spent(req[t].p.intent) /\ Goto(t, "insert")
      BY <1>6, <2>2 DEF Check, Payable
    <3> QED
      BY <1>6, <3>1 DEF Check, Goto, tables, Recs, Shape, LockedPCs, CheckedPCs, PastPCs
  <2> QED
    BY <2>1, <2>2
<1>7. CASE Insert(t)
  <2>1. CASE Refuse(t)
    BY <1>7, <2>1, EndShape DEF Insert, tables
  <2>2. CASE ~Refuse(t)
    <3>1. UNCHANGED committed /\ \E pc \in {"reserve", "commit", "raced"} : Goto(t, pc)
      BY <1>7, <2>2 DEF Insert, tables
    <3> QED
      BY <1>7, <3>1 DEF Insert, Goto, Recs, Shape, LockedPCs, CheckedPCs, PastPCs
  <2> QED
    BY <2>1, <2>2
<1>8. CASE Reserve(t)
  <2>1. CASE Refuse(t)
    BY <1>8, <2>1, EndShape DEF Reserve, tables
  <2>2. CASE ~Refuse(t)
    <3>1. req' = [req EXCEPT ![t].n = @ + 1] /\ UNCHANGED committed /\ req[t].pc = "reserve"
      BY <1>8, <2>2 DEF Reserve, tables
    <3> QED
      BY <3>1 DEF Recs, Shape, LockedPCs, CheckedPCs, PastPCs
  <2> QED
    BY <2>1, <2>2
<1>9. CASE Reserved(t) \/ RedeemCoupon(t)
  <2>1. CASE Refuse(t)
    BY <1>9, <2>1, EndShape DEF Reserved, RedeemCoupon, tables
  <2>2. CASE ~Refuse(t)
    BY <1>9, <2>2 DEF Reserved, RedeemCoupon, Goto, tables, Recs, Shape, LockedPCs, CheckedPCs, PastPCs
  <2> QED
    BY <2>1, <2>2
<1>10. CASE Commit(t)
  BY <1>10 DEF Commit, Goto, Answer, Recs, Shape, LockedPCs, CheckedPCs, PastPCs
<1>11. CASE DeadlockVictim(t)
  BY <1>11, EndShape DEF DeadlockVictim, tables
<1>12. CASE RecordLoyalty(t)
  <2>1. CASE Refuse(t)
    BY <1>12, <2>1, EndShape DEF RecordLoyalty
  <2>2. CASE ~Refuse(t)
    BY <1>12, <2>2 DEF RecordLoyalty, Goto, Recs, Shape, LockedPCs, CheckedPCs, PastPCs
  <2> QED
    BY <2>1, <2>2
<1>13. CASE PushToKitchen(t)
  BY <1>13 DEF PushToKitchen, Answer, Recs, Shape, LockedPCs, CheckedPCs, PastPCs
<1>14. CASE Crash(t)
  BY <1>1, <1>14 DEF Crash, tables
<1> QED
  BY <1>2, <1>3, <1>4, <1>5, <1>6, <1>7, <1>8, <1>9, <1>10, <1>11, <1>12, <1>13, <1>14 DEF Step

(* The lock, the check under it and the commit keep the invariant. *)
LEMMA ShapeKeeps ==
  ASSUME NEW t \in Threads, IInv, Shape(t)
  PROVE  LockExcludes' /\ CheckedUnspent' /\ CommittedPast' /\ IntentSpentOnce'
<1> USE DEF IInv
<1>1. \A u \in Threads : req'[u].p = req[u].p
  BY DEF Shape
<1>2. committed \subseteq Threads
  BY DEF TypeOK
<1>3. LockExcludes'
  <2>1. CASE LockIntent(t)
    <3>1. \A u \in Threads \ {t} : req[u].pc \in LockedPCs => req[u].p.intent # req[t].p.intent
      BY <2>1 DEF LockIntent, HasIntent, At, Sends, LockedPCs
    <3> QED
      BY <1>1, <3>1 DEF Shape, LockExcludes
  <2>2. CASE ~LockIntent(t)
    BY <1>1, <2>2 DEF Shape, LockExcludes
  <2> QED
    BY <2>1, <2>2
<1>4. CommittedPast'
  BY <1>2 DEF Shape, CommittedPast
<1>5. CASE UNCHANGED committed
  BY <1>1, <1>2, <1>3, <1>4, <1>5 DEF Shape, CheckedUnspent, Spent, Sends, IntentSpentOnce
<1>6. CASE committed' = committed \cup {t} /\ req[t].pc = "commit" /\ req'[t].pc \in PastPCs
  <2>1. \A u \in committed : req[u].p.intent # req[t].p.intent
    BY <1>6 DEF CheckedUnspent, CheckedPCs, Spent, Sends
  <2>2. IntentSpentOnce'
    BY <1>1, <1>2, <1>6, <2>1 DEF IntentSpentOnce, Sends
  <2>3. ASSUME NEW u \in Threads, req'[u].pc \in CheckedPCs PROVE ~Spent(req[u].p.intent)'
    <3>1. u # t
      BY <1>6, <2>3 DEF CheckedPCs, PastPCs
    <3>2. req[u].pc \in CheckedPCs /\ req'[u] = req[u]
      BY <2>3, <3>1 DEF Shape
    <3>3. req[u].p.intent # req[t].p.intent
      BY <1>6, <3>1, <3>2 DEF LockExcludes, LockedPCs, CheckedPCs
    <3>4. \A w \in committed : req[w].p.intent # req[u].p.intent
      BY <3>2 DEF CheckedUnspent, Spent, Sends
    <3> QED
      BY <1>1, <1>2, <1>6, <3>2, <3>3, <3>4 DEF Spent, Sends
  <2>4. CheckedUnspent'
    BY <2>3 DEF CheckedUnspent
  <2> QED
    BY <1>3, <1>4, <2>2, <2>4
<1> QED
  BY <1>5, <1>6 DEF Shape

(* The invariant holds at the start and is kept by every step. *)
LEMMA Invariance == Spec => []IInv
<1>1. Init => IInv
  <2> SUFFICES ASSUME Init PROVE IInv
    OBVIOUS
  <2>1. \A t \in Threads : req[t].pc = "idle"
    BY DEF Init, Fresh
  <2> QED
    BY <2>1, InitType DEF Init, IInv, LockExcludes, CheckedUnspent, CommittedPast, IntentSpentOnce,
                          LockedPCs, CheckedPCs
<1>2. IInv /\ [Next]_vars => IInv'
  <2> SUFFICES ASSUME IInv, [Next]_vars PROVE IInv'
    OBVIOUS
  <2>1. TypeOK'
    BY NextType DEF IInv
  <2>2. CASE UNCHANGED <<req, committed>>
    BY <2>1, <2>2 DEF IInv, LockExcludes, CheckedUnspent, CommittedPast, IntentSpentOnce, Spent, Sends
  <2>3. ASSUME NEW t \in Threads, Step(t) \/ Crash(t) PROVE IInv'
    BY <2>1, <2>3, StepShape, ShapeKeeps DEF IInv
  <2>4. ASSUME NEW t \in Threads, NEW p \in Payloads, Submit(t, p) PROVE IInv'
    <3>1. /\ UNCHANGED committed /\ t \notin committed
          /\ req'[t].pc \notin LockedPCs /\ req'[t].pc \notin CheckedPCs
          /\ \A u \in Threads \ {t} : req'[u] = req[u]
      BY <2>4 DEF Submit, At, IInv, TypeOK, Recs, CommittedPast, PastPCs, LockedPCs, CheckedPCs, tables
    <3>2. \A u \in committed : u \in Threads /\ req'[u] = req[u]
      BY <3>1 DEF IInv, TypeOK
    <3>3. LockExcludes'
      BY <3>1 DEF IInv, LockExcludes
    <3>4. CheckedUnspent'
      BY <3>1, <3>2 DEF IInv, CheckedUnspent, Spent, Sends
    <3>5. CommittedPast'
      BY <3>1, <3>2 DEF IInv, CommittedPast
    <3>6. IntentSpentOnce'
      BY <3>1, <3>2 DEF IInv, IntentSpentOnce, Sends
    <3> QED
      BY <2>1, <3>3, <3>4, <3>5, <3>6 DEF IInv
  <2> QED
    BY <2>2, <2>3, <2>4 DEF Next, StatusChanges, EditRead, EditSave, vars, tables
<1> QED
  BY <1>1, <1>2, PTL DEF Spec

(* One intent pays for at most one order or booking: the advisory lock and the
   check repeated under it suffice, whatever the number of requests. *)
THEOREM PaymentsSpentOnce == Spec => []IntentSpentOnce
  BY Invariance, PTL DEF IInv

-----------------------------------------------------------------------------
(* Retries agree *)

RowPCs     == {"reserve", "redeem", "commit"}
SettledPCs == {"loyalty", "push"}

\* Two open transactions never have inserted orders with one key, nor has one
\* inserted what is committed with its key, and committed orders differ in their keys.
RowsDiffer ==
  \A t, u \in Threads : HasRow(t) /\ HasRow(u) /\ SameKey(t, u) => t = u
RowsAreNew ==
  \A t \in Threads, u \in committed : HasRow(t) => ~SameKey(t, u)
KeysDiffer ==
  \A t, u \in committed : SameKey(t, u) => t = u

\* A request past its transaction is committed.
SettledCommitted == \A t \in Threads : req[t].pc \in SettledPCs => t \in committed

\* An answer names a committed order: that of the request, or one that asked for the same.
AnswerTrue(t) ==
  LET o == req[t].answer.order IN
  /\ req[t].pc = "done" /\ o \in committed /\ Sends(o) = Sends(t)
  /\ t \in Shoppers => o \in Shoppers
AnswersTrue ==
  \A t \in Threads : req[t].answer.kind \in {"created", "replayed"} => AnswerTrue(t)

KeyInv == RowsDiffer /\ RowsAreNew /\ KeysDiffer /\ SettledCommitted /\ AnswersTrue

\* What a step of one request can do to the rows with its key and to its answer.
KeyShape(t) ==
  /\ req[t].pc # "done"
  /\ req'[t].pc \in RowPCs =>
       \/ req[t].pc \in RowPCs
       \/ ~Duplicate(t) /\ \A u \in Threads \ {t} : ~(HasRow(u) /\ SameKey(t, u))
  /\ req'[t].pc \in SettledPCs => req[t].pc \in SettledPCs \/ t \in committed'
  /\ \/ req'[t].answer = req[t].answer
     \/ req'[t].answer.kind \in {"refused", "conflict"}
     \/ /\ req'[t].pc = "done" /\ req'[t].answer = [kind |-> "created", order |-> t]
        /\ t \in committed' \/ req[t].pc = "push"
     \/ /\ req'[t].pc = "done" /\ req'[t].answer.order \in OrderOf(t)
        /\ Sends(req'[t].answer.order) = Sends(t)

(* Replays and refusals have this shape. *)
LEMMA EndKeyShape ==
  ASSUME NEW t \in Threads, TypeOK, req[t].pc # "done",
         Refuse(t) \/ \E o \in OrderOf(t) : Replay(t, o)
  PROVE  KeyShape(t)
<1> USE DEF TypeOK, Recs, KeyShape, RowPCs, SettledPCs
<1>1. CASE Refuse(t)
  BY <1>1 DEF Refuse, Answer
<1>2. ASSUME NEW o \in OrderOf(t), Replay(t, o) PROVE KeyShape(t)
  BY <1>2 DEF Replay, Answer
<1> QED
  BY <1>1, <1>2

(* Every step of a request has this shape. *)
LEMMA StepKeyShape ==
  ASSUME NEW t \in Threads, TypeOK, Step(t) \/ Crash(t) PROVE KeyShape(t)
<1> USE DEF TypeOK, At
<1>1. ASSUME NEW pc \in Steps \ (RowPCs \cup SettledPCs), Goto(t, pc), req[t].pc # "done"
      PROVE  KeyShape(t)
  BY <1>1 DEF Goto, Recs, KeyShape
<1>2. CASE FindKey(t) \/ Raced(t)
  BY <1>1, <1>2, EndKeyShape DEF FindKey, Raced, RowPCs, SettledPCs, Steps
<1>3. CASE QuoteOrder(t)
  <2>1. CASE Refuse(t)
    BY <1>3, <2>1, EndKeyShape DEF QuoteOrder
  <2>2. CASE ~Refuse(t)
    BY <1>3, <2>2 DEF QuoteOrder, Recs, KeyShape, RowPCs, SettledPCs
  <2> QED
    BY <2>1, <2>2
<1>4. CASE Precheck(t) \/ Begin(t) \/ LockIntent(t) \/ Check(t)
  <2>1. CASE Refuse(t)
    BY <1>4, <2>1, EndKeyShape DEF Precheck, Begin, LockIntent, Check
  <2>2. CASE ~Refuse(t)
    BY <1>1, <1>4, <2>2 DEF Precheck, Begin, LockIntent, Check, RowPCs, SettledPCs, Steps
  <2> QED
    BY <2>1, <2>2
<1>5. CASE Insert(t)
  <2>1. CASE Refuse(t)
    BY <1>5, <2>1, EndKeyShape DEF Insert
  <2>2. CASE Goto(t, "raced")
    BY <1>1, <1>5, <2>2 DEF Insert, RowPCs, SettledPCs, Steps
  <2>3. CASE ~Duplicate(t) /\ \E pc \in {"reserve", "commit"} : Goto(t, pc)
    BY <1>5, <2>3 DEF Insert, Goto, Recs, KeyShape, SettledPCs
  <2> QED
    BY <1>5, <2>1, <2>2, <2>3 DEF Insert
<1>6. CASE Reserve(t) \/ Reserved(t) \/ RedeemCoupon(t)
  <2>1. CASE Refuse(t)
    BY <1>6, <2>1, EndKeyShape DEF Reserve, Reserved, RedeemCoupon
  <2>2. CASE ~Refuse(t)
    BY <1>6, <2>2 DEF Reserve, Reserved, RedeemCoupon, Goto, Recs, KeyShape, RowPCs, SettledPCs
  <2> QED
    BY <2>1, <2>2
<1>7. CASE Commit(t)
  BY <1>7 DEF Commit, Goto, Answer, Recs, KeyShape, RowPCs, SettledPCs
<1>8. CASE DeadlockVictim(t)
  <2>1. req[t].pc = "reserve"
    BY <1>8 DEF DeadlockVictim, WaitsFor
  <2> QED
    BY <1>8, <2>1, EndKeyShape DEF DeadlockVictim
<1>9. CASE RecordLoyalty(t)
  <2>1. CASE Refuse(t)
    BY <1>9, <2>1, EndKeyShape DEF RecordLoyalty
  <2>2. CASE ~Refuse(t)
    BY <1>9, <2>2 DEF RecordLoyalty, Goto, Recs, KeyShape, RowPCs, SettledPCs
  <2> QED
    BY <2>1, <2>2
<1>10. CASE PushToKitchen(t)
  BY <1>10 DEF PushToKitchen, Answer, Recs, KeyShape, RowPCs, SettledPCs
<1>11. CASE Crash(t)
  BY <1>1, <1>11 DEF Crash, RowPCs, SettledPCs, Steps
<1> QED
  BY <1>2, <1>3, <1>4, <1>5, <1>6, <1>7, <1>8, <1>9, <1>10, <1>11 DEF Step

(* Inserting under a key, committing and answering keep the invariant. *)
LEMMA KeyShapeKeeps ==
  ASSUME NEW t \in Threads, TypeOK, TypeOK', KeyInv, Shape(t), KeyShape(t) PROVE KeyInv'
<1>1. /\ \A u \in Threads : req'[u].p = req[u].p
      /\ \A u \in Threads \ {t} : req'[u] = req[u]
      /\ committed \subseteq Threads /\ committed \subseteq committed'
      /\ committed' \subseteq committed \cup {t}
      /\ t \in committed' => t \in committed \/ req[t].pc = "commit"
      /\ committed' # committed => req'[t].pc \in PastPCs
  BY DEF Shape, TypeOK
<1>2. \A u, v \in Threads : SameKey(u, v)' = SameKey(u, v)
  BY <1>1 DEF SameKey, Sends
<1>3. RowsDiffer'
  <2>1. \A u \in Threads \ {t} : HasRow(u)' = HasRow(u)
    BY <1>1 DEF HasRow, At
  <2>2. HasRow(t)' => HasRow(t) \/ \A u \in Threads \ {t} : ~(HasRow(u) /\ SameKey(t, u))
    BY DEF KeyShape, HasRow, At, RowPCs
  <2>3. \A u, v \in Threads : SameKey(u, v) <=> SameKey(v, u)
    BY DEF SameKey
  <2> QED
    BY <1>2, <2>1, <2>2, <2>3 DEF KeyInv, RowsDiffer
<1>4. RowsAreNew'
  <2> SUFFICES ASSUME NEW v \in Threads, NEW u \in committed', HasRow(v)' PROVE ~SameKey(v, u)
    BY <1>1, <1>2 DEF RowsAreNew, TypeOK
  <2>1. CASE u \in committed
    <3>1. CASE v = t
      BY <2>1, <3>1 DEF KeyShape, HasRow, At, RowPCs, Duplicate, KeyInv, RowsAreNew
    <3>2. CASE v # t
      BY <1>1, <2>1, <3>2 DEF HasRow, At, KeyInv, RowsAreNew
    <3> QED
      BY <3>1, <3>2
  <2>2. CASE u \notin committed
    <3>1. u = t /\ req[t].pc = "commit" /\ req'[t].pc \in PastPCs
      BY <1>1, <2>2
    <3>2. v # t /\ HasRow(v) /\ HasRow(t)
      BY <1>1, <3>1 DEF HasRow, At, PastPCs
    <3> QED
      BY <3>1, <3>2 DEF KeyInv, RowsDiffer
  <2> QED
    BY <2>1, <2>2
<1>5. KeysDiffer'
  <2>1. t \in committed' => t \in committed \/ \A u \in committed : ~SameKey(t, u) /\ ~SameKey(u, t)
    BY <1>1 DEF KeyInv, RowsAreNew, HasRow, At, SameKey
  <2> QED
    BY <1>1, <1>2, <2>1 DEF KeyInv, KeysDiffer
<1>6. SettledCommitted'
  BY <1>1 DEF KeyInv, SettledCommitted, KeyShape
<1>7. AnswersTrue'
  <2> SUFFICES ASSUME NEW u \in Threads, req'[u].answer.kind \in {"created", "replayed"}
               PROVE  AnswerTrue(u)'
    BY DEF AnswersTrue
  <2> DEFINE o == req[u].answer.order
             n == req'[u].answer.order
  <2>1. ASSUME o \in Threads, AnswerTrue(u), req'[u] = req[u] PROVE AnswerTrue(u)'
    BY <1>1, <2>1 DEF AnswerTrue, Sends
  <2>2. CASE u # t
    <3>1. req'[u] = req[u]
      BY <1>1, <2>2
    <3>2. AnswerTrue(u) /\ o \in Threads
      BY <3>1 DEF KeyInv, AnswersTrue, TypeOK, Recs, Outcomes
    <3> QED
      BY <2>1, <3>1, <3>2
  <2>3. CASE u = t
    <3>1. req'[t].answer # req[t].answer
      BY <2>3 DEF KeyShape, KeyInv, AnswersTrue, AnswerTrue
    <3>2. CASE /\ req'[t].pc = "done" /\ req'[t].answer = [kind |-> "created", order |-> t]
               /\ t \in committed' \/ req[t].pc = "push"
      <4>1. t \in committed'
        BY <1>1, <3>2 DEF KeyInv, SettledCommitted, SettledPCs
      <4> QED
        BY <2>3, <3>2, <4>1 DEF AnswerTrue
    <3>3. CASE /\ req'[t].pc = "done" /\ req'[t].answer.order \in OrderOf(t)
               /\ Sends(req'[t].answer.order) = Sends(t)
      <4>1. n \in committed /\ n \in Shoppers /\ n \in Threads /\ req[n].p = req[t].p
        BY <2>3, <3>3 DEF OrderOf, Sends, Threads
      <4> QED
        BY <1>1, <2>3, <3>3, <4>1 DEF AnswerTrue, Sends
    <3> QED
      BY <2>3, <3>1, <3>2, <3>3 DEF KeyShape
  <2> QED
    BY <2>2, <2>3
<1> QED
  BY <1>3, <1>4, <1>5, <1>6, <1>7 DEF KeyInv

(* Taking up a request leaves rows and answers alone. *)
LEMMA SubmitKeeps ==
  ASSUME IInv, TypeOK', KeyInv, NEW t \in Threads, NEW p \in Payloads, Submit(t, p) PROVE KeyInv'
<1>1. /\ UNCHANGED committed /\ t \notin committed /\ req[t].pc = "idle"
      /\ req'[t].pc \in {"find", "precheck"} /\ req'[t].answer = req[t].answer
      /\ \A u \in Threads \ {t} : req'[u] = req[u]
      /\ committed \subseteq Threads
  BY DEF Submit, At, IInv, TypeOK, Recs, CommittedPast, PastPCs, tables
<1>2. \A u, v \in Threads \ {t} : SameKey(u, v)' = SameKey(u, v)
  BY <1>1 DEF SameKey, Sends
<1>3. ~HasRow(t)' /\ \A u \in Threads \ {t} : HasRow(u)' = HasRow(u)
  BY <1>1 DEF HasRow, At
<1>4. RowsDiffer' /\ RowsAreNew' /\ KeysDiffer'
  BY <1>1, <1>2, <1>3 DEF KeyInv, RowsDiffer, RowsAreNew, KeysDiffer
<1>5. SettledCommitted'
  BY <1>1 DEF KeyInv, SettledCommitted, SettledPCs
<1>6. AnswersTrue'
  <2> SUFFICES ASSUME NEW u \in Threads, req'[u].answer.kind \in {"created", "replayed"}
               PROVE  AnswerTrue(u)'
    BY DEF AnswersTrue
  <2>1. u # t
    BY <1>1 DEF KeyInv, AnswersTrue, AnswerTrue
  <2>2. req'[u] = req[u] /\ AnswerTrue(u)
    BY <1>1, <2>1 DEF KeyInv, AnswersTrue
  <2> QED
    BY <1>1, <2>1, <2>2 DEF AnswerTrue, Sends
<1> QED
  BY <1>4, <1>5, <1>6 DEF KeyInv

LEMMA KeyInvariance == Spec => []KeyInv
<1>1. Init => KeyInv
  <2> SUFFICES ASSUME Init PROVE KeyInv
    OBVIOUS
  <2>1. committed = {} /\ \A t \in Threads : req[t].pc = "idle" /\ req[t].answer.kind = "none"
    BY DEF Init, Fresh
  <2> QED
    BY <2>1 DEF KeyInv, RowsDiffer, RowsAreNew, KeysDiffer, SettledCommitted, SettledPCs, AnswersTrue,
                HasRow, At
<1>2. IInv /\ KeyInv /\ [Next]_vars => KeyInv'
  <2> SUFFICES ASSUME IInv, KeyInv, [Next]_vars PROVE KeyInv'
    OBVIOUS
  <2>1. TypeOK /\ TypeOK'
    BY NextType DEF IInv
  <2>2. CASE UNCHANGED <<req, committed>>
    BY <2>2 DEF KeyInv, RowsDiffer, RowsAreNew, KeysDiffer, SettledCommitted, AnswersTrue, AnswerTrue,
                HasRow, At, SameKey, Sends
  <2>3. ASSUME NEW t \in Threads, Step(t) \/ Crash(t) PROVE KeyInv'
    BY <2>1, <2>3, StepShape, StepKeyShape, KeyShapeKeeps
  <2>4. ASSUME NEW t \in Threads, NEW p \in Payloads, Submit(t, p) PROVE KeyInv'
    BY <2>1, <2>4, SubmitKeeps
  <2> QED
    BY <2>2, <2>3, <2>4 DEF Next, StatusChanges, EditRead, EditSave, vars, tables
<1> QED
  BY <1>1, <1>2, Invariance, PTL DEF Spec

(* However many times a request is sent under one key, at once or later, those that
   succeed get one order, and it is what they asked for: the unique index lets one
   of them in and the fingerprint tells the others apart. *)
THEOREM RetriesGetOneOrder == Spec => []RetriesAgree
<1>1. IInv /\ KeyInv => RetriesAgree
  <2> SUFFICES ASSUME IInv, KeyInv, NEW t \in Shoppers, NEW u \in Shoppers,
                      Sends(t).key = Sends(u).key,
                      req[t].answer.kind \in {"created", "replayed"},
                      req[u].answer.kind \in {"created", "replayed"}
               PROVE  req[t].answer.order = req[u].answer.order /\ Sends(t) = Sends(u)
    BY DEF RetriesAgree
  <2>1. t \in Threads /\ u \in Threads
    BY DEF Threads
  <2>2. AnswerTrue(t) /\ AnswerTrue(u)
    BY <2>1 DEF KeyInv, AnswersTrue
  <2>3. SameKey(req[t].answer.order, req[u].answer.order)
    BY <2>2 DEF AnswerTrue, SameKey
  <2> QED
    BY <2>2, <2>3 DEF AnswerTrue, KeyInv, KeysDiffer
<1> QED
  BY <1>1, Invariance, KeyInvariance, PTL

-----------------------------------------------------------------------------
(* The coupon's cap *)

\* Who has redeemed the coupon and not committed holds its row, found it below the
\* cap, and is alone.
HolderBelowCap ==
  \A t \in Threads : HasCoupon(t) =>
    redeemed < MaxRedemptions /\ \A u \in Threads : HasCoupon(u) => u = t

\* The counter, what edits made it forget, and what an edit is about to write.
CounterCapped ==
  /\ redeemed <= MaxRedemptions
  /\ \A a \in Admins : admin[a].pc = "save" => admin[a].count <= MaxRedemptions
OrdersCounted == Cardinality(CouponOrders) <= redeemed + forgot

CouponInv == HolderBelowCap /\ CounterCapped /\ OrdersCounted

\* What a step of one request can do to the coupon.
CouponShape(t) ==
  /\ UNCHANGED <<admin, forgot>>
  /\ HasCoupon(t)' => redeemed < MaxRedemptions /\ \A u \in Threads : ~HasCoupon(u)
  /\ \/ UNCHANGED <<redeemed, committed>>
     \/ committed' = committed \cup {t} /\ req[t].pc = "commit" /\ req'[t].pc # "commit"
        /\ redeemed' = redeemed + (IF HasCoupon(t) THEN 1 ELSE 0)

(* Every step of a request has this shape. *)
LEMMA StepCouponShape ==
  ASSUME NEW t \in Threads, TypeOK, Step(t) \/ Crash(t) PROVE CouponShape(t)
<1> USE DEF TypeOK, At, CouponShape
<1>1. ASSUME UNCHANGED <<admin, forgot, redeemed, committed>>, req'[t].pc # "commit"
      PROVE  CouponShape(t)
  BY <1>1 DEF HasCoupon
<1>2. ASSUME \/ Refuse(t) \/ \E o \in Threads : Replay(t, o)
             \/ \E pc \in Steps \ {"commit"} : Goto(t, pc)
      PROVE  req'[t].pc # "commit"
  BY <1>2 DEF Refuse, Replay, Answer, Goto, Recs
<1>3. CASE FindKey(t) \/ Raced(t)
  <2>1. \A o \in OrderOf(t) : o \in Threads
    BY DEF OrderOf
  <2> QED
    BY <1>1, <1>2, <1>3, <2>1 DEF FindKey, Raced, tables, history, Steps
<1>4. CASE QuoteOrder(t)
  <2>1. CASE Refuse(t)
    BY <1>1, <1>2, <1>4, <2>1 DEF QuoteOrder, tables, history
  <2>2. CASE ~Refuse(t)
    BY <1>1, <1>4, <2>2 DEF QuoteOrder, tables, history, Recs
  <2> QED
    BY <2>1, <2>2
<1>5. CASE Precheck(t) \/ Begin(t) \/ LockIntent(t) \/ Check(t) \/ DeadlockVictim(t)
  BY <1>1, <1>2, <1>5 DEF Precheck, Begin, LockIntent, Check, DeadlockVictim, tables, history, Steps
<1>6. CASE Insert(t)
  <2>1. CASE t \in Shoppers
    BY <1>1, <1>2, <1>6, <2>1 DEF Insert, tables, history, Steps
  <2>2. CASE t \notin Shoppers
    BY <1>6, <2>2 DEF Insert, tables, history, HasCoupon
  <2> QED
    BY <2>1, <2>2
<1>7. CASE Reserve(t)
  <2>1. CASE Refuse(t)
    BY <1>1, <1>2, <1>7, <2>1 DEF Reserve, tables, history
  <2>2. CASE ~Refuse(t)
    BY <1>1, <1>7, <2>2 DEF Reserve, tables, history, Recs
  <2> QED
    BY <2>1, <2>2
<1>8. CASE Reserved(t)
  <2>1. CASE Sends(t).coupon
    BY <1>1, <1>2, <1>8, <2>1 DEF Reserved, tables, history, Steps
  <2>2. CASE ~Sends(t).coupon
    <3>1. req'[t].p = req[t].p
      BY <1>8 DEF Reserved, Goto, Recs
    <3> QED
      BY <1>8, <2>2, <3>1 DEF Reserved, tables, history, HasCoupon, Sends
  <2> QED
    BY <2>1, <2>2
<1>9. CASE RedeemCoupon(t)
  <2>1. CASE Refuse(t)
    BY <1>1, <1>2, <1>9, <2>1 DEF RedeemCoupon, tables, history
  <2>2. CASE ~Refuse(t)
    BY <1>9, <2>2 DEF RedeemCoupon, tables, history
  <2> QED
    BY <2>1, <2>2
<1>10. CASE Commit(t)
  <2>1. req'[t].pc # "commit"
    BY <1>10 DEF Commit, Goto, Answer, Recs
  <2> QED
    BY <1>10, <2>1 DEF Commit, history, HasCoupon
<1>11. CASE RecordLoyalty(t)
  <2>1. CASE Refuse(t)
    BY <1>1, <1>2, <1>11, <2>1 DEF RecordLoyalty, history
  <2>2. CASE ~Refuse(t)
    BY <1>1, <1>2, <1>11, <2>2 DEF RecordLoyalty, history, Steps
  <2> QED
    BY <2>1, <2>2
<1>12. CASE PushToKitchen(t)
  BY <1>1, <1>12 DEF PushToKitchen, Answer, Recs, history
<1>13. CASE Crash(t)
  BY <1>1, <1>2, <1>13 DEF Crash, tables, Steps
<1> QED
  BY <1>3, <1>4, <1>5, <1>6, <1>7, <1>8, <1>9, <1>10, <1>11, <1>12, <1>13 DEF Step

(* Orders with the coupon are finitely many, and one commit adds one at most. *)
LEMMA OrdersFinite ==
  ASSUME TypeOK PROVE IsFiniteSet(CouponOrders) /\ Cardinality(CouponOrders) \in Nat
<1>1. CouponOrders \subseteq Threads
  BY DEF CouponOrders, TypeOK
<1> QED
  BY <1>1, ThreadsFinite, FS_Subset, FS_CardinalityType

(* A redemption is counted when its order is committed. *)
LEMMA CouponShapeKeeps ==
  ASSUME NEW t \in Threads, TypeOK, TypeOK', CouponInv, Shape(t), CouponShape(t) PROVE CouponInv'
<1>1. /\ \A u \in Threads \ {t} : req'[u] = req[u]
      /\ \A u \in Threads : req'[u].p = req[u].p
      /\ committed \subseteq Threads
  BY DEF Shape, TypeOK
<1>2. \A u \in Threads \ {t} : HasCoupon(u)' = HasCoupon(u)
  BY <1>1 DEF HasCoupon, At, Sends
<1>3. CASE UNCHANGED <<redeemed, committed>>
  <2>1. HolderBelowCap'
    BY <1>2, <1>3 DEF CouponInv, HolderBelowCap, CouponShape
  <2>2. CouponOrders' = CouponOrders
    BY <1>1, <1>3 DEF CouponOrders, Sends
  <2> QED
    BY <1>3, <2>1, <2>2 DEF CouponInv, CounterCapped, OrdersCounted, CouponShape
<1>4. CASE /\ committed' = committed \cup {t} /\ req[t].pc = "commit" /\ req'[t].pc # "commit"
           /\ redeemed' = redeemed + (IF HasCoupon(t) THEN 1 ELSE 0)
  <2>1. ~HasCoupon(t)' /\ UNCHANGED <<admin, forgot>>
    BY <1>4 DEF HasCoupon, At, CouponShape
  <2>2. redeemed \in Nat /\ redeemed' \in Nat /\ forgot \in Nat /\ MaxRedemptions \in Nat
    BY Numbers DEF TypeOK
  <2>3. CASE HasCoupon(t)
    <3>1. redeemed < MaxRedemptions /\ \A u \in Threads \ {t} : ~HasCoupon(u)
      BY <2>3 DEF CouponInv, HolderBelowCap
    <3>2. HolderBelowCap' /\ CounterCapped'
      BY <1>2, <1>4, <2>1, <2>2, <2>3, <3>1 DEF CouponInv, HolderBelowCap, CounterCapped
    <3>3. CouponOrders' = CouponOrders \cup {t}
      BY <1>1, <1>4, <2>3 DEF CouponOrders, HasCoupon, Sends
    <3>4. IsFiniteSet(CouponOrders) /\ Cardinality(CouponOrders) \in Nat
      BY OrdersFinite
    <3>5. \/ Cardinality(CouponOrders \cup {t}) = Cardinality(CouponOrders)
          \/ Cardinality(CouponOrders \cup {t}) = Cardinality(CouponOrders) + 1
      BY <3>4, FS_AddElement
    <3>6. Cardinality(CouponOrders)' = Cardinality(CouponOrders \cup {t})
      BY <3>3
    <3>7. Cardinality(CouponOrders) <= redeemed + forgot
      BY DEF CouponInv, OrdersCounted
    <3>8. Cardinality(CouponOrders)' <= redeemed' + forgot'
      BY <1>4, <2>1, <2>2, <2>3, <3>4, <3>5, <3>6, <3>7
    <3>9. OrdersCounted'
      BY <3>8 DEF OrdersCounted
    <3> QED
      BY <3>2, <3>9 DEF CouponInv
  <2>4. CASE ~HasCoupon(t)
    <3>1. UNCHANGED redeemed
      BY <1>4, <2>2, <2>4
    <3>2. CouponOrders' = CouponOrders
      BY <1>1, <1>4, <2>4 DEF CouponOrders, HasCoupon, At, Sends
    <3>3. HolderBelowCap'
      BY <1>2, <2>1, <3>1 DEF CouponInv, HolderBelowCap
    <3> QED
      BY <2>1, <3>1, <3>2, <3>3 DEF CouponInv, CounterCapped, OrdersCounted
  <2> QED
    BY <2>3, <2>4
<1> QED
  BY <1>3, <1>4 DEF CouponShape

(* An edit writes a counter that was once below the cap, and what it undoes is
   counted as forgotten. *)
LEMMA EditKeeps ==
  ASSUME TypeOK, CouponInv, NEW a \in Admins, EditRead(a) \/ EditSave(a) PROVE CouponInv'
<1>1. /\ redeemed \in Nat /\ forgot \in Nat /\ MaxRedemptions \in Nat /\ admin[a].count \in Nat
      /\ admin \in [Admins -> [pc : {"idle", "save", "done"}, count : Nat]]
  BY Numbers DEF TypeOK
<1>2. UNCHANGED <<req, committed>>
  BY DEF EditRead, EditSave, tables
<1>3. CouponOrders' = CouponOrders /\ \A t \in Threads : HasCoupon(t)' = HasCoupon(t)
  BY <1>2 DEF CouponOrders, HasCoupon, At, Sends
<1>4. CASE EditRead(a)
  <2>1. UNCHANGED <<redeemed, forgot>> /\ admin' = [admin EXCEPT ![a] = [pc |-> "save", count |-> redeemed]]
    BY <1>4 DEF EditRead, tables, history
  <2> QED
    BY <1>1, <1>3, <2>1 DEF CouponInv, HolderBelowCap, CounterCapped, OrdersCounted
<1>5. CASE EditSave(a)
  <2>1. HolderBelowCap'
    BY <1>3, <1>5 DEF EditSave, HolderBelowCap
  <2>2. CounterCapped'
    BY <1>1, <1>5 DEF EditSave, CouponInv, CounterCapped
  <2>3. redeemed + forgot <= redeemed' + forgot' /\ redeemed' \in Nat /\ forgot' \in Nat
    BY <1>1, <1>5 DEF EditSave
  <2>4. OrdersCounted'
    <3>1. Cardinality(CouponOrders)' = Cardinality(CouponOrders) /\ Cardinality(CouponOrders) \in Nat
      BY <1>3, OrdersFinite
    <3>2. Cardinality(CouponOrders) <= redeemed + forgot
      BY DEF CouponInv, OrdersCounted
    <3>3. Cardinality(CouponOrders)' <= redeemed' + forgot'
      <4>1. PICK n \in Nat : n = Cardinality(CouponOrders)
        BY <3>1
      <4>2. /\ n <= redeemed + forgot /\ redeemed \in Nat /\ forgot \in Nat
            /\ redeemed' \in Nat /\ forgot' \in Nat
        BY <1>1, <2>3, <3>2, <4>1
      <4>3. redeemed + forgot <= redeemed' + forgot'
        BY <2>3
      <4>4. \A k, l, m, o \in Nat : n <= k + l /\ k + l <= m + o => n <= m + o
        OBVIOUS
      <4>5. n <= redeemed' + forgot'
        BY <4>2, <4>3, <4>4
      <4> QED
        BY <3>1, <4>1, <4>5
    <3> QED
      BY <3>3 DEF OrdersCounted
  <2> QED
    BY <2>1, <2>2, <2>4 DEF CouponInv
<1> QED
  BY <1>4, <1>5

LEMMA CouponInvariance == Spec => []CouponInv
<1>1. Init => CouponInv
  <2> SUFFICES ASSUME Init PROVE CouponInv
    OBVIOUS
  <2>1. CouponOrders = {} /\ Cardinality(CouponOrders) = 0
    BY FS_EmptySet DEF Init, CouponOrders
  <2>2. \A t \in Threads : ~HasCoupon(t)
    BY DEF Init, Fresh, HasCoupon, At
  <2>3. \A a \in Admins : admin[a].pc = "idle"
    BY DEF Init
  <2> QED
    BY <2>1, <2>2, <2>3, Numbers DEF Init, CouponInv, HolderBelowCap, CounterCapped, OrdersCounted
<1>2. IInv /\ CouponInv /\ [Next]_vars => CouponInv'
  <2> SUFFICES ASSUME IInv, CouponInv, [Next]_vars PROVE CouponInv'
    OBVIOUS
  <2>1. TypeOK /\ TypeOK'
    BY NextType DEF IInv
  <2>2. CASE UNCHANGED <<req, committed, redeemed, admin, forgot>>
    BY <2>2 DEF CouponInv, HolderBelowCap, CounterCapped, OrdersCounted, CouponOrders, HasCoupon, At, Sends
  <2>3. ASSUME NEW t \in Threads, Step(t) \/ Crash(t) PROVE CouponInv'
    BY <2>1, <2>3, StepShape, StepCouponShape, CouponShapeKeeps
  <2>4. ASSUME NEW t \in Threads, NEW p \in Payloads, Submit(t, p) PROVE CouponInv'
    <3>1. /\ UNCHANGED <<committed, redeemed, admin, forgot>> /\ t \notin committed
          /\ req[t].pc = "idle" /\ req'[t].pc # "commit"
          /\ \A u \in Threads \ {t} : req'[u] = req[u]
      BY <2>1, <2>4 DEF Submit, At, IInv, TypeOK, Recs, CommittedPast, PastPCs, tables, history
    <3>2. \A u \in Threads : HasCoupon(u)' = HasCoupon(u)
      BY <3>1 DEF HasCoupon, At, Sends
    <3>3. CouponOrders' = CouponOrders
      BY <2>1, <3>1 DEF CouponOrders, Sends, TypeOK
    <3> QED
      BY <3>1, <3>2, <3>3 DEF CouponInv, HolderBelowCap, CounterCapped, OrdersCounted
  <2>5. ASSUME NEW a \in Admins, EditRead(a) \/ EditSave(a) PROVE CouponInv'
    BY <2>1, <2>5, EditKeeps
  <2> QED
    BY <2>2, <2>3, <2>4, <2>5 DEF Next, StatusChanges, vars, tables, history
<1> QED
  BY <1>1, <1>2, Invariance, PTL DEF Spec

(* The coupon's discount is given at most maxRedemptions times, but for the
   redemptions that edits of the coupon made its counter forget, for any number of
   orders and edits: the UPDATE tests the cap while it holds the coupon's row. *)
THEOREM CouponCapHolds == Spec => []CouponWithinCap
<1>1. TypeOK /\ CouponInv => CouponWithinCap
  <2> SUFFICES ASSUME TypeOK, CouponInv PROVE CouponWithinCap
    OBVIOUS
  <2>1. redeemed \in Nat /\ forgot \in Nat /\ MaxRedemptions \in Nat /\ Cardinality(CouponOrders) \in Nat
    BY Numbers, OrdersFinite DEF TypeOK
  <2> QED
    BY <2>1 DEF CouponInv, CounterCapped, OrdersCounted, CouponWithinCap
<1> QED
  BY <1>1, TypeCorrect, CouponInvariance, PTL

-----------------------------------------------------------------------------
(* Points *)

(* Recording an order's points debits no more than there are: the balance is read
   again under the user's lock. *)
THEOREM PointsStay == Spec => []PointsNotOverdrawn
<1>1. Init => PointsNotOverdrawn
  BY Numbers DEF Init, PointsNotOverdrawn
<1>2. TypeOK /\ PointsNotOverdrawn /\ [Next]_vars => PointsNotOverdrawn'
  <2> SUFFICES ASSUME TypeOK, PointsNotOverdrawn, [Next]_vars PROVE PointsNotOverdrawn'
    OBVIOUS
  <2>1. CASE UNCHANGED balance
    BY <2>1 DEF PointsNotOverdrawn
  <2>2. ASSUME NEW t \in Threads, RecordLoyalty(t), balance' # balance PROVE PointsNotOverdrawn'
    <3> DEFINE user == Sends(t).user
    <3>1. user \in Users /\ req[t].points \in Nat /\ Earn \in Nat /\ balance \in [Users -> Int]
      BY Numbers DEF TypeOK, Recs, Sent, Sends
    <3>2. /\ ~(req[t].points > 0 /\ balance[user] < req[t].points)
          /\ balance' = [balance EXCEPT ![user] = @ - req[t].points + Earn]
      BY <2>2 DEF RecordLoyalty
    <3> HIDE DEF user
    <3>3. balance[user] >= 0
      BY <3>1 DEF PointsNotOverdrawn
    <3> QED
      BY <3>1, <3>2, <3>3 DEF PointsNotOverdrawn
  <2> QED
    BY <2>1, <2>2 DEF Next, Step, StatusChanges, Submit, Crash, EditRead, EditSave, FindKey, QuoteOrder,
                      Precheck, Begin, LockIntent, Check, Insert, Reserve, Reserved, RedeemCoupon, Commit,
                      DeadlockVictim, Raced, PushToKitchen, vars, tables
<1> QED
  BY <1>1, <1>2, TypeCorrect, PTL DEF Spec

-----------------------------------------------------------------------------
(* Stock *)

BeforePCs == {"idle", "find", "quote", "precheck", "begin", "lock", "check", "insert"}

\* Nothing is taken before the row is inserted, and all lines are after reserving.
LinesInOrder ==
  \A t \in Shoppers :
    /\ req[t].pc \in BeforePCs => req[t].n = 0
    /\ req[t].pc \in {"redeem", "commit"} => req[t].n = Len(Sends(t).lines)

\* An item's row is locked by one transaction, which finds there what it has taken.
HeldOnce ==
  \A t, u \in Shoppers, x \in Items : HasItem(t, x) /\ HasItem(u, x) => t = u
HeldInStock ==
  \A t \in Shoppers, x \in Items : HasRow(t) => Taken(t, x) <= stock[x]

SoldFinite == \A x \in Items : IsFiniteSet(Sold(x))

StockInv == LinesInOrder /\ HeldOnce /\ HeldInStock /\ SoldFinite /\ StockConserved

\* A step of one request that neither takes an item nor commits.
NoTaking(t) ==
  /\ UNCHANGED <<stock, committed>>
  /\ req'[t].n = req[t].n
  /\ req'[t].pc \in BeforePCs => req[t].pc \in BeforePCs
  /\ t \in Shoppers /\ req'[t].pc \in {"redeem", "commit"} =>
       req[t].pc = "redeem" \/ (req[t].pc = "reserve" /\ AllReserved(t))
  /\ req'[t].pc \in RowPCs => req[t].pc \in RowPCs \cup {"insert"}

\* A line is reserved.
Takes(t) ==
  /\ UNCHANGED <<stock, committed>>
  /\ req'[t].n = req[t].n + 1 /\ req[t].pc = "reserve" /\ req'[t].pc = "reserve"
  /\ \A u \in Shoppers \ {t} : ~HasItem(u, NextItem(t))
  /\ stock[NextItem(t)] - Taken(t, NextItem(t)) >= 1

(* A request takes a line, commits, or neither. *)
LEMMA StepStockShape ==
  ASSUME NEW t \in Threads, TypeOK, Step(t) \/ Crash(t) PROVE NoTaking(t) \/ Takes(t) \/ Commit(t)
<1> USE DEF TypeOK, At
<1>1. ASSUME NEW pc \in Steps \ (BeforePCs \cup RowPCs), Goto(t, pc), UNCHANGED tables PROVE NoTaking(t)
  BY <1>1 DEF Goto, Recs, NoTaking, tables, RowPCs
<1>2. ASSUME Refuse(t) \/ \E o \in Threads : Replay(t, o), UNCHANGED <<stock, committed>> PROVE NoTaking(t)
  BY <1>2 DEF Refuse, Replay, Answer, Recs, NoTaking, BeforePCs, RowPCs
<1>3. CASE FindKey(t) \/ Raced(t)
  <2>1. \A o \in OrderOf(t) : o \in Threads
    BY DEF OrderOf
  <2>2. CASE Goto(t, "quote")
    <3>1. req[t].pc = "find" \/ Refuse(t) \/ \E o \in Threads : Replay(t, o)
      BY <1>3, <2>1 DEF FindKey, Raced
    <3> QED
      BY <1>2, <1>3, <2>2, <3>1 DEF FindKey, Raced, Goto, Recs, NoTaking, tables, BeforePCs, RowPCs
  <2> QED
    BY <1>2, <1>3, <2>1, <2>2 DEF FindKey, Raced, tables
<1>4. CASE QuoteOrder(t)
  <2>1. CASE Refuse(t)
    BY <1>2, <1>4, <2>1 DEF QuoteOrder, tables
  <2>2. CASE ~Refuse(t)
    BY <1>4, <2>2 DEF QuoteOrder, tables, Recs, NoTaking, BeforePCs, RowPCs
  <2> QED
    BY <2>1, <2>2
<1>5. CASE Precheck(t) \/ Begin(t) \/ LockIntent(t) \/ Check(t)
  <2>1. CASE Refuse(t)
    BY <1>2, <1>5, <2>1 DEF Precheck, Begin, LockIntent, Check, tables
  <2>2. CASE ~Refuse(t)
    <3>1. /\ UNCHANGED <<stock, committed>> /\ req[t].pc \in BeforePCs
          /\ \E pc \in {"begin", "lock", "check", "insert"} : Goto(t, pc)
      BY <1>5, <2>2 DEF Precheck, Begin, LockIntent, Check, tables, BeforePCs
    <3> QED
      BY <3>1 DEF Goto, Recs, NoTaking, RowPCs
  <2> QED
    BY <2>1, <2>2
<1>6. CASE Insert(t)
  <2>1. CASE Refuse(t)
    BY <1>2, <1>6, <2>1 DEF Insert, tables
  <2>2. CASE ~Refuse(t)
    <3>1. /\ UNCHANGED <<stock, committed>> /\ req[t].pc = "insert"
          /\ \/ Goto(t, "reserve") \/ Goto(t, "raced")
             \/ t \notin Shoppers /\ Goto(t, "commit")
      BY <1>6, <2>2 DEF Insert, tables
    <3> QED
      BY <3>1 DEF Goto, Recs, NoTaking, BeforePCs, RowPCs
  <2> QED
    BY <2>1, <2>2
<1>7. CASE Reserve(t)
  <2>1. CASE Refuse(t)
    BY <1>2, <1>7, <2>1 DEF Reserve, tables
  <2>2. CASE ~Refuse(t)
    <3>1. req' = [req EXCEPT ![t].n = @ + 1] /\ UNCHANGED <<stock, committed>> /\ req[t].pc = "reserve"
      BY <1>7, <2>2 DEF Reserve, tables
    <3>2. req'[t].n = req[t].n + 1 /\ req'[t].pc = "reserve"
      BY <3>1 DEF Recs
    <3> QED
      BY <1>7, <2>2, <3>1, <3>2 DEF Reserve, Takes
  <2> QED
    BY <2>1, <2>2
<1>8. CASE Reserved(t) \/ RedeemCoupon(t)
  <2>1. CASE Refuse(t)
    BY <1>2, <1>8, <2>1 DEF Reserved, RedeemCoupon, tables
  <2>2. CASE ~Refuse(t)
    <3>1. /\ UNCHANGED <<stock, committed>>
          /\ req[t].pc = "redeem" \/ (req[t].pc = "reserve" /\ AllReserved(t))
          /\ \E pc \in {"redeem", "commit"} : Goto(t, pc)
      BY <1>8, <2>2 DEF Reserved, RedeemCoupon, tables
    <3>2. req'[t].n = req[t].n /\ req'[t].pc \in {"redeem", "commit"}
      BY <3>1 DEF Goto, Recs
    <3> QED
      BY <3>1, <3>2 DEF NoTaking, BeforePCs, RowPCs
  <2> QED
    BY <2>1, <2>2
<1>9. CASE DeadlockVictim(t)
  BY <1>2, <1>9 DEF DeadlockVictim, tables
<1>10. CASE RecordLoyalty(t)
  <2>1. CASE Refuse(t)
    BY <1>2, <1>10, <2>1 DEF RecordLoyalty
  <2>2. CASE ~Refuse(t)
    BY <1>10, <2>2 DEF RecordLoyalty, Goto, Recs, NoTaking, BeforePCs, RowPCs
  <2> QED
    BY <2>1, <2>2
<1>11. CASE PushToKitchen(t)
  BY <1>11 DEF PushToKitchen, Answer, Recs, NoTaking, BeforePCs, RowPCs
<1>12. CASE Crash(t)
  BY <1>1, <1>12 DEF Crash, Steps, BeforePCs, RowPCs
<1> QED
  BY <1>3, <1>4, <1>5, <1>6, <1>7, <1>8, <1>9, <1>10, <1>11, <1>12 DEF Step

(* One more line makes one more unit of its item. *)
LEMMA TakenGrows ==
  ASSUME TypeOK, NEW t \in Threads, NEW x, req'[t].p = req[t].p, req'[t].n = req[t].n + 1
  PROVE  Taken(t, x)' = IF NextItem(t) = x THEN Taken(t, x) + 1 ELSE Taken(t, x)
<1> DEFINE n == req[t].n
           lines == Sends(t).lines
           old == {k \in 1..n : lines[k] = x}
           new == {k \in 1..(n + 1) : lines[k] = x}
<1>1. n \in Nat
  BY DEF TypeOK, Recs
<1>2. Taken(t, x) = Cardinality(old) /\ Taken(t, x)' = Cardinality(new)
  BY DEF Taken, Sends
<1>3. IsFiniteSet(1..n) /\ old \subseteq 1..n
  BY <1>1, FS_Interval, SMTT(30)
<1>4. IsFiniteSet(old)
  BY <1>3, FS_Subset
<1>5. CASE NextItem(t) = x
  <2>1. new = old \cup {n + 1} /\ n + 1 \notin old
    BY <1>1, <1>5 DEF NextItem
  <2> QED
    BY <1>2, <1>4, <1>5, <2>1, FS_AddElement
<1>6. CASE NextItem(t) # x
  <2>1. new = old
    BY <1>1, <1>6 DEF NextItem
  <2> QED
    BY <1>2, <1>6, <2>1
<1> QED
  BY <1>5, <1>6

(* Requests whose lines and payload stay have taken what they had. *)
LEMMA TakenStays ==
  ASSUME NEW t, NEW x, req'[t].p = req[t].p, req'[t].n = req[t].n PROVE Taken(t, x)' = Taken(t, x)
  BY DEF Taken, Sends

(* Who has no line has taken nothing. *)
LEMMA NothingTaken == ASSUME NEW t, NEW x, req[t].n = 0 PROVE Taken(t, x) = 0
<1>1. {k \in 1..req[t].n : Sends(t).lines[k] = x} = {}
  OBVIOUS
<1> QED
  BY <1>1, FS_EmptySet DEF Taken

(* What a commit adds to the lines sold is what its request has taken. *)
LEMMA SoldGrows ==
  ASSUME TypeOK, NEW t \in Shoppers, t \notin committed, committed' = committed \cup {t},
         \A u \in Threads : req'[u].p = req[u].p, req[t].n = Len(Sends(t).lines),
         NEW x, IsFiniteSet(Sold(x))
  PROVE  IsFiniteSet(Sold(x)') /\ Cardinality(Sold(x)') = Cardinality(Sold(x)) + Taken(t, x)
<1> DEFINE own == {k \in 1..req[t].n : Sends(t).lines[k] = x}
<1>1. t \in Threads /\ committed \subseteq Threads /\ req[t].n \in Nat
  BY DEF TypeOK, Recs, Threads
<1>2. IsFiniteSet(1..req[t].n) /\ own \subseteq 1..req[t].n
  BY <1>1, FS_Interval
<1>3. IsFiniteSet(own) /\ Cardinality(own) \in Nat /\ Cardinality(own) = Taken(t, x)
  BY <1>2, FS_Subset, FS_CardinalityType DEF Taken
<1>4. Sold(x)' = Sold(x) \cup ({t} \X own)
  <2>1. \A u \in committed \cup {t} : Sends(u)' = Sends(u)
    BY <1>1 DEF Sends
  <2> QED
    BY <2>1 DEF Sold
<1>5. Sold(x) \cap ({t} \X own) = {}
  BY DEF Sold
<1> HIDE DEF own
<1>6. IsFiniteSet({t} \X own) /\ Cardinality({t} \X own) = Cardinality(own)
  <2>1. IsFiniteSet({t}) /\ Cardinality({t}) = 1
    BY FS_Singleton
  <2>2. /\ IsFiniteSet({t} \X own)
        /\ Cardinality({t} \X own) = Cardinality({t}) * Cardinality(own)
    BY <1>3, <2>1, FS_Product
  <2> QED
    BY <1>3, <2>1, <2>2
<1>7. /\ IsFiniteSet(Sold(x) \cup ({t} \X own))
      /\ Cardinality(Sold(x) \cup ({t} \X own)) =
           Cardinality(Sold(x)) + Cardinality({t} \X own) - Cardinality(Sold(x) \cap ({t} \X own))
  BY <1>6, FS_Union
<1>8. Cardinality(Sold(x)) \in Nat /\ Cardinality(Sold(x) \cap ({t} \X own)) = 0
  BY <1>5, FS_EmptySet, FS_CardinalityType
<1> QED
  BY <1>3, <1>4, <1>6, <1>7, <1>8

(* Lines sold change with the committed orders only. *)
LEMMA SoldStays ==
  ASSUME TypeOK, NEW x, committed' \cap Shoppers = committed \cap Shoppers,
         \A u \in committed \cap Shoppers : req'[u].p = req[u].p
  PROVE  Sold(x)' = Sold(x)
  BY DEF Sold, Sends

(* Rollbacks, refusals and other steps leave the shelf and what is held of it alone. *)
LEMMA NoTakingKeeps ==
  ASSUME TypeOK, TypeOK', StockInv, NEW t \in Threads,
         \A u \in Threads \ {t} : req'[u] = req[u], \A u \in Threads : u # t => req'[u].p = req[u].p,
         \/ req'[t].p = req[t].p
         \/ t \notin committed /\ req'[t].pc \in BeforePCs /\ req[t].pc \in BeforePCs,
         NoTaking(t)
  PROVE  StockInv'
<1>1. Shoppers \subseteq Threads /\ BeforePCs \cap RowPCs = {}
  BY DEF Threads, BeforePCs, RowPCs
<1>2. LinesInOrder'
  <2> SUFFICES ASSUME NEW u \in Shoppers
               PROVE  /\ req'[u].pc \in BeforePCs => req'[u].n = 0
                      /\ req'[u].pc \in {"redeem", "commit"} => req'[u].n = Len(req'[u].p.lines)
    BY DEF LinesInOrder, Sends
  <2>1. CASE u # t
    BY <1>1, <2>1 DEF StockInv, LinesInOrder, Sends
  <2>2. CASE u = t
    BY <1>1, <2>2 DEF StockInv, LinesInOrder, Sends, NoTaking, AllReserved, RowPCs
  <2> QED
    BY <2>1, <2>2
<1>3. ASSUME NEW u \in Shoppers, NEW x, HasRow(u)'
      PROVE  /\ Taken(u, x)' = Taken(u, x)
             /\ HasRow(u) \/ Taken(u, x) = 0
  <2>1. CASE u # t
    BY <1>1, <1>3, <2>1, TakenStays DEF HasRow, At
  <2>2. CASE u = t
    <3>1. req'[t].p = req[t].p /\ req'[t].n = req[t].n
      BY <1>1, <1>3, <2>2 DEF NoTaking, HasRow, At, RowPCs
    <3>2. req[t].pc \in RowPCs \/ req[t].n = 0
      BY <1>3, <2>2 DEF NoTaking, HasRow, At, RowPCs, StockInv, LinesInOrder, BeforePCs
    <3> QED
      BY <2>2, <3>1, <3>2, TakenStays, NothingTaken DEF HasRow, At, RowPCs
  <2> QED
    BY <2>1, <2>2
<1>4. \A u \in Shoppers, x \in Items : HasItem(u, x)' => HasItem(u, x)
  <2> SUFFICES ASSUME NEW u \in Shoppers, NEW x \in Items, HasItem(u, x)' PROVE HasItem(u, x)
    OBVIOUS
  <2>1. HasRow(u)' /\ Taken(u, x)' > 0
    BY DEF HasItem
  <2>2. Taken(u, x)' = Taken(u, x) /\ (HasRow(u) \/ Taken(u, x) = 0)
    BY <1>3, <2>1
  <2> QED
    BY <2>1, <2>2 DEF HasItem
<1>5. HeldOnce'
  BY <1>4 DEF StockInv, HeldOnce
<1>6. HeldInStock'
  <2> SUFFICES ASSUME NEW u \in Shoppers, NEW x \in Items, HasRow(u)' PROVE Taken(u, x)' <= stock'[x]
    BY DEF HeldInStock
  <2>1. Taken(u, x)' = Taken(u, x) /\ (HasRow(u) \/ Taken(u, x) = 0) /\ stock' = stock
    BY <1>3 DEF NoTaking
  <2>2. stock[x] >= 0
    BY DEF StockInv, StockConserved
  <2> QED
    BY <2>1, <2>2 DEF StockInv, HeldInStock
<1>7. \A x : Sold(x)' = Sold(x)
  <2>1. committed' = committed /\ \A u \in committed \cap Shoppers : req'[u].p = req[u].p
    BY <1>1 DEF NoTaking
  <2> QED
    BY <2>1, SoldStays
<1>8. SoldFinite' /\ StockConserved'
  BY <1>7 DEF StockInv, SoldFinite, StockConserved, NoTaking
<1> QED
  BY <1>2, <1>5, <1>6, <1>8 DEF StockInv

(* A line is taken from an item nobody else holds and of which one more is there. *)
LEMMA TakesKeeps ==
  ASSUME TypeOK, TypeOK', StockInv, NEW t \in Threads,
         \A u \in Threads \ {t} : req'[u] = req[u], req'[t].p = req[t].p, Takes(t)
  PROVE  StockInv'
<1> DEFINE item == NextItem(t)
<1>1. /\ Shoppers \subseteq Threads /\ \A u \in Threads : req'[u].p = req[u].p
      /\ UNCHANGED <<stock, committed>> /\ HasRow(t) /\ HasRow(t)'
  BY DEF Threads, Takes, HasRow, At
<1>2. LinesInOrder'
  BY <1>1 DEF StockInv, LinesInOrder, Sends, Takes, BeforePCs
<1>3. \A u \in Shoppers \ {t}, x \in Items : Taken(u, x)' = Taken(u, x) /\ HasRow(u)' = HasRow(u)
                                             /\ HasItem(u, x)' = HasItem(u, x)
  BY <1>1, TakenStays DEF HasRow, At, HasItem
<1>4. \A x \in Items : /\ Taken(t, x)' = IF item = x THEN Taken(t, x) + 1 ELSE Taken(t, x)
                       /\ Taken(t, x) \in Nat
  BY <1>1, TakenGrows, TakenType DEF Takes
<1>5. \A u \in Shoppers \ {t} : ~HasItem(u, item)
  BY DEF Takes
<1>6. HeldOnce'
  <2>1. \A u \in Shoppers \ {t}, x \in Items : ~(HasItem(u, x)' /\ HasItem(t, x)') \/ t \notin Shoppers
    <3> SUFFICES ASSUME t \in Shoppers, NEW u \in Shoppers \ {t}, NEW x \in Items,
                        HasItem(u, x)', HasItem(t, x)'
                 PROVE  FALSE
      OBVIOUS
    <3>1. HasItem(u, x) /\ x # item
      BY <1>3, <1>5
    <3>2. HasItem(t, x)
      BY <1>1, <1>4, <3>1 DEF HasItem
    <3> QED
      BY <3>1, <3>2 DEF StockInv, HeldOnce
  <2> QED
    BY <1>3, <2>1 DEF StockInv, HeldOnce
<1>7. HeldInStock'
  <2> SUFFICES ASSUME NEW u \in Shoppers, NEW x \in Items, HasRow(u)' PROVE Taken(u, x)' <= stock[x]
    BY <1>1 DEF HeldInStock
  <2>1. CASE u # t
    BY <1>3, <2>1 DEF StockInv, HeldInStock
  <2>2. CASE u = t
    <3>1. Taken(t, x) <= stock[x] /\ Taken(t, x) \in Nat /\ stock[x] \in Int
      BY <1>1, <1>4, <2>2 DEF StockInv, HeldInStock, TypeOK
    <3>2. item = x => stock[x] - Taken(t, x) >= 1
      BY DEF Takes
    <3> QED
      BY <1>4, <2>2, <3>1, <3>2
  <2> QED
    BY <2>1, <2>2
<1>8. \A x : Sold(x)' = Sold(x)
  BY <1>1, SoldStays
<1>9. SoldFinite' /\ StockConserved'
  BY <1>1, <1>8 DEF StockInv, SoldFinite, StockConserved
<1> QED
  BY <1>2, <1>6, <1>7, <1>9 DEF StockInv

(* A commit takes off the shelf what its order has sold. *)
LEMMA CommitKeeps ==
  ASSUME IInv, TypeOK', StockInv, NEW t \in Threads, Shape(t), Commit(t) PROVE StockInv'
<1>1. /\ Shoppers \subseteq Threads /\ \A u \in Threads : req'[u].p = req[u].p
      /\ \A u \in Threads \ {t} : req'[u] = req[u]
      /\ committed' = committed \cup {t} /\ t \notin committed /\ committed \subseteq Threads
      /\ TypeOK /\ req[t].pc = "commit" /\ req'[t].pc \in PastPCs /\ HasRow(t)
  BY DEF Threads, Shape, Commit, IInv, TypeOK, CommittedPast, PastPCs, HasRow, At
<1>2. /\ stock' = [x \in Items |-> stock[x] - (IF t \in Shoppers THEN Taken(t, x) ELSE 0)]
      /\ stock \in [Items -> Int]
  BY <1>1 DEF Commit, TypeOK
<1>3. LinesInOrder'
  BY <1>1 DEF StockInv, LinesInOrder, Sends, PastPCs, BeforePCs
<1>4. \A u \in Shoppers \ {t}, x \in Items : /\ Taken(u, x)' = Taken(u, x) /\ Taken(u, x) \in Nat
                                             /\ HasRow(u)' = HasRow(u) /\ HasItem(u, x)' = HasItem(u, x)
  BY <1>1, TakenStays, TakenType DEF HasRow, At, HasItem
<1>5. ~HasRow(t)' /\ \A x \in Items : ~HasItem(t, x)' /\ Taken(t, x) \in Nat
  BY <1>1, TakenType DEF HasRow, At, HasItem, PastPCs
<1>6. HeldOnce'
  BY <1>4, <1>5 DEF StockInv, HeldOnce
<1>7. CASE t \notin Shoppers
  <2>1. stock' = stock
    BY <1>2, <1>7
  <2>2. HeldInStock'
    BY <1>4, <1>7, <2>1 DEF StockInv, HeldInStock
  <2>3. \A x : Sold(x)' = Sold(x)
    <3>1. committed' \cap Shoppers = committed \cap Shoppers
      BY <1>1, <1>7
    <3> QED
      BY <1>1, <3>1, SoldStays
  <2> QED
    BY <1>3, <1>6, <2>1, <2>2, <2>3 DEF StockInv, SoldFinite, StockConserved
<1>8. CASE t \in Shoppers
  <2>1. \A x \in Items : /\ stock'[x] = stock[x] - Taken(t, x) /\ stock[x] \in Int
                         /\ Taken(t, x) <= stock[x]
    BY <1>1, <1>2, <1>8 DEF StockInv, HeldInStock
  <2>2. HeldInStock'
    <3> SUFFICES ASSUME NEW u \in Shoppers, NEW x \in Items, HasRow(u)' PROVE Taken(u, x)' <= stock'[x]
      BY DEF HeldInStock
    <3>1. u # t /\ HasRow(u) /\ Taken(u, x)' = Taken(u, x) /\ Taken(u, x) \in Nat /\ Taken(t, x) \in Nat
      BY <1>4, <1>5
    <3>2. Taken(u, x) = 0 \/ Taken(t, x) = 0
      BY <1>1, <1>8, <3>1 DEF StockInv, HeldOnce, HasItem
    <3>3. Taken(u, x) <= stock[x]
      BY <3>1 DEF StockInv, HeldInStock
    <3> QED
      BY <2>1, <3>1, <3>2, <3>3
  <2>3. \A x \in Items : /\ IsFiniteSet(Sold(x)')
                         /\ Cardinality(Sold(x)') = Cardinality(Sold(x)) + Taken(t, x)
                         /\ Cardinality(Sold(x)) \in Nat
    <3>1. req[t].n = Len(Sends(t).lines)
      BY <1>1, <1>8 DEF StockInv, LinesInOrder
    <3> QED
      BY <1>1, <1>8, <3>1, SoldGrows, FS_CardinalityType DEF StockInv, SoldFinite
  <2>4. SoldFinite'
    BY <2>3 DEF SoldFinite
  <2>5. StockConserved'
    <3> SUFFICES ASSUME NEW x \in Items
                 PROVE  stock'[x] >= 0 /\ stock'[x] + Cardinality(Sold(x)') = Stock[x]
      BY DEF StockConserved
    <3>1. stock[x] + Cardinality(Sold(x)) = Stock[x]
      BY DEF StockInv, StockConserved
    <3>2. /\ Taken(t, x) \in Nat /\ stock'[x] = stock[x] - Taken(t, x) /\ stock[x] \in Int
          /\ Taken(t, x) <= stock[x] /\ Cardinality(Sold(x)) \in Nat
          /\ Cardinality(Sold(x)') = Cardinality(Sold(x)) + Taken(t, x)
      BY <1>5, <2>1, <2>3
    <3> QED
      BY <3>1, <3>2
  <2> QED
    BY <1>3, <1>6, <2>2, <2>4, <2>5 DEF StockInv
<1> QED
  BY <1>7, <1>8

LEMMA StockInvariance == Spec => []StockInv
<1>1. Init => StockInv
  <2> SUFFICES ASSUME Init PROVE StockInv
    OBVIOUS
  <2>1. \A t \in Threads : req[t].pc = "idle" /\ req[t].n = 0
    BY DEF Init, Fresh
  <2>2. \A t \in Shoppers : req[t].pc = "idle" /\ req[t].n = 0 /\ ~HasRow(t)
    BY <2>1 DEF Threads, HasRow, At
  <2>3. \A x : Sold(x) = {}
    BY DEF Init, Sold
  <2>4. \A x : IsFiniteSet(Sold(x)) /\ Cardinality(Sold(x)) = 0
    BY <2>3, FS_EmptySet
  <2>5. \A x \in Items : stock[x] = Stock[x] /\ Stock[x] \in Nat
    BY Numbers DEF Init
  <2>6. SoldFinite /\ StockConserved
    BY <2>4, <2>5 DEF SoldFinite, StockConserved
  <2> QED
    BY <2>2, <2>6 DEF StockInv, LinesInOrder, HeldOnce, HeldInStock, HasItem
<1>2. IInv /\ StockInv /\ [Next]_vars => StockInv'
  <2> SUFFICES ASSUME IInv, StockInv, [Next]_vars PROVE StockInv'
    OBVIOUS
  <2>1. TypeOK /\ TypeOK'
    BY NextType DEF IInv
  <2>2. CASE UNCHANGED <<req, committed, stock>>
    <3>1. \A x : Sold(x)' = Sold(x)
      BY <2>2 DEF Sold, Sends
    <3> QED
      BY <2>2, <3>1 DEF StockInv, LinesInOrder, HeldOnce, HeldInStock, SoldFinite, StockConserved,
                        HasItem, HasRow, Taken, At, Sends
  <2>3. ASSUME NEW t \in Threads, Step(t) \/ Crash(t) PROVE StockInv'
    <3>1. Shape(t)
      BY <2>1, <2>3, StepShape
    <3>2. \A u \in Threads \ {t} : req'[u] = req[u]
      BY <3>1 DEF Shape
    <3>3. req'[t].p = req[t].p
      BY <3>1 DEF Shape
    <3>4. CASE NoTaking(t)
      <4>1. \A u \in Threads : u # t => req'[u].p = req[u].p
        BY <3>2
      <4> QED
        BY <2>1, <3>2, <3>3, <3>4, <4>1, NoTakingKeeps
    <3>5. CASE Takes(t)
      BY <2>1, <3>2, <3>3, <3>5, TakesKeeps
    <3>6. CASE Commit(t)
      BY <2>1, <3>1, <3>6, CommitKeeps
    <3> QED
      BY <2>1, <2>3, <3>4, <3>5, <3>6, StepStockShape
  <2>4. ASSUME NEW t \in Threads, NEW p \in Payloads, Submit(t, p) PROVE StockInv'
    <3>1. /\ t \notin committed /\ req[t].pc = "idle" /\ req'[t].pc \in {"find", "precheck"}
          /\ req'[t].n = req[t].n /\ \A u \in Threads \ {t} : req'[u] = req[u]
          /\ UNCHANGED <<stock, committed>>
      BY <2>1, <2>4 DEF Submit, At, IInv, TypeOK, Recs, CommittedPast, PastPCs, tables
    <3>2. NoTaking(t) /\ req[t].pc \in BeforePCs /\ req'[t].pc \in BeforePCs
      BY <3>1 DEF NoTaking, BeforePCs, RowPCs
    <3> QED
      BY <2>1, <3>1, <3>2, NoTakingKeeps
  <2> QED
    BY <2>2, <2>3, <2>4 DEF Next, StatusChanges, EditRead, EditSave, vars, tables
<1> QED
  BY <1>1, <1>2, Invariance, PTL DEF Spec

(* Nothing is oversold and nothing is lost of the stock, for any carts, crashes and
   rollbacks: a row that a transaction has updated is its own until it commits. *)
THEOREM StockAddsUp == Spec => []StockConserved
<1>1. StockInv => StockConserved
  BY DEF StockInv
<1> QED
  BY <1>1, StockInvariance, PTL
=============================================================================
