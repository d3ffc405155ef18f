------------------------ MODULE OrderLifecycle_proofs ------------------------
(* Theorems about OrderLifecycle, for any orders, requests and crashes. *)
EXTENDS OrderLifecycle, TLAPS

(* A fresh request record has the type of a cancel request. *)
LEMMA FreshType == Fresh \in CancelRecs
  BY NotEmpty DEF Fresh, AnyOrder, CancelRecs, Steps, Statuses, Open

(* Moving a request to another step keeps the type of the requests. *)
LEMMA GotoType ==
  ASSUME NEW t \in Cancels, NEW step \in Steps, cancel \in [Cancels -> CancelRecs],
         Goto(t, step)
  PROVE  cancel' \in [Cancels -> CancelRecs]
  BY DEF Goto, CancelRecs

(* Writing a row of type Rows keeps the types of order and revived. *)
LEMMA WriteRowType ==
  ASSUME NEW o \in Orders, NEW row \in Rows, order \in [Orders -> Rows],
         revived \in [Orders -> Nat], WriteRow(o, row)
  PROVE  order' \in [Orders -> Rows] /\ revived' \in [Orders -> Nat]
  BY DEF WriteRow

(* The initial state is well typed. *)
LEMMA InitType == Init => TypeOK
<1> SUFFICES ASSUME Init PROVE TypeOK
  OBVIOUS
<1>1. cancel \in [Cancels -> CancelRecs]
  BY FreshType DEF Init
<1>2. [status |-> "none", sync |-> "pending"] \in Rows
  BY DEF Rows, Syncs
<1>3. order \in [Orders -> Rows] /\ desk \in [Desk -> DeskRecs]
  BY <1>2, NotEmpty DEF Init, DeskRecs, AnyOrder
<1>4. ledger \in [Orders -> Points]
  BY DEF Init, Points
<1> QED
  BY <1>1, <1>3, <1>4 DEF Init, TypeOK

(* Every step keeps the types. *)
LEMMA StepType == TypeOK /\ [Next]_vars => TypeOK'
<1> SUFFICES ASSUME TypeOK, [Next]_vars PROVE TypeOK'
  OBVIOUS
<1> USE DEF TypeOK
<1>1. ASSUME NEW o \in Orders, Place(o) PROVE TypeOK'
  <2>1. order' \in [Orders -> Rows]
    BY <1>1 DEF Place, Rows, Statuses, Open
  <2> QED
    BY <1>1, <2>1 DEF Place, effects
<1>2. ASSUME NEW o \in Orders, RecordLoyalty(o) PROVE TypeOK'
  <2>1. ledger' \in [Orders -> Points]
    <3> DEFINE once == [ledger EXCEPT ![o].earned = 1]
               n == IF o \in Redeeming THEN 1 ELSE 0
    <3>1. once \in [Orders -> Points] /\ n \in 0..1
      BY DEF Points
    <3>2. ledger' = [once EXCEPT ![o].redeemed = n]
      BY <1>2 DEF RecordLoyalty
    <3> HIDE DEF once, n
    <3> QED
      BY <3>1, <3>2 DEF Points
  <2> QED
    BY <1>2, <2>1 DEF RecordLoyalty
<1>3. ASSUME NEW o \in Orders, LoseLoyalty(o) PROVE TypeOK'
  BY <1>3 DEF LoseLoyalty, effects
<1>4. ASSUME NEW t \in Customers, NEW o \in Orders, CancelRead(t, o) PROVE TypeOK'
  <2>1. t \in Cancels
    BY DEF Cancels
  <2>2. cancel' \in [Cancels -> CancelRecs]
    BY <1>4, <2>1, FreshType DEF CancelRead, CancelRecs, Steps
  <2> QED
    BY <1>4, <2>2 DEF CancelRead, effects
<1>5. ASSUME NEW t \in Callbacks, NEW o \in Orders, NEW to \in Codes, CallbackRead(t, o, to)
      PROVE TypeOK'
  <2>1. t \in Cancels /\ to \in Statuses
    BY KnownCodes DEF Cancels
  <2>2. order[o].status \in Statuses
    BY <1>5 DEF CallbackRead, Placed, Rows
  <2>3. cancel' \in [Cancels -> CancelRecs]
    BY <1>5, <2>1, <2>2 DEF CallbackRead, CancelRecs, Steps
  <2> QED
    BY <1>5, <2>3 DEF CallbackRead, effects
<1>6. ASSUME NEW t \in Cancels, Claim(t) PROVE TypeOK'
  <2> DEFINE o == cancel[t].order
  <2>1. o \in Orders
    BY DEF CancelRecs
  <2>2. CASE order[o].status = cancel[t].from
    <3>1. order' \in [Orders -> Rows]
      BY <1>6, <2>1, <2>2 DEF Claim, Rows, Statuses
    <3>2. restored' \in [Orders -> Nat]
      BY <1>6, <2>1, <2>2 DEF Claim
    <3>3. ledger' \in [Orders -> Points]
      BY <1>6, <2>1, <2>2 DEF Claim, ReverseLoyalty, Points
    <3>4. cancel' \in [Cancels -> CancelRecs]
      BY <1>6, <2>2 DEF Claim, CancelRecs, Steps
    <3> QED
      BY <1>6, <3>1, <3>2, <3>3, <3>4 DEF Claim
  <2>3. CASE order[o].status # cancel[t].from
    BY <1>6, <2>3, GotoType DEF Claim, effects, Steps
  <2> QED
    BY <2>2, <2>3
<1>7. ASSUME NEW t \in Cancels, Reread(t) PROVE TypeOK'
  BY <1>7, GotoType DEF Reread, effects, Steps
<1>8. ASSUME NEW t \in Cancels, AskRefund(t) PROVE TypeOK'
  <2>1. cancel[t].order \in Orders
    BY DEF CancelRecs
  <2>2. cancel' \in [Cancels -> CancelRecs]
    BY <1>8, GotoType DEF AskRefund, Steps
  <2> QED
    BY <1>8, <2>1, <2>2 DEF AskRefund, effects
<1>9. ASSUME NEW t \in Cancels, TellKitchen(t) PROVE TypeOK'
  <2>1. cancel[t].order \in Orders
    BY DEF CancelRecs
  <2> QED
    BY <1>9, <2>1, GotoType DEF TellKitchen, effects, Steps
<1>10. ASSUME NEW t \in Cancels, Notify(t) PROVE TypeOK'
  <2>1. cancel[t].order \in Orders
    BY DEF CancelRecs
  <2> QED
    BY <1>10, <2>1, GotoType DEF Notify, effects, Steps
<1>11. ASSUME NEW t \in Cancels, CallbackWrite(t) PROVE TypeOK'
  <2>1. cancel[t].order \in Orders /\ [status |-> cancel[t].to, sync |-> "synced"] \in Rows
    BY DEF CancelRecs, Rows, Syncs
  <2>2. order' \in [Orders -> Rows] /\ revived' \in [Orders -> Nat]
    BY <1>11, <2>1, WriteRowType DEF CallbackWrite
  <2> QED
    BY <1>11, <2>2, GotoType DEF CallbackWrite, effects, Steps
<1>12. ASSUME NEW t \in Cancels, CallbackMark(t) PROVE TypeOK'
  <2>1. order' \in [Orders -> Rows]
    BY <1>12, ZenonT(30) DEF CallbackMark, Rows, Syncs, CancelRecs
  <2> QED
    BY <1>12, <2>1, GotoType DEF CallbackMark, effects, Steps
<1>13. ASSUME NEW t \in Cancels, Crash(t) PROVE TypeOK'
  BY <1>13, GotoType DEF Crash, effects, Steps
<1>14. ASSUME NEW d \in Desk, NEW o \in Orders, DeskRead(d, o) PROVE TypeOK'
  <2>1. \A row \in DeskRows(order[o]) : row \in Rows
    BY DEF DeskRows, Rows, Statuses
  <2>2. desk' \in [Desk -> DeskRecs]
    BY <1>14, <2>1 DEF DeskRead, DeskRecs
  <2> QED
    BY <1>14, <2>2 DEF DeskRead, effects
<1>15. ASSUME NEW d \in Desk, DeskSave(d) PROVE TypeOK'
  <2>1. desk[d].order \in Orders /\ desk[d].row \in Rows
    BY DEF DeskRecs
  <2>2. order' \in [Orders -> Rows] /\ revived' \in [Orders -> Nat]
    BY <1>15, <2>1, WriteRowType DEF DeskSave
  <2>3. desk' \in [Desk -> DeskRecs]
    BY <1>15 DEF DeskSave, DeskRecs
  <2> QED
    BY <1>15, <2>2, <2>3 DEF DeskSave, effects
<1>16. CASE UNCHANGED vars
  BY <1>16 DEF vars, effects
<1> QED
  BY <1>1, <1>2, <1>3, <1>4, <1>5, <1>6, <1>7, <1>8, <1>9, <1>10, <1>11, <1>12,
     <1>13, <1>14, <1>15, <1>16 DEF Next, Proceed

(* Every variable keeps its type, whatever the requests do. *)
THEOREM TypeCorrect == Spec => []TypeOK
  BY InitType, StepType, PTL DEF Spec

-----------------------------------------------------------------------------
(* The inductive invariant *)

(* What a request decided when it read the order stays with it: a cancel goes on
   only from an open status, a callback or a desk never writes 'cancelled'. *)
Judged ==
  /\ \A t \in Cancels :
       /\ cancel[t].pc \in {"mark", "claim"} => cancel[t].from \notin {"cancelled", "delivered"}
       /\ cancel[t].pc = "write" => cancel[t].to # "cancelled"
  /\ \A d \in Desk : desk[d].pc = "save" => desk[d].row.status # "cancelled"

(* A request about to ask for a refund has an order whose stock came back. *)
RefundersCancelled ==
  \A t \in Cancels : cancel[t].pc = "refund" => restored[cancel[t].order] >= 1

IInv == /\ TypeOK /\ Judged /\ StockAccounted /\ RefundersCancelled
        /\ RefundOnlyCancelled /\ CancelLeadsToRefund /\ PointsReversedOnce

(* The tables that the stock and refund invariants speak of, and who changes them. *)
rows == <<order, restored, revived>>

(* A judgement is made when the order is read and never revised. *)
LEMMA StepJudged == TypeOK /\ Judged /\ [Next]_vars => Judged'
<1> SUFFICES ASSUME TypeOK, Judged, [Next]_vars PROVE Judged'
  OBVIOUS
<1> USE DEF Judged, TypeOK
<1>1. ASSUME NEW t \in Customers, NEW o \in Orders, CancelRead(t, o) PROVE Judged'
  BY <1>1 DEF CancelRead, Fresh, Cancels
<1>2. ASSUME NEW t \in Callbacks, NEW o \in Orders, NEW to \in Codes, CallbackRead(t, o, to)
      PROVE Judged'
  BY <1>2 DEF CallbackRead, IsStatusProgression, Cancels
<1>3. ASSUME NEW t \in Cancels, Proceed(t) \/ Crash(t) PROVE Judged'
  <2>1. UNCHANGED desk
    BY <1>3 DEF Proceed, Claim, Reread, AskRefund, TellKitchen, Notify, CallbackWrite,
                CallbackMark, Crash
  <2>2. CASE CallbackMark(t)
    BY <2>1, <2>2 DEF CallbackMark, Goto, CancelRecs
  <2>3. CASE Claim(t)
    <3>1. /\ \A u \in Cancels \ {t} : cancel'[u] = cancel[u]
          /\ cancel'[t].pc \in {"refund", "reread"}
      BY <2>3 DEF Claim, Goto, CancelRecs
    <3> QED
      BY <2>1, <3>1
  <2>4. CASE Reread(t) \/ AskRefund(t) \/ TellKitchen(t) \/ Notify(t) \/ CallbackWrite(t) \/ Crash(t)
    <3>1. \E step \in {"refund", "done", "notify", "tell"} : Goto(t, step)
      BY <2>4 DEF Reread, AskRefund, TellKitchen, Notify, CallbackWrite, Crash
    <3> QED
      BY <2>1, <3>1 DEF Goto, CancelRecs
  <2> QED
    BY <1>3, <2>2, <2>3, <2>4 DEF Proceed
<1>4. ASSUME NEW d \in Desk, NEW o \in Orders, DeskRead(d, o) PROVE Judged'
  <2>1. \A row \in DeskRows(order[o]) : row.status # "cancelled"
    BY DEF DeskRows, Rows, Open
  <2> QED
    BY <1>4, <2>1 DEF DeskRead
<1>5. ASSUME NEW d \in Desk, DeskSave(d) PROVE Judged'
  BY <1>5 DEF DeskSave
<1>6. ASSUME NEW o \in Orders, Place(o) \/ RecordLoyalty(o) \/ LoseLoyalty(o) PROVE Judged'
  BY <1>6 DEF Place, RecordLoyalty, LoseLoyalty
<1>7. CASE UNCHANGED vars
  BY <1>7 DEF vars
<1> QED
  BY <1>1, <1>2, <1>3, <1>4, <1>5, <1>6, <1>7 DEF Next

(* A written row that is not cancelled keeps the stock account. *)
LEMMA WriteRowStock ==
  ASSUME TypeOK, StockAccounted, NEW o \in Orders, NEW row \in Rows,
         row.status # "cancelled", WriteRow(o, row), UNCHANGED restored
  PROVE  StockAccounted'
  BY DEF TypeOK, Rows, StockAccounted, WriteRow

(* Stock comes back exactly with an entry into 'cancelled'. *)
LEMMA StepStock == TypeOK /\ Judged /\ StockAccounted /\ [Next]_vars => StockAccounted'
<1> SUFFICES ASSUME TypeOK, Judged, StockAccounted, [Next]_vars PROVE StockAccounted'
  OBVIOUS
<1>1. CASE UNCHANGED rows
  BY <1>1 DEF rows, StockAccounted
<1>2. ASSUME NEW o \in Orders, Place(o) PROVE StockAccounted'
  BY <1>2 DEF Place, Placed, StockAccounted, TypeOK, Rows, effects
<1>3. ASSUME NEW t \in Cancels, Claim(t) PROVE StockAccounted'
  <2>1. CASE order[cancel[t].order].status = cancel[t].from
    BY <1>3, <2>1 DEF Claim, Judged, StockAccounted, TypeOK, Rows, CancelRecs
  <2>2. CASE order[cancel[t].order].status # cancel[t].from
    BY <1>3, <2>2, <1>1 DEF Claim, rows, effects
  <2> QED
    BY <2>1, <2>2
<1>4. ASSUME NEW t \in Cancels, CallbackWrite(t) PROVE StockAccounted'
  <2>1. cancel[t].order \in Orders /\ [status |-> cancel[t].to, sync |-> "synced"] \in Rows
    BY DEF TypeOK, CancelRecs, Rows, Syncs
  <2> QED
    BY <1>4, <2>1, WriteRowStock DEF CallbackWrite, Judged, effects
<1>5. ASSUME NEW t \in Cancels, CallbackMark(t) PROVE StockAccounted'
  BY <1>5 DEF CallbackMark, StockAccounted, TypeOK, Rows, CancelRecs, effects
<1>6. ASSUME NEW d \in Desk, DeskSave(d) PROVE StockAccounted'
  <2>1. desk[d].order \in Orders /\ desk[d].row \in Rows
    BY DEF TypeOK, DeskRecs
  <2> QED
    BY <1>6, <2>1, WriteRowStock DEF DeskSave, Judged, effects
<1> QED
  BY <1>1, <1>2, <1>3, <1>4, <1>5, <1>6
  DEF Next, Proceed, rows, effects, vars, RecordLoyalty, LoseLoyalty, CancelRead, CallbackRead,
      Reread, AskRefund, TellKitchen, Notify, Crash, DeskRead

(* restored never shrinks, so what was cancelled once stays accounted for. *)
LEMMA RestoredGrows ==
  TypeOK /\ [Next]_vars => \A o \in Orders : restored'[o] >= restored[o]
<1> SUFFICES ASSUME TypeOK, [Next]_vars PROVE \A o \in Orders : restored'[o] >= restored[o]
  OBVIOUS
<1>1. CASE UNCHANGED restored
  BY <1>1 DEF TypeOK
<1>2. ASSUME NEW t \in Cancels, Claim(t) PROVE \A o \in Orders : restored'[o] >= restored[o]
  BY <1>1, <1>2 DEF Claim, TypeOK, CancelRecs, effects
<1> QED
  BY <1>1, <1>2
  DEF Next, Proceed, effects, vars, RecordLoyalty, LoseLoyalty, Place, CancelRead, CallbackRead,
      Reread, AskRefund, TellKitchen, Notify, CallbackWrite, CallbackMark, Crash, DeskRead, DeskSave

(* Only a request that saw or made a cancel comes to ask for a refund. *)
LEMMA StepRefund ==
  TypeOK /\ StockAccounted /\ RefundersCancelled /\ RefundOnlyCancelled /\ [Next]_vars
    => RefundersCancelled' /\ RefundOnlyCancelled'
<1> SUFFICES ASSUME TypeOK, StockAccounted, RefundersCancelled, RefundOnlyCancelled, [Next]_vars
             PROVE  RefundersCancelled' /\ RefundOnlyCancelled'
  OBVIOUS
<1>1. /\ \A o \in Orders : restored'[o] >= restored[o] /\ restored[o] \in Nat /\ restored'[o] \in Nat
      /\ \A o \in Orders : order[o].status = "cancelled" => restored[o] >= 1
      /\ \A t \in Cancels : cancel[t].order \in Orders
  <2>1. \A o \in Orders : restored'[o] \in Nat
    BY StepType DEF TypeOK
  <2> QED
    BY <2>1, RestoredGrows DEF TypeOK, StockAccounted, CancelRecs
<1>2. CASE UNCHANGED <<cancel, asked>>
  BY <1>1, <1>2 DEF RefundersCancelled, RefundOnlyCancelled, TypeOK
<1>3. ASSUME NEW t \in Customers, NEW o \in Orders, CancelRead(t, o)
      PROVE  RefundersCancelled' /\ RefundOnlyCancelled'
  <2>1. t \in Cancels /\ cancel'[t].order = o /\ UNCHANGED <<asked, restored>>
    BY <1>3 DEF CancelRead, Fresh, Cancels, TypeOK, effects
  <2>2. cancel'[t].pc = "refund" => order[o].status = "cancelled"
    BY <1>3, <2>1 DEF CancelRead, TypeOK
  <2>3. \A u \in Cancels \ {t} : cancel'[u] = cancel[u]
    BY <1>3 DEF CancelRead, TypeOK
  <2> QED
    BY <1>1, <2>1, <2>2, <2>3 DEF RefundersCancelled, RefundOnlyCancelled
<1>4. ASSUME NEW t \in Callbacks, NEW o \in Orders, NEW to \in Codes, CallbackRead(t, o, to)
      PROVE  RefundersCancelled' /\ RefundOnlyCancelled'
  BY <1>4 DEF CallbackRead, RefundersCancelled, RefundOnlyCancelled, Cancels, TypeOK, effects
<1>5. ASSUME NEW t \in Cancels, Claim(t) PROVE RefundersCancelled' /\ RefundOnlyCancelled'
  <2>1. /\ UNCHANGED asked /\ cancel'[t].order = cancel[t].order
        /\ \A u \in Cancels \ {t} : cancel'[u] = cancel[u]
    BY <1>5 DEF Claim, Goto, TypeOK, CancelRecs
  <2>2. cancel'[t].pc = "refund" => restored'[cancel[t].order] >= 1
    BY <1>1, <1>5 DEF Claim, Goto, TypeOK, CancelRecs, effects
  <2> QED
    BY <1>1, <2>1, <2>2 DEF RefundersCancelled, RefundOnlyCancelled, TypeOK
<1>6. ASSUME NEW t \in Cancels, Reread(t) PROVE RefundersCancelled' /\ RefundOnlyCancelled'
  <2>1. /\ UNCHANGED <<asked, restored>> /\ cancel'[t].order = cancel[t].order
        /\ \A u \in Cancels \ {t} : cancel'[u] = cancel[u]
        /\ cancel'[t].pc = "refund" => order[cancel[t].order].status = "cancelled"
    BY <1>6 DEF Reread, Goto, TypeOK, CancelRecs, effects
  <2> QED
    BY <1>1, <2>1 DEF RefundersCancelled, RefundOnlyCancelled, TypeOK
<1>7. ASSUME NEW t \in Cancels, AskRefund(t) PROVE RefundersCancelled' /\ RefundOnlyCancelled'
  BY <1>1, <1>7 DEF AskRefund, Goto, RefundersCancelled, RefundOnlyCancelled, TypeOK, CancelRecs, effects
<1>8. ASSUME NEW t \in Cancels,
             TellKitchen(t) \/ Notify(t) \/ CallbackWrite(t) \/ CallbackMark(t) \/ Crash(t)
      PROVE  RefundersCancelled' /\ RefundOnlyCancelled'
  <2>1. UNCHANGED <<asked, restored>> /\ \E step \in {"notify", "done", "claim"} : Goto(t, step)
    BY <1>8 DEF TellKitchen, Notify, CallbackWrite, CallbackMark, Crash, effects
  <2> QED
    BY <2>1 DEF Goto, RefundersCancelled, RefundOnlyCancelled, TypeOK, CancelRecs
<1> QED
  BY <1>2, <1>3, <1>4, <1>5, <1>6, <1>7, <1>8
  DEF Next, Proceed, vars, effects, Place, RecordLoyalty, LoseLoyalty, DeskRead, DeskSave

(* A step that asks for no refund and cancels nothing keeps the promise of one. *)
LEMMA KeepsPromise ==
  ASSUME TypeOK, CancelLeadsToRefund, crashes' = 0 => crashes = 0, asked \subseteq asked',
         \A o \in Orders : order'[o].status = "cancelled" => order[o].status = "cancelled",
         \A t \in Cancels : cancel[t].pc = "refund" => cancel'[t] = cancel[t]
  PROVE  CancelLeadsToRefund'
  BY DEF CancelLeadsToRefund

(* The request that cancels an order is the one that asks for its refund. *)
LEMMA StepPromise == TypeOK /\ Judged /\ CancelLeadsToRefund /\ [Next]_vars => CancelLeadsToRefund'
<1> SUFFICES ASSUME TypeOK, Judged, CancelLeadsToRefund, [Next]_vars PROVE CancelLeadsToRefund'
  OBVIOUS
<1>1. ASSUME NEW o \in Orders, Place(o) \/ RecordLoyalty(o) \/ LoseLoyalty(o)
      PROVE  CancelLeadsToRefund'
  <2>1. /\ UNCHANGED <<asked, cancel>> /\ (crashes' = 0 => crashes = 0)
        /\ \A p \in Orders : order'[p].status = "cancelled" => order[p].status = "cancelled"
    BY <1>1 DEF Place, RecordLoyalty, LoseLoyalty, TypeOK, Rows
  <2> QED
    BY <2>1, KeepsPromise
<1>2. ASSUME NEW t \in Customers, NEW o \in Orders, CancelRead(t, o) PROVE CancelLeadsToRefund'
  BY <1>2, KeepsPromise DEF CancelRead, TypeOK, Cancels
<1>3. ASSUME NEW t \in Callbacks, NEW o \in Orders, NEW to \in Codes, CallbackRead(t, o, to)
      PROVE CancelLeadsToRefund'
  BY <1>3, KeepsPromise DEF CallbackRead, TypeOK, Cancels
<1>4. ASSUME NEW t \in Cancels, Claim(t) PROVE CancelLeadsToRefund'
  <2>1. CASE order[cancel[t].order].status = cancel[t].from
    <3>1. /\ cancel'[t].pc = "refund" /\ cancel'[t].order = cancel[t].order
          /\ \A u \in Cancels \ {t} : cancel'[u] = cancel[u]
          /\ \A o \in Orders \ {cancel[t].order} : order'[o] = order[o]
          /\ UNCHANGED <<asked, crashes>> /\ cancel[t].pc = "claim"
      BY <1>4, <2>1 DEF Claim, TypeOK, CancelRecs
    <3> QED
      BY <3>1 DEF CancelLeadsToRefund
  <2>2. CASE order[cancel[t].order].status # cancel[t].from
    BY <1>4, <2>2, KeepsPromise DEF Claim, Goto, TypeOK
  <2> QED
    BY <2>1, <2>2
<1>5. ASSUME NEW t \in Cancels, AskRefund(t) PROVE CancelLeadsToRefund'
  <2>1. /\ asked' = asked \cup {cancel[t].order} /\ UNCHANGED <<order, crashes>>
        /\ \A u \in Cancels \ {t} : cancel'[u] = cancel[u]
    BY <1>5 DEF AskRefund, Goto, TypeOK
  <2> QED
    BY <2>1 DEF CancelLeadsToRefund
<1>6. ASSUME NEW t \in Cancels, Crash(t) PROVE CancelLeadsToRefund'
  BY <1>6 DEF Crash, CancelLeadsToRefund, TypeOK
<1>7. ASSUME NEW t \in Cancels, CallbackWrite(t) PROVE CancelLeadsToRefund'
  <2>1. /\ UNCHANGED <<asked, crashes>> /\ cancel[t].pc = "write" /\ cancel[t].to # "cancelled"
        /\ \A u \in Cancels \ {t} : cancel'[u] = cancel[u]
        /\ order' = [order EXCEPT ![cancel[t].order] = [status |-> cancel[t].to, sync |-> "synced"]]
    BY <1>7 DEF CallbackWrite, WriteRow, Goto, Judged, TypeOK
  <2> QED
    BY <2>1, KeepsPromise DEF TypeOK
<1>8. ASSUME NEW t \in Cancels, CallbackMark(t) PROVE CancelLeadsToRefund'
  <2>1. \A o \in Orders : order'[o].status = order[o].status
    BY <1>8 DEF CallbackMark, TypeOK, Rows
  <2> QED
    BY <1>8, <2>1, KeepsPromise DEF CallbackMark, Goto, TypeOK
<1>9. ASSUME NEW t \in Cancels, Reread(t) \/ TellKitchen(t) \/ Notify(t) PROVE CancelLeadsToRefund'
  <2>1. UNCHANGED <<order, asked, crashes>> /\ cancel[t].pc # "refund"
        /\ \A u \in Cancels \ {t} : cancel'[u] = cancel[u]
    BY <1>9 DEF Reread, TellKitchen, Notify, Goto, TypeOK
  <2> QED
    BY <2>1, KeepsPromise
<1>10. ASSUME NEW d \in Desk, NEW o \in Orders, DeskRead(d, o) PROVE CancelLeadsToRefund'
  BY <1>10, KeepsPromise DEF DeskRead
<1>11. ASSUME NEW d \in Desk, DeskSave(d) PROVE CancelLeadsToRefund'
  BY <1>11, KeepsPromise DEF DeskSave, WriteRow, Judged, TypeOK
<1>12. CASE UNCHANGED vars
  BY <1>12, KeepsPromise DEF vars
<1> QED
  BY <1>1, <1>2, <1>3, <1>4, <1>5, <1>6, <1>7, <1>8, <1>9, <1>10, <1>11, <1>12 DEF Next, Proceed

(* The points of an order are recorded at most once and reversed at most once. *)
LEMMA StepPoints == TypeOK /\ PointsReversedOnce /\ [Next]_vars => PointsReversedOnce'
<1> SUFFICES ASSUME TypeOK, PointsReversedOnce, [Next]_vars PROVE PointsReversedOnce'
  OBVIOUS
<1>1. CASE UNCHANGED ledger
  BY <1>1 DEF PointsReversedOnce
<1>2. ASSUME NEW o \in Orders, RecordLoyalty(o) PROVE PointsReversedOnce'
  <2>1. /\ ledger'[o].earned = 1 /\ ledger'[o].refund = ledger[o].refund
        /\ ledger'[o].reversed = ledger[o].reversed
        /\ \A p \in Orders \ {o} : ledger'[p] = ledger[p]
    BY <1>2 DEF RecordLoyalty, TypeOK, Points
  <2>2. ledger[o].earned \in 0..1 /\ ledger[o].reversed \in Nat
    BY DEF TypeOK, Points
  <2> QED
    BY <2>1, <2>2 DEF PointsReversedOnce
<1>3. ASSUME NEW t \in Cancels, Claim(t) PROVE PointsReversedOnce'
  <2>1. CASE UNCHANGED ledger
    BY <1>1, <2>1
  <2>2. CASE ReverseLoyalty(cancel[t].order)
    BY <2>2 DEF ReverseLoyalty, PointsReversedOnce, TypeOK, Points, CancelRecs
  <2> QED
    BY <1>3, <2>1, <2>2 DEF Claim, effects
<1> QED
  BY <1>1, <1>2, <1>3
  DEF Next, Proceed, effects, vars, LoseLoyalty, Place, CancelRead, CallbackRead,
      Reread, AskRefund, TellKitchen, Notify, CallbackWrite, CallbackMark, Crash, DeskRead, DeskSave

(* The invariant holds at the start and is kept by every step. *)
LEMMA Invariance == Spec => []IInv
<1>1. Init => IInv
  <2> SUFFICES ASSUME Init PROVE IInv
    OBVIOUS
  <2>1. TypeOK
    BY InitType
  <2> QED
    BY <2>1 DEF Init, IInv, Judged, StockAccounted, RefundersCancelled, RefundOnlyCancelled,
                CancelLeadsToRefund, PointsReversedOnce, Fresh
<1>2. IInv /\ [Next]_vars => IInv'
  BY StepType, StepJudged, StepStock, StepRefund, StepPromise, StepPoints DEF IInv
<1> QED
  BY <1>1, <1>2, PTL DEF Spec

-----------------------------------------------------------------------------
(* What follows for every execution *)

(* Stock is given back once per entry into 'cancelled' (claimOrderCancel). *)
THEOREM StockIsAccounted == Spec => []StockAccounted
  BY Invariance, PTL DEF IInv

(* As long as nothing crashes, every cancelled order gets its refund asked for; none is
   asked for without a cancel that took effect (settleKitchenCancel and cancel, after a
   lost claim). *)
THEOREM RefundsAndCancelsMatch == Spec => []RefundsMatchCancels
<1>1. IInv => RefundsMatchCancels
  BY DEF IInv, RefundsMatchCancels
<1> QED
  BY <1>1, Invariance, PTL

(* Points are given back and taken back at most once (reverseLoyaltyForCancel). *)
THEOREM PointsAreReversedOnce == Spec => []PointsReversedOnce
  BY Invariance, PTL DEF IInv

(* No step cancels a delivered order. *)
THEOREM DeliveredStays == Spec => DeliveredNotCancelled
<1>1. IInv /\ [Next]_vars
        => [\A o \in Orders : order[o].status = "delivered" => order'[o].status # "cancelled"]_vars
  <2> SUFFICES ASSUME IInv, [Next]_vars, NEW o \in Orders, order[o].status = "delivered"
               PROVE  order'[o].status # "cancelled"
    OBVIOUS
  <2> USE DEF IInv, Judged, TypeOK
  <2>1. ASSUME NEW t \in Cancels, Claim(t) PROVE order'[o].status # "cancelled"
    BY <2>1 DEF Claim, Rows
  <2>2. ASSUME NEW t \in Cancels, CallbackWrite(t) \/ CallbackMark(t)
        PROVE order'[o].status # "cancelled"
    BY <2>2 DEF CallbackWrite, CallbackMark, WriteRow, Rows
  <2>3. ASSUME NEW d \in Desk, DeskSave(d) PROVE order'[o].status # "cancelled"
    BY <2>3 DEF DeskSave, WriteRow
  <2>4. ASSUME NEW p \in Orders, Place(p) PROVE order'[o].status # "cancelled"
    BY <2>4 DEF Place, Placed, Rows
  <2>5. CASE UNCHANGED order
    BY <2>5
  <2> QED
    BY <2>1, <2>2, <2>3, <2>4, <2>5
    DEF Next, Proceed, effects, vars, RecordLoyalty, LoseLoyalty, CancelRead, CallbackRead,
        Reread, AskRefund, TellKitchen, Notify, Crash, DeskRead
<1> QED
  BY <1>1, Invariance, PTL DEF Spec, DeliveredNotCancelled
=============================================================================
