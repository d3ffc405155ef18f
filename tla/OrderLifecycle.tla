--------------------------- MODULE OrderLifecycle ---------------------------
(***************************************************************************)
(* The life of a placed order: cancelled by the customer                   *)
(* (OrdersService.cancel), moved or cancelled by the kitchen               *)
(* (PetpoojaSerenityOrderService.applyOrderCallback and                    *)
(* OrdersService.settleKitchenCancel), updated at the counter              *)
(* (SupportService) and rated by the customer (submitFeedback).            *)
(*                                                                         *)
(* Every actor reads the order in one statement and writes in a later one. *)
(* The claim of a cancel is one transaction around a conditional UPDATE;   *)
(* a callback's UPDATE is unconditional; the counter and the feedback save *)
(* the whole row they read.                                                *)
(***************************************************************************)
EXTENDS Naturals, FiniteSets

CONSTANTS
  Orders,     \* orders
  Redeeming,  \* orders that were discounted with loyalty points
  Customers,  \* cancel requests of customers
  Callbacks,  \* order callbacks of the kitchen
  Codes,      \* the order statuses those callbacks may ask for
  Desk,       \* requests of the counter and of customers rating an order
  MaxCrash    \* bound: requests that die half way

ASSUME RedeemingOrders == Redeeming \subseteq Orders
ASSUME CancelsDisjoint == Customers \cap Callbacks = {}
ASSUME NotEmpty        == Orders # {} /\ MaxCrash \in Nat

(* STATUS_RANK: the stages of an order, in the order they follow each other. *)
Stages == <<"confirmed", "accepted", "preparing", "ready", "dispatched", "delivered">>
Rank(s)  == CHOOSE n \in 1..6 : Stages[n] = s
Open     == {"confirmed", "accepted", "preparing", "ready", "dispatched"}
Statuses == Open \cup {"delivered", "cancelled"}

ASSUME KnownCodes == Codes \subseteq Statuses \ {"confirmed"}

\* A cancel applies until delivery or cancellation; other changes go forward.
IsStatusProgression(from, to) ==
  \/ to = "cancelled" /\ from \notin {"cancelled", "delivered"}
  \/ to # "cancelled" /\ from # "cancelled" /\ Rank(to) >= Rank(from)

Cancels   == Customers \cup Callbacks
AnyOrder  == CHOOSE o \in Orders : TRUE

VARIABLES
  order,     \* serenity_order rows: status and kitchenSyncStatus
  restored,  \* how often the stock of the order's lines was given back
  ledger,    \* loyalty_transaction rows of the order, counted by label
  posting,   \* whether the order's own points are still to be recorded
  asked,     \* orders whose refund was asked for (refundForOrderCancel)
  told,      \* orders the kitchen was asked to cancel
  notices,   \* orders whose customer was told that they are cancelled
  cancel,    \* cancel requests and callbacks: step, order, status read, target
  desk,      \* counter and feedback requests: step and row to save
  revived,   \* history: writes that took an order out of 'cancelled'
  crashes    \* history: requests that died half way

effects == <<restored, ledger>>
vars == <<order, effects, posting, asked, told, notices, cancel, desk, revived, crashes>>

Syncs  == {"pending", "synced", "cancelled"}
Rows   == [status : Statuses \cup {"none"}, sync : Syncs]
Points == [redeemed : 0..1, earned : 0..1, refund : Nat, reversed : Nat]

Steps  == {"idle", "mark", "claim", "reread", "refund", "tell", "notify", "write", "done"}
CancelRecs == [pc : Steps, order : Orders, from : Statuses, to : Statuses, claimed : BOOLEAN]
DeskRecs   == [pc : {"idle", "save", "done"}, order : Orders, row : Rows]

TypeOK ==
  /\ order \in [Orders -> Rows]
  /\ restored \in [Orders -> Nat]
  /\ ledger \in [Orders -> Points]
  /\ posting \subseteq Orders /\ asked \subseteq Orders
  /\ told \subseteq Orders /\ notices \subseteq Orders
  /\ cancel \in [Cancels -> CancelRecs]
  /\ desk \in [Desk -> DeskRecs]
  /\ revived \in [Orders -> Nat]
  /\ crashes \in Nat

Fresh == [pc |-> "idle", order |-> AnyOrder, from |-> "confirmed", to |-> "cancelled",
          claimed |-> FALSE]

Init ==
  /\ order = [o \in Orders |-> [status |-> "none", sync |-> "pending"]]
  /\ restored = [o \in Orders |-> 0]
  /\ ledger = [o \in Orders |-> [redeemed |-> 0, earned |-> 0, refund |-> 0, reversed |-> 0]]
  /\ posting = {} /\ asked = {} /\ told = {} /\ notices = {}
  /\ cancel = [t \in Cancels |-> Fresh]
  /\ desk = [d \in Desk |-> [pc |-> "idle", order |-> AnyOrder,
                             row |-> [status |-> "none", sync |-> "pending"]]]
  /\ revived = [o \in Orders |-> 0]
  /\ crashes = 0

Placed(o) == order[o].status # "none"

\* A write of the status column, and whether it brings a cancelled order back.
WriteRow(o, row) ==
  /\ order' = [order EXCEPT ![o] = row]
  /\ revived' = IF order[o].status = "cancelled" /\ row.status # "cancelled"
                THEN [revived EXCEPT ![o] = @ + 1] ELSE revived

Goto(t, step) == cancel' = [cancel EXCEPT ![t].pc = step]

-----------------------------------------------------------------------------
(* create: the order is committed, its loyalty points are recorded afterwards *)

Place(o) ==
  /\ ~Placed(o)
  /\ order' = [order EXCEPT ![o].status = "confirmed"]
  /\ posting' = posting \cup {o}
  /\ UNCHANGED <<effects, asked, told, notices, cancel, desk, revived, crashes>>

\* recordLoyaltyForOrder, in a transaction of its own after the commit.
RecordLoyalty(o) ==
  /\ o \in posting
  /\ posting' = posting \ {o}
  /\ ledger' = [ledger EXCEPT ![o].earned = 1,
                              ![o].redeemed = IF o \in Redeeming THEN 1 ELSE 0]
  /\ UNCHANGED <<order, restored, asked, told, notices, cancel, desk, revived, crashes>>

\* The create request dies, or finds the balance spent, after the commit.
LoseLoyalty(o) ==
  /\ o \in posting /\ crashes < MaxCrash
  /\ posting' = posting \ {o}
  /\ crashes' = crashes + 1
  /\ UNCHANGED <<order, effects, asked, told, notices, cancel, desk, revived>>

-----------------------------------------------------------------------------
(* The claim of a cancel *)

AlreadyReversed(o) == ledger[o].refund + ledger[o].reversed > 0

\* Fault: a second cancel reverses the points again.
ReverseLoyalty_Again(o) ==
  ledger' = [ledger EXCEPT ![o].refund = @ + (IF o \in Redeeming THEN 1 ELSE 0),
                           ![o].reversed = @ + ledger[o].earned]

\* reverseLoyaltyForCancel: redeemed points come back whether or not they were
\* debited yet, earned points are taken back if they are there.
ReverseLoyalty(o) ==
  ledger' = IF AlreadyReversed(o) THEN ledger
            ELSE [ledger EXCEPT ![o].refund = IF o \in Redeeming THEN 1 ELSE 0,
                                ![o].reversed = ledger[o].earned]

\* Fault: the UPDATE of the claim does not test the status.
Claim_Unconditional(t) ==
  LET o == cancel[t].order
  IN  /\ cancel[t].pc = "claim"
      /\ order' = [order EXCEPT ![o].status = "cancelled"]
      /\ restored' = [restored EXCEPT ![o] = @ + 1]
      /\ ReverseLoyalty(o)
      /\ cancel' = [cancel EXCEPT ![t].pc = "refund", ![t].claimed = TRUE]
      /\ UNCHANGED <<posting, asked, told, notices, desk, revived, crashes>>

\* claimOrderCancel: status, stock, points and history in one transaction.
Claim(t) ==
  LET o == cancel[t].order
  IN  /\ cancel[t].pc = "claim"
      /\ \/ /\ order[o].status = cancel[t].from
            /\ order' = [order EXCEPT ![o].status = "cancelled"]
            /\ restored' = [restored EXCEPT ![o] = @ + 1]
            /\ ReverseLoyalty(o)
            /\ cancel' = [cancel EXCEPT ![t].pc = "refund", ![t].claimed = TRUE]
         \/ /\ order[o].status # cancel[t].from
            /\ Goto(t, "reread")
            /\ UNCHANGED <<order, effects>>
      /\ UNCHANGED <<posting, asked, told, notices, desk, revived, crashes>>

\* Fault: the row is not read again, the lost claim is taken for a cancel.
Reread_Trusting(t) ==
  /\ cancel[t].pc = "reread"
  /\ Goto(t, "refund")
  /\ UNCHANGED <<order, effects, posting, asked, told, notices, desk, revived, crashes>>

\* The claim was lost: go on only if somebody else cancelled the order. A
\* customer gets an error, a callback goes on to its notice.
Reread(t) ==
  /\ cancel[t].pc = "reread"
  /\ Goto(t, IF order[cancel[t].order].status = "cancelled" THEN "refund"
             ELSE IF t \in Customers THEN "done" ELSE "notify")
  /\ UNCHANGED <<order, effects, posting, asked, told, notices, desk, revived, crashes>>

\* Fault: a cancel of the kitchen leaves the refund to the customer.
AskRefund_CustomerOnly(t) ==
  /\ cancel[t].pc = "refund"
  /\ asked' = IF t \in Customers THEN asked \cup {cancel[t].order} ELSE asked
  /\ Goto(t, IF t \in Callbacks THEN "notify" ELSE IF cancel[t].claimed THEN "tell" ELSE "done")
  /\ UNCHANGED <<order, effects, posting, told, notices, desk, revived, crashes>>

\* refundForOrderCancel, whoever claimed the cancel (see PaymentIntents).
AskRefund(t) ==
  /\ cancel[t].pc = "refund"
  /\ asked' = asked \cup {cancel[t].order}
  /\ Goto(t, IF t \in Callbacks THEN "notify" ELSE IF cancel[t].claimed THEN "tell" ELSE "done")
  /\ UNCHANGED <<order, effects, posting, told, notices, desk, revived, crashes>>

-----------------------------------------------------------------------------
(* OrdersService.cancel *)

\* A cancelled order is only refunded (again); only a confirmed one is cancelled.
CancelRead(t, o) ==
  /\ cancel[t].pc = "idle" /\ Placed(o)
  /\ cancel' = [cancel EXCEPT ![t] =
       [Fresh EXCEPT !.order = o,
                     !.pc = CASE order[o].status = "cancelled" -> "refund"
                              [] order[o].status = "confirmed" -> "claim"
                              [] OTHER -> "done"]]
  /\ UNCHANGED <<order, effects, posting, asked, told, notices, desk, revived, crashes>>

\* The kitchen is asked to cancel as well, then the customer is told; both best effort.
TellKitchen(t) ==
  /\ cancel[t].pc = "tell"
  /\ told' = told \cup {cancel[t].order}
  /\ Goto(t, "notify")
  /\ UNCHANGED <<order, effects, posting, asked, notices, desk, revived, crashes>>

\* A callback that asked for a cancel says 'Order cancelled' in every case.
Notify(t) ==
  /\ cancel[t].pc = "notify"
  /\ notices' = IF cancel[t].to = "cancelled" THEN notices \cup {cancel[t].order} ELSE notices
  /\ Goto(t, "done")
  /\ UNCHANGED <<order, effects, posting, asked, told, desk, revived, crashes>>

-----------------------------------------------------------------------------
(* applyOrderCallback *)

\* The callback is judged by the status read here; a regress is ignored.
CallbackRead(t, o, to) ==
  LET from == order[o].status
  IN  /\ cancel[t].pc = "idle" /\ Placed(o)
      /\ cancel' = [cancel EXCEPT ![t] =
           [pc |-> IF ~IsStatusProgression(from, to) THEN "done"
                   ELSE IF to = "cancelled" THEN "mark" ELSE "write",
            order |-> o, from |-> from, to |-> to, claimed |-> FALSE]]
      /\ UNCHANGED <<order, effects, posting, asked, told, notices, desk, revived, crashes>>

\* Fault: the kitchen status is stored where the sync status belongs.
CallbackWrite_SyncMixedUp(t) ==
  /\ cancel[t].pc = "write"
  /\ WriteRow(cancel[t].order, [status |-> cancel[t].to, sync |-> cancel[t].to])
  /\ Goto(t, "notify")
  /\ UNCHANGED <<effects, posting, asked, told, notices, desk, crashes>>

\* update(id, {status, ...}): nothing is tested, the row may have moved on.
CallbackWrite(t) ==
  /\ cancel[t].pc = "write"
  /\ WriteRow(cancel[t].order, [status |-> cancel[t].to, sync |-> "synced"])
  /\ Goto(t, "notify")
  /\ UNCHANGED <<effects, posting, asked, told, notices, desk, crashes>>

\* A cancel of the kitchen is marked first, settleKitchenCancel claims it next.
CallbackMark(t) ==
  /\ cancel[t].pc = "mark"
  /\ order' = [order EXCEPT ![cancel[t].order].sync = "cancelled"]
  /\ Goto(t, "claim")
  /\ UNCHANGED <<effects, posting, asked, told, notices, desk, revived, crashes>>

-----------------------------------------------------------------------------
(* collectPayment, markServed and submitFeedback: read, then save the row *)

\* What each request saves; none when the order is not in a status it accepts.
DeskRows(row) ==
     {r \in {row} : row.status # "cancelled"}                    \* collectPayment
  \cup {r \in {[row EXCEPT !.status = "delivered"]} :            \* markServed
          row.status \in Open}
  \cup {r \in {row} : row.status = "delivered"}                  \* submitFeedback

DeskRead(d, o) ==
  /\ desk[d].pc = "idle" /\ Placed(o)
  /\ \E row \in DeskRows(order[o]) :
       desk' = [desk EXCEPT ![d] = [pc |-> "save", order |-> o, row |-> row]]
  /\ UNCHANGED <<order, effects, posting, asked, told, notices, cancel, revived, crashes>>

DeskSave(d) ==
  /\ desk[d].pc = "save"
  /\ WriteRow(desk[d].order, desk[d].row)
  /\ desk' = [desk EXCEPT ![d].pc = "done"]
  /\ UNCHANGED <<effects, posting, asked, told, notices, cancel, crashes>>

-----------------------------------------------------------------------------
\* A request dies between two of its calls.
Crash(t) ==
  /\ cancel[t].pc \notin {"idle", "done"} /\ crashes < MaxCrash
  /\ crashes' = crashes + 1
  /\ Goto(t, "done")
  /\ UNCHANGED <<order, effects, posting, asked, told, notices, desk, revived>>

Proceed(t) ==
  \/ Claim(t) \/ Reread(t) \/ AskRefund(t) \/ TellKitchen(t) \/ Notify(t)
  \/ CallbackWrite(t) \/ CallbackMark(t)

Next ==
  \/ \E o \in Orders : Place(o) \/ RecordLoyalty(o) \/ LoseLoyalty(o)
  \/ \E t \in Customers, o \in Orders : CancelRead(t, o)
  \/ \E t \in Callbacks, o \in Orders, to \in Codes : CallbackRead(t, o, to)
  \/ \E t \in Cancels : Proceed(t) \/ Crash(t)
  \/ \E d \in Desk, o \in Orders : DeskRead(d, o)
  \/ \E d \in Desk : DeskSave(d)

Spec == Init /\ [][Next]_vars

-----------------------------------------------------------------------------
(* Properties *)

(* However cancels of the customer and of the kitchen, callbacks, counter saves
   and crashes interleave, stock is given back once per entry into 'cancelled':
   a second give-back needs a stale write that brought the order back first. *)
StockAccounted ==
  \A o \in Orders :
    restored[o] = revived[o] + (IF order[o].status = "cancelled" THEN 1 ELSE 0)

(* The refund of the redeemed points and the reversal of the earned ones are
   recorded once, even for an order that was revived and cancelled again. *)
PointsReversedOnce ==
  \A o \in Orders : ledger[o].refund <= 1 /\ ledger[o].reversed <= ledger[o].earned

(* A cancelled order has its refund asked for, or a request at work that will:
   the claim commits before the refund is tried, and only a crash can part them. *)
CancelLeadsToRefund ==
  crashes = 0 => \A o \in Orders : order[o].status = "cancelled" =>
    \/ o \in asked
    \/ \E t \in Cancels : cancel[t].order = o /\ cancel[t].pc = "refund"

(* No refund is asked for an order that nobody cancelled: a cancel that lost its
   claim to a kitchen update must not refund an order the kitchen is cooking. *)
RefundOnlyCancelled == \A o \in asked : restored[o] >= 1

(* Refunds are asked for the orders that were cancelled, all of them and no others. *)
RefundsMatchCancels == CancelLeadsToRefund /\ RefundOnlyCancelled

(* A delivered order is never cancelled, whatever was read before delivery. *)
DeliveredNotCancelled ==
  [][\A o \in Orders : order[o].status = "delivered" => order'[o].status # "cancelled"]_vars

(* orders.service.ts:687: "A second caller sees zero rows and must not restore
   stock again." A stale callback reopens the order, and the next cancel does. *)
StockRestoredOnce == \A o \in Orders : restored[o] <= 1
=============================================================================
