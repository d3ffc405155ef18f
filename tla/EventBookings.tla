---------------------------- MODULE EventBookings ----------------------------
(***************************************************************************)
(* The seats of an event (EventsService): guests book and cancel, admins   *)
(* confirm waitlisted bookings by hand, edit the event and reject it.      *)
(*                                                                         *)
(* Booking and confirming count the seats under a row lock on the event;   *)
(* cancelling does not take it, and confirming saves a booking row that    *)
(* was read before the lock. Deposits are taken in Checkout, where the     *)
(* intent of a booking is locked as well, and paid back in PaymentIntents. *)
(***************************************************************************)
EXTENDS Integers, FiniteSets

CONSTANTS
  Guests,     \* booking requests, each for a booking of its own
  Cancels,    \* requests running cancelBooking
  Confirms,   \* admin requests running confirmWaitlistedBooking
  Editors,    \* admin requests running adminUpdate or adminReject
  Party,      \* guestCount of each booking
  Seats,      \* maxGuests of the event at the start
  NewSeats,   \* what an admin may change it to
  MaxCrash    \* bound: requests that die half way

ASSUME GuestsFinite == IsFiniteSet(Guests) /\ Guests # {}
ASSUME Sizes == /\ Party \in [Guests -> Nat \ {0}] /\ Seats \in Nat
                /\ NewSeats \subseteq Nat /\ MaxCrash \in Nat

VARIABLES
  event,    \* the event row: maxGuests, waitlistEnabled, whether it is published
  status,   \* status of each event_booking row
  asked,    \* bookings whose deposit was asked back (refundForOrderCancel)
  left,     \* history: bookings their guest cancelled at some time
  book,     \* booking requests: step and seats counted as taken
  cancel,   \* cancel requests: step, booking and status read
  confirm,  \* confirm requests: step, booking and seats counted as taken
  edit,     \* edits of the event: step and row to save
  crashes   \* history: requests that died half way

rows == <<event, status, asked, left>>
vars == <<rows, book, cancel, confirm, edit, crashes>>

Events   == [max : Nat, waitlist : BOOLEAN, open : BOOLEAN]
Statuses == {"none", "confirmed", "waitlisted", "cancelled"}

TypeOK ==
  /\ event \in Events
  /\ status \in [Guests -> Statuses]
  /\ asked \subseteq Guests /\ left \subseteq Guests
  /\ book \in [Guests -> [pc : {"idle", "lock", "count", "insert", "done"}, taken : Nat]]
  /\ cancel \in [Cancels -> [pc : {"idle", "claim", "reread", "current", "refund", "done"},
                             b : Guests, seen : Statuses]]
  /\ confirm \in [Confirms -> [pc : {"idle", "lock", "count", "save", "done"},
                               b : Guests, taken : Nat]]
  /\ edit \in [Editors -> [pc : {"idle", "save", "done"}, row : Events]]
  /\ crashes \in Nat

AnyGuest == CHOOSE b \in Guests : TRUE

Init ==
  /\ event = [max |-> Seats, waitlist |-> TRUE, open |-> TRUE]
  /\ status = [b \in Guests |-> "none"]
  /\ asked = {} /\ left = {}
  /\ book = [b \in Guests |-> [pc |-> "idle", taken |-> 0]]
  /\ cancel = [c \in Cancels |-> [pc |-> "idle", b |-> AnyGuest, seen |-> "none"]]
  /\ confirm = [a \in Confirms |-> [pc |-> "idle", b |-> AnyGuest, taken |-> 0]]
  /\ edit = [a \in Editors |-> [pc |-> "idle", row |-> event]]
  /\ crashes = 0

Made(b) == status[b] # "none"

\* The guests of a set of bookings: one head for each that a booking brings.
Heads(b) == {b} \X (1..Party[b])
Sum(bookings) == Cardinality(UNION {Heads(b) : b \in bookings})
Confirmed == {b \in Guests : status[b] = "confirmed"}

\* SELECT ... FOR UPDATE on the event row: one transaction at a time.
Locked == \/ \E b \in Guests : book[b].pc \in {"count", "insert"}
          \/ \E a \in Confirms : confirm[a].pc \in {"count", "save"}

\* computeAvailability, from a count of the seats taken.
Fits(b, taken) == Party[b] <= event.max - taken

-----------------------------------------------------------------------------
(* createBooking *)

\* assertRegistrationOpen, before the transaction: the event is published, and the
\* time within its registration, which may always be over.
BookRead(b) ==
  /\ book[b].pc = "idle"
  /\ \E inTime \in BOOLEAN :
       book' = [book EXCEPT ![b].pc = IF event.open /\ inTime THEN "lock" ELSE "done"]
  /\ UNCHANGED <<rows, cancel, confirm, edit, crashes>>

\* Fault: the row is read without FOR UPDATE.
BookLock_NoLock(b) ==
  /\ book[b].pc = "lock"
  /\ book' = [book EXCEPT ![b].pc = "count"]
  /\ UNCHANGED <<rows, cancel, confirm, edit, crashes>>

BookLock(b) ==
  /\ book[b].pc = "lock" /\ ~Locked
  /\ book' = [book EXCEPT ![b].pc = "count"]
  /\ UNCHANGED <<rows, cancel, confirm, edit, crashes>>

BookCount(b) ==
  /\ book[b].pc = "count"
  /\ book' = [book EXCEPT ![b] = [pc |-> "insert", taken |-> Sum(Confirmed)]]
  /\ UNCHANGED <<rows, cancel, confirm, edit, crashes>>

\* Fault: a booking that does not fit is stored with a status of its own.
BookInsert_Pending(b) ==
  /\ book[b].pc = "insert"
  /\ status' = [status EXCEPT ![b] = IF Fits(b, book[b].taken) THEN "confirmed" ELSE "pending"]
  /\ book' = [book EXCEPT ![b].pc = "done"]
  /\ UNCHANGED <<event, asked, left, cancel, confirm, edit, crashes>>

\* Without a waitlist a booking that does not fit is refused.
BookInsert(b) ==
  /\ book[b].pc = "insert"
  /\ status' = [status EXCEPT ![b] = CASE Fits(b, book[b].taken) -> "confirmed"
                                       [] ~Fits(b, book[b].taken) /\ event.waitlist -> "waitlisted"
                                       [] OTHER -> "none"]
  /\ book' = [book EXCEPT ![b].pc = "done"]
  /\ UNCHANGED <<event, asked, left, cancel, confirm, edit, crashes>>

-----------------------------------------------------------------------------
(* cancelBooking *)

CancelRead(c, b) ==
  /\ cancel[c].pc = "idle" /\ Made(b)
  /\ cancel' = [cancel EXCEPT ![c] =
       [pc |-> IF status[b] = "cancelled" THEN "current" ELSE "claim",
        b |-> b, seen |-> status[b]]]
  /\ UNCHANGED <<rows, book, confirm, edit, crashes>>

\* A conditional UPDATE on the status that was read.
CancelClaim(c) ==
  LET b == cancel[c].b
  IN  /\ cancel[c].pc = "claim"
      /\ \/ /\ status[b] = cancel[c].seen
            /\ status' = [status EXCEPT ![b] = "cancelled"]
            /\ left' = left \cup {b}
            /\ cancel' = [cancel EXCEPT ![c].pc = "current"]
         \/ /\ status[b] # cancel[c].seen
            /\ cancel' = [cancel EXCEPT ![c].pc = "reread"]
            /\ UNCHANGED <<status, left>>
      /\ UNCHANGED <<event, asked, book, confirm, edit, crashes>>

\* Fault: a lost claim is taken for somebody else's cancel.
CancelReread_Trusting(c) ==
  /\ cancel[c].pc = "reread"
  /\ cancel' = [cancel EXCEPT ![c].pc = "current"]
  /\ UNCHANGED <<rows, book, confirm, edit, crashes>>

CancelReread(c) ==
  /\ cancel[c].pc = "reread"
  /\ cancel' = [cancel EXCEPT ![c].pc =
                  IF status[cancel[c].b] = "cancelled" THEN "current" ELSE "done"]
  /\ UNCHANGED <<rows, book, confirm, edit, crashes>>

\* The row is read once more, for its payment intent only.
CancelCurrent(c) ==
  /\ cancel[c].pc = "current"
  /\ cancel' = [cancel EXCEPT ![c].pc = "refund"]
  /\ UNCHANGED <<rows, book, confirm, edit, crashes>>

\* Fault: only a confirmed booking is thought to have a deposit.
CancelRefund_ConfirmedOnly(c) ==
  /\ cancel[c].pc = "refund"
  /\ asked' = IF cancel[c].seen = "confirmed" THEN asked \cup {cancel[c].b} ELSE asked
  /\ cancel' = [cancel EXCEPT ![c].pc = "done"]
  /\ UNCHANGED <<event, status, left, book, confirm, edit, crashes>>

CancelRefund(c) ==
  /\ cancel[c].pc = "refund"
  /\ asked' = asked \cup {cancel[c].b}
  /\ cancel' = [cancel EXCEPT ![c].pc = "done"]
  /\ UNCHANGED <<event, status, left, book, confirm, edit, crashes>>

-----------------------------------------------------------------------------
(* confirmWaitlistedBooking *)

ConfirmRead(a, b) ==
  /\ confirm[a].pc = "idle" /\ Made(b)
  /\ confirm' = [confirm EXCEPT ![a] =
       [pc |-> IF status[b] = "waitlisted" THEN "lock" ELSE "done", b |-> b, taken |-> 0]]
  /\ UNCHANGED <<rows, book, cancel, edit, crashes>>

ConfirmLock(a) ==
  /\ confirm[a].pc = "lock" /\ ~Locked
  /\ confirm' = [confirm EXCEPT ![a].pc = "count"]
  /\ UNCHANGED <<rows, book, cancel, edit, crashes>>

ConfirmCount(a) ==
  LET taken == Sum(Confirmed)
  IN  /\ confirm[a].pc = "count"
      /\ confirm' = [confirm EXCEPT ![a].taken = taken,
                       ![a].pc = IF Fits(confirm[a].b, taken) THEN "save" ELSE "done"]
      /\ UNCHANGED <<rows, book, cancel, edit, crashes>>

\* save(booking): the row read before the lock, whatever became of it since.
ConfirmSave(a) ==
  /\ confirm[a].pc = "save"
  /\ status' = [status EXCEPT ![confirm[a].b] = "confirmed"]
  /\ confirm' = [confirm EXCEPT ![a].pc = "done"]
  /\ UNCHANGED <<event, asked, left, book, cancel, edit, crashes>>

-----------------------------------------------------------------------------
(* adminUpdate and adminReject: read the event, save the whole row *)

EditRead(a) ==
  /\ edit[a].pc = "idle"
  /\ \E n \in NewSeats \cup {event.max}, w, o \in BOOLEAN :
       edit' = [edit EXCEPT ![a] = [pc |-> "save", row |-> [max |-> n, waitlist |-> w, open |-> o]]]
  /\ UNCHANGED <<rows, book, cancel, confirm, crashes>>

\* The UPDATE waits for a transaction that has the row locked.
EditSave(a) ==
  /\ edit[a].pc = "save" /\ ~Locked
  /\ event' = edit[a].row
  /\ edit' = [edit EXCEPT ![a].pc = "done"]
  /\ UNCHANGED <<status, asked, left, book, cancel, confirm, crashes>>

-----------------------------------------------------------------------------
\* A request dies; an open transaction is rolled back and its lock released.
Crash ==
  /\ crashes < MaxCrash
  /\ crashes' = crashes + 1
  /\ \/ \E c \in Cancels : /\ cancel[c].pc \notin {"idle", "done"}
                           /\ cancel' = [cancel EXCEPT ![c].pc = "done"]
                           /\ UNCHANGED <<book, confirm>>
     \/ \E b \in Guests : /\ book[b].pc \notin {"idle", "done"}
                          /\ book' = [book EXCEPT ![b].pc = "done"]
                          /\ UNCHANGED <<cancel, confirm>>
     \/ \E a \in Confirms : /\ confirm[a].pc \notin {"idle", "done"}
                            /\ confirm' = [confirm EXCEPT ![a].pc = "done"]
                            /\ UNCHANGED <<book, cancel>>
  /\ UNCHANGED <<rows, edit>>

Book(b)    == BookRead(b) \/ BookLock(b) \/ BookCount(b) \/ BookInsert(b)
Cancel(c)  == CancelClaim(c) \/ CancelReread(c) \/ CancelCurrent(c) \/ CancelRefund(c)
Confirm(a) == ConfirmLock(a) \/ ConfirmCount(a) \/ ConfirmSave(a)

Next ==
  \/ \E b \in Guests : Book(b)
  \/ \E c \in Cancels : Cancel(c) \/ \E b \in Guests : CancelRead(c, b)
  \/ \E a \in Confirms : Confirm(a) \/ \E b \in Guests : ConfirmRead(a, b)
  \/ \E a \in Editors : EditRead(a) \/ EditSave(a)
  \/ Crash

Spec == Init /\ [][Next]_vars

-----------------------------------------------------------------------------
(* Properties *)

(* A step that seats somebody never seats more guests than the event has room
   for at that moment, however bookings, confirmations by hand, cancellations
   and edits of maxGuests interleave. (An edit may make room smaller than what
   is already taken: nobody loses a seat then.) *)
SeatsWithinCapacity ==
  [][Confirmed' # Confirmed /\ Confirmed \subseteq Confirmed' => Sum(Confirmed)' <= event.max]_vars

(* Every booking its guest cancelled has its deposit asked back, or a request
   at work that will: the waitlisted ones, and those confirmed again, included. *)
CancelLeadsToRefund ==
  crashes = 0 => \A b \in left :
    \/ b \in asked
    \/ \E c \in Cancels : cancel[c].b = b /\ cancel[c].pc \in {"current", "refund"}

(* No deposit is paid back unless the guest's cancel took effect. *)
RefundOnlyCancelled == asked \subseteq left

(* Deposits are asked back for the bookings that were cancelled, all of them and no others. *)
RefundsMatchCancels == CancelLeadsToRefund /\ RefundOnlyCancelled

(* events.service.ts:422: "expected waitlisted". Only a waitlisted booking is
   confirmed by hand; one cancelled and paid back meanwhile is not. *)
ConfirmOnlyWaitlisted ==
  [][\A b \in Guests : Made(b) /\ status[b] # "confirmed" /\ status'[b] = "confirmed"
       => status[b] = "waitlisted"]_vars
=============================================================================
