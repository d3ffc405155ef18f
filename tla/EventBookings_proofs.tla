------------------------ MODULE EventBookings_proofs -------------------------
(* Theorems about EventBookings, for any guests, requests, parties and seats. *)
EXTENDS EventBookings, FiniteSetTheorems, TLAPS

-----------------------------------------------------------------------------
(* Types of the rows and of the requests that cancel *)

CancelRecs == [pc : {"idle", "claim", "reread", "current", "refund", "done"},
               b : Guests, seen : Statuses]

BookingTypes ==
  /\ status \in [Guests -> Statuses]
  /\ asked \subseteq Guests /\ left \subseteq Guests
  /\ cancel \in [Cancels -> CancelRecs]
  /\ crashes \in Nat

\* A booking whose row says cancelled was cancelled by its guest, and so was that
\* of a request that is past its claim.
CancelledByGuest ==
  /\ \A b \in Guests : status[b] = "cancelled" => b \in left
  /\ \A c \in Cancels : cancel[c].pc \in {"current", "refund"} => cancel[c].b \in left

BookingInv == BookingTypes /\ CancelledByGuest /\ RefundsMatchCancels

\* Steps that cancel nothing: of bookings, confirmations and edits.
NoCancel ==
  /\ UNCHANGED <<asked, left, cancel, crashes>>
  /\ status' \in [Guests -> Statuses]
  /\ \A b \in Guests : status'[b] = "cancelled" => status[b] = "cancelled"

LEMMA BookShape == ASSUME BookingTypes, NEW b \in Guests, Book(b) PROVE NoCancel
<1> USE DEF NoCancel, BookingTypes, Statuses, rows
<1>1. CASE BookRead(b)
  BY <1>1 DEF BookRead
<1>2. CASE BookLock(b)
  BY <1>2 DEF BookLock
<1>3. CASE BookCount(b)
  BY <1>3 DEF BookCount
<1>4. CASE BookInsert(b)
  <2>1. /\ \A d \in Guests \ {b} : status'[d] = status[d]
        /\ status'[b] \in {"confirmed", "waitlisted", "none"}
        /\ DOMAIN status' = Guests /\ status' = [d \in Guests |-> status'[d]]
    <3>1. CASE Fits(b, book[b].taken)
      BY <1>4, <3>1 DEF BookInsert
    <3>2. CASE ~Fits(b, book[b].taken) /\ event.waitlist
      BY <1>4, <3>2 DEF BookInsert
    <3>3. CASE ~Fits(b, book[b].taken) /\ ~event.waitlist
      BY <1>4, <3>3 DEF BookInsert
    <3> QED
      BY <3>1, <3>2, <3>3
  <2> QED
    BY <1>4, <2>1 DEF BookInsert
<1> QED
  BY <1>1, <1>2, <1>3, <1>4 DEF Book

LEMMA ConfirmShape ==
  ASSUME BookingTypes, NEW a \in Confirms, Confirm(a) \/ \E b \in Guests : ConfirmRead(a, b)
  PROVE  NoCancel
<1> USE DEF NoCancel, BookingTypes, Statuses, rows
<1>1. ASSUME NEW b \in Guests, ConfirmRead(a, b) PROVE NoCancel
  BY <1>1 DEF ConfirmRead
<1>2. CASE ConfirmLock(a)
  BY <1>2 DEF ConfirmLock
<1>3. CASE ConfirmCount(a)
  BY <1>3 DEF ConfirmCount
<1>4. CASE ConfirmSave(a)
  BY <1>4 DEF ConfirmSave
<1> QED
  BY <1>1, <1>2, <1>3, <1>4 DEF Confirm

LEMMA EditShape == ASSUME BookingTypes, NEW a \in Editors, EditRead(a) \/ EditSave(a) PROVE NoCancel
  BY DEF NoCancel, BookingTypes, EditRead, EditSave, rows

(* What cancels nothing keeps the invariant. *)
LEMMA NoCancelKeeps == ASSUME BookingInv, NoCancel PROVE BookingInv'
<1>1. BookingTypes' /\ CancelledByGuest'
  BY DEF BookingInv, BookingTypes, CancelledByGuest, NoCancel
<1>2. RefundsMatchCancels'
  BY DEF BookingInv, NoCancel, RefundsMatchCancels, CancelLeadsToRefund, RefundOnlyCancelled
<1> QED
  BY <1>1, <1>2 DEF BookingInv

-----------------------------------------------------------------------------
(* The steps of a cancel *)

LEMMA CancelTypes ==
  ASSUME BookingTypes, NEW c \in Cancels, Cancel(c) \/ \E b \in Guests : CancelRead(c, b)
  PROVE  BookingTypes'
<1> USE DEF BookingTypes, CancelRecs, Statuses, rows
<1>1. ASSUME NEW b \in Guests, CancelRead(c, b) PROVE BookingTypes'
  BY <1>1 DEF CancelRead
<1>2. CASE CancelClaim(c)
  BY <1>2 DEF CancelClaim
<1>3. CASE CancelReread(c) \/ CancelCurrent(c)
  BY <1>3 DEF CancelReread, CancelCurrent
<1>4. CASE CancelRefund(c)
  BY <1>4 DEF CancelRefund
<1> QED
  BY <1>1, <1>2, <1>3, <1>4 DEF Cancel

(* A request goes on to the refund only where the guest's cancel took effect. *)
LEMMA CancelEffect ==
  ASSUME BookingInv, NEW c \in Cancels, Cancel(c) \/ \E b \in Guests : CancelRead(c, b)
  PROVE  CancelledByGuest'
<1> USE DEF BookingInv, BookingTypes, CancelRecs, CancelledByGuest, rows
<1>1. ASSUME NEW b \in Guests, CancelRead(c, b) PROVE CancelledByGuest'
  BY <1>1 DEF CancelRead
<1>2. CASE CancelClaim(c)
  BY <1>2 DEF CancelClaim
<1>3. CASE CancelReread(c)
  BY <1>3 DEF CancelReread
<1>4. CASE CancelCurrent(c)
  BY <1>4 DEF CancelCurrent
<1>5. CASE CancelRefund(c)
  BY <1>5 DEF CancelRefund
<1> QED
  BY <1>1, <1>2, <1>3, <1>4, <1>5 DEF Cancel

(* And it does go on: whoever takes the booking asks for its deposit. *)
LEMMA CancelMatch ==
  ASSUME BookingInv, NEW c \in Cancels, Cancel(c) \/ \E b \in Guests : CancelRead(c, b)
  PROVE  RefundsMatchCancels'
<1> USE DEF BookingInv, BookingTypes, CancelRecs, RefundsMatchCancels, CancelLeadsToRefund,
            RefundOnlyCancelled, rows
<1>1. ASSUME NEW b \in Guests, CancelRead(c, b) PROVE RefundsMatchCancels'
  BY <1>1 DEF CancelRead
<1>2. CASE CancelClaim(c)
  BY <1>2 DEF CancelClaim
<1>3. CASE CancelReread(c)
  BY <1>3 DEF CancelReread
<1>4. CASE CancelCurrent(c)
  BY <1>4 DEF CancelCurrent
<1>5. CASE CancelRefund(c)
  BY <1>5 DEF CancelRefund, CancelledByGuest
<1> QED
  BY <1>1, <1>2, <1>3, <1>4, <1>5 DEF Cancel

(* A crash excuses a refund that is not asked for, and asks for none. *)
LEMMA CrashKeeps == ASSUME BookingInv, Crash PROVE BookingInv'
<1> USE DEF BookingInv, BookingTypes, CancelRecs, rows
<1>1. /\ crashes' = crashes + 1 /\ UNCHANGED <<status, asked, left>>
      /\ cancel' \in [Cancels -> CancelRecs]
      /\ \A c \in Cancels : cancel'[c] = cancel[c] \/ cancel'[c].pc = "done"
  BY DEF Crash
<1> QED
  BY <1>1 DEF CancelledByGuest, RefundsMatchCancels, CancelLeadsToRefund, RefundOnlyCancelled

-----------------------------------------------------------------------------
LEMMA BookingStep == BookingInv /\ [Next]_vars => BookingInv'
<1> SUFFICES ASSUME BookingInv, [Next]_vars PROVE BookingInv'
  OBVIOUS
<1>1. CASE UNCHANGED vars
  <2>1. NoCancel
    BY <1>1 DEF vars, rows, NoCancel, BookingInv, BookingTypes
  <2> QED
    BY <2>1, NoCancelKeeps
<1>2. ASSUME NEW b \in Guests, Book(b) PROVE BookingInv'
  BY <1>2, BookShape, NoCancelKeeps DEF BookingInv
<1>3. ASSUME NEW c \in Cancels, Cancel(c) \/ \E b \in Guests : CancelRead(c, b) PROVE BookingInv'
  BY <1>3, CancelTypes, CancelEffect, CancelMatch DEF BookingInv
<1>4. ASSUME NEW a \in Confirms, Confirm(a) \/ \E b \in Guests : ConfirmRead(a, b) PROVE BookingInv'
  BY <1>4, ConfirmShape, NoCancelKeeps DEF BookingInv
<1>5. ASSUME NEW a \in Editors, EditRead(a) \/ EditSave(a) PROVE BookingInv'
  BY <1>5, EditShape, NoCancelKeeps DEF BookingInv
<1>6. CASE Crash
  BY <1>6, CrashKeeps
<1> QED
  BY <1>1, <1>2, <1>3, <1>4, <1>5, <1>6 DEF Next

LEMMA BookingInit == Init => BookingInv
<1>1. AnyGuest \in Guests
  BY GuestsFinite DEF AnyGuest
<1> QED
  BY <1>1 DEF Init, BookingInv, BookingTypes, CancelRecs, CancelledByGuest, RefundsMatchCancels,
              CancelLeadsToRefund, RefundOnlyCancelled, Statuses

(* Without a crash every booking that its guest cancelled has its deposit asked
   back, or a request at work that will, and no other booking has: however many
   cancels of one booking race with each other and with an admin who saves it as
   confirmed over them. *)
THEOREM BookingRefundsMatch == Spec => []RefundsMatchCancels
<1> QED
  BY BookingInit, BookingStep, PTL DEF Spec, BookingInv

-----------------------------------------------------------------------------
(* The guests of a set of bookings, counted. *)

LEMMA HeadsCounted == ASSUME NEW b \in Guests PROVE IsFiniteSet(Heads(b)) /\ Cardinality(Heads(b)) = Party[b]
<1>1. Party[b] \in Nat /\ Party[b] > 0
  BY Sizes
<1> DEFINE one == {b}
           seats == 1..Party[b]
<1>2. IsFiniteSet(seats) /\ Cardinality(seats) = Party[b]
  <2> DEFINE n == Party[b]
  <2>1. n \in Int /\ 1 \in Int /\ ~(1 > n) /\ n - 1 + 1 = n
    BY <1>1
  <2> HIDE DEF n
  <2>2. IsFiniteSet(1..n) /\ Cardinality(1..n) = n
    BY <2>1, FS_Interval
  <2> QED
    BY <2>2 DEF n
<1>3. IsFiniteSet(one) /\ Cardinality(one) = 1
  BY FS_Singleton
<1>4. Heads(b) = one \X seats
  BY DEF Heads
<1> HIDE DEF one, seats
<1>5. IsFiniteSet(one \X seats) /\ Cardinality(one \X seats) = 1 * Party[b]
  BY <1>2, <1>3, FS_Product
<1> QED
  BY <1>1, <1>4, <1>5

LEMMA SumIsNat ==
  ASSUME NEW S \in SUBSET Guests
  PROVE  IsFiniteSet(UNION {Heads(b) : b \in S}) /\ Sum(S) \in Nat
<1>1. IsFiniteSet(UNION {Heads(b) : b \in Guests})
  <2> DEFINE all == {Heads(b) : b \in Guests}
             f == [b \in Guests |-> Heads(b)]
  <2>1. IsFiniteSet(all)
    <3>1. f \in Surjection(Guests, all)
      BY DEF Surjection
    <3> QED
      BY <3>1, FS_Surjection, GuestsFinite
  <2>2. \A T \in all : IsFiniteSet(T)
    BY HeadsCounted
  <2> QED
    BY <2>1, <2>2, FS_UNION
<1>2. UNION {Heads(b) : b \in S} \subseteq UNION {Heads(b) : b \in Guests}
  OBVIOUS
<1>3. IsFiniteSet(UNION {Heads(b) : b \in S})
  BY <1>1, <1>2, FS_Subset
<1> QED
  BY <1>3, FS_CardinalityType DEF Sum

LEMMA SumGrows == ASSUME NEW T \in SUBSET Guests, NEW S \in SUBSET T PROVE Sum(S) <= Sum(T)
<1>1. IsFiniteSet(UNION {Heads(b) : b \in T})
  BY SumIsNat
<1>2. UNION {Heads(b) : b \in S} \subseteq UNION {Heads(b) : b \in T}
  OBVIOUS
<1> QED
  BY <1>1, <1>2, FS_Subset DEF Sum

LEMMA SumOneMore == ASSUME NEW S \in SUBSET Guests, NEW b \in Guests PROVE Sum(S \cup {b}) <= Sum(S) + Party[b]
<1> DEFINE these == UNION {Heads(d) : d \in S}
<1>1. UNION {Heads(d) : d \in S \cup {b}} = these \cup Heads(b)
  OBVIOUS
<1>2. IsFiniteSet(these) /\ IsFiniteSet(Heads(b)) /\ Cardinality(these) \in Nat /\ Cardinality(Heads(b)) = Party[b]
  BY SumIsNat, HeadsCounted DEF Sum
<1>3. Cardinality(these \cap Heads(b)) \in Nat
  BY <1>2, FS_Intersection, FS_CardinalityType
<1>4. Party[b] \in Nat
  BY Sizes
<1> HIDE DEF these
<1>5. Cardinality(these \cup Heads(b)) = Cardinality(these) + Cardinality(Heads(b)) - Cardinality(these \cap Heads(b))
  BY <1>2, FS_Union
<1>6. Sum(S \cup {b}) = Cardinality(these \cup Heads(b)) /\ Sum(S) = Cardinality(these)
  BY <1>1 DEF Sum, these
<1>7. \A k, l, m \in Nat : k + l - m <= k + l
  OBVIOUS
<1> QED
  BY <1>2, <1>3, <1>4, <1>5, <1>6, <1>7

-----------------------------------------------------------------------------
(* One transaction has the event, and what it counted is still enough.       *)

BookRecs == [pc : {"idle", "lock", "count", "insert", "done"}, taken : Nat]
ConfirmRecs == [pc : {"idle", "lock", "count", "save", "done"}, b : Guests, taken : Nat]

SeatTypes ==
  /\ event \in Events /\ status \in [Guests -> Statuses]
  /\ book \in [Guests -> BookRecs]
  /\ confirm \in [Confirms -> ConfirmRecs]
  /\ edit \in [Editors -> [pc : {"idle", "save", "done"}, row : Events]]

Books(b) == book[b].pc \in {"count", "insert"}
Confirming(a) == confirm[a].pc \in {"count", "save"}

OneHolder ==
  /\ \A b, d \in Guests : Books(b) /\ Books(d) => b = d
  /\ \A a, e \in Confirms : Confirming(a) /\ Confirming(e) => a = e
  /\ \A b \in Guests, a \in Confirms : ~(Books(b) /\ Confirming(a))

\* A cancel may have made room meanwhile; nobody may have taken any.
CountedEnough ==
  /\ \A b \in Guests : book[b].pc = "insert" => Sum(Confirmed) <= book[b].taken
  /\ \A a \in Confirms : confirm[a].pc = "save" =>
       Sum(Confirmed) <= confirm[a].taken /\ Fits(confirm[a].b, confirm[a].taken)

SeatInv == SeatTypes /\ OneHolder /\ CountedEnough

LEMMA SumConfirmed == Sum(Confirmed) \in Nat /\ Confirmed \subseteq Guests
  BY SumIsNat DEF Confirmed

LEMMA SumConfirmedNext ==
  ASSUME Confirmed' \subseteq Confirmed
  PROVE  Sum(Confirmed') \in Nat /\ Sum(Confirmed') <= Sum(Confirmed)
<1>1. Confirmed \subseteq Guests
  BY DEF Confirmed
<1> QED
  BY <1>1, SumIsNat, SumGrows

\* What a step that seats nobody does.
SeatsNobody == Confirmed' \subseteq Confirmed /\ event' = event

(* The seats that are counted stay enough while requests move that hold nothing, or stop. *)
LEMMA SeatedNobody ==
  ASSUME SeatInv, SeatTypes', SeatsNobody,
         \A b \in Guests : book'[b] = book[b] \/ book'[b].pc \in {"lock", "done"},
         \A a \in Confirms : confirm'[a] = confirm[a] \/ confirm'[a].pc \in {"lock", "done"}
  PROVE  SeatInv'
<1>1. OneHolder'
  BY DEF SeatInv, OneHolder, Books, Confirming
<1>2. Sum(Confirmed') \in Nat /\ Sum(Confirmed') <= Sum(Confirmed) /\ Sum(Confirmed) \in Nat
  BY SumConfirmed, SumConfirmedNext DEF SeatsNobody
<1>3. \A b \in Guests : book[b].taken \in Nat
  BY DEF SeatInv, SeatTypes, BookRecs
<1>4. \A a \in Confirms : confirm[a].taken \in Nat
  BY DEF SeatInv, SeatTypes, ConfirmRecs
<1>5. Sum(Confirmed)' = Sum(Confirmed')
  BY DEF Sum, Heads
<1>6. ASSUME NEW b \in Guests, book'[b].pc = "insert" PROVE Sum(Confirmed)' <= book'[b].taken
  <2>1. book'[b] = book[b] /\ Sum(Confirmed) <= book[b].taken
    BY <1>6 DEF SeatInv, CountedEnough
  <2> QED
    BY <1>2, <1>3, <1>5, <2>1
<1>7. ASSUME NEW a \in Confirms, confirm'[a].pc = "save"
      PROVE  Sum(Confirmed)' <= confirm'[a].taken /\ Fits(confirm[a].b, confirm[a].taken)'
  <2>1. confirm'[a] = confirm[a] /\ Sum(Confirmed) <= confirm[a].taken /\ Fits(confirm[a].b, confirm[a].taken)
    BY <1>7 DEF SeatInv, CountedEnough
  <2> QED
    BY <1>2, <1>4, <1>5, <2>1 DEF SeatsNobody, Fits
<1> QED
  BY <1>1, <1>6, <1>7 DEF SeatInv, CountedEnough

LEMMA HeldBy ==
  ASSUME OneHolder
  PROVE  /\ \A b, d \in Guests : Books(b) /\ d # b => ~Books(d)
         /\ \A b \in Guests, a \in Confirms : Books(b) => ~Confirming(a)
         /\ \A a, e \in Confirms : Confirming(a) /\ e # a => ~Confirming(e)
  BY DEF OneHolder

(* Who has the event counts, and so may seat those that fit. *)
LEMMA BookSeats ==
  ASSUME SeatInv, NEW b \in Guests, Book(b)
  PROVE  SeatInv' /\ (Confirmed' \subseteq Confirmed \/ Sum(Confirmed') <= event.max)
<1>0. /\ book \in [Guests -> BookRecs] /\ status \in [Guests -> Statuses] /\ event \in Events
      /\ Sum(Confirmed) \in Nat /\ Confirmed \subseteq Guests /\ SeatTypes
  BY SumConfirmed DEF SeatInv, SeatTypes
<1>1. ASSUME NEW k \in BookRecs, book' = [book EXCEPT ![b] = k], status' \in [Guests -> Statuses],
             UNCHANGED <<event, confirm, edit>>
      PROVE  SeatTypes'
  BY <1>0, <1>1 DEF SeatTypes
<1>2. CASE BookRead(b)
  <2>1. /\ book' = [book EXCEPT ![b].pc = "lock"] \/ book' = [book EXCEPT ![b].pc = "done"]
        /\ UNCHANGED <<event, status, confirm, edit>>
    BY <1>2 DEF BookRead, rows
  <2>2. SeatTypes'
    <3>1. [book[b] EXCEPT !.pc = "lock"] \in BookRecs /\ [book[b] EXCEPT !.pc = "done"] \in BookRecs
      BY <1>0 DEF BookRecs
    <3> QED
      BY <1>0, <1>1, <2>1, <3>1
  <2>3. \A d \in Guests : book'[d] = book[d] \/ book'[d].pc \in {"lock", "done"}
    BY <1>0, <2>1 DEF BookRecs
  <2>4. SeatsNobody
    BY <2>1 DEF SeatsNobody, Confirmed
  <2> QED
    BY <2>1, <2>2, <2>3, <2>4, SeatedNobody DEF SeatsNobody
<1>3. CASE BookLock(b)
  <2>1. book' = [book EXCEPT ![b].pc = "count"] /\ UNCHANGED <<event, status, confirm, edit>> /\ ~Locked
    BY <1>3 DEF BookLock, rows
  <2>2. SeatTypes'
    <3>1. [book[b] EXCEPT !.pc = "count"] \in BookRecs
      BY <1>0 DEF BookRecs
    <3> QED
      BY <1>0, <1>1, <2>1, <3>1
  <2>3. book'[b].pc = "count" /\ \A d \in Guests \ {b} : book'[d] = book[d]
    BY <1>0, <2>1 DEF BookRecs
  <2>4. OneHolder'
    BY <2>1, <2>3 DEF OneHolder, Books, Confirming, Locked
  <2>5. Confirmed' = Confirmed /\ Sum(Confirmed)' = Sum(Confirmed)
    BY <2>1 DEF Confirmed, Sum, Heads
  <2>6. CountedEnough'
    BY <2>1, <2>3, <2>5 DEF SeatInv, CountedEnough, Fits
  <2> QED
    BY <2>2, <2>4, <2>5, <2>6 DEF SeatInv
<1>4. CASE BookCount(b)
  <2>1. book' = [book EXCEPT ![b] = [pc |-> "insert", taken |-> Sum(Confirmed)]] /\ book[b].pc = "count"
        /\ UNCHANGED <<event, status, confirm, edit>>
    BY <1>4 DEF BookCount, rows
  <2>2. SeatTypes'
    <3>1. [pc |-> "insert", taken |-> Sum(Confirmed)] \in BookRecs
      BY <1>0 DEF BookRecs
    <3> QED
      BY <1>0, <1>1, <2>1, <3>1
  <2>3. book'[b].pc = "insert" /\ book'[b].taken = Sum(Confirmed) /\ \A d \in Guests \ {b} : book'[d] = book[d]
    BY <1>0, <2>1 DEF BookRecs
  <2>4. OneHolder'
    BY <2>1, <2>3 DEF SeatInv, OneHolder, Books, Confirming
  <2>5. Confirmed' = Confirmed /\ Sum(Confirmed)' = Sum(Confirmed)
    BY <2>1 DEF Confirmed, Sum, Heads
  <2>6. CountedEnough'
    BY <1>0, <2>1, <2>3, <2>5 DEF SeatInv, CountedEnough, Fits
  <2> QED
    BY <2>2, <2>4, <2>5, <2>6 DEF SeatInv
<1>5. CASE BookInsert(b)
  <2>1. book[b].pc = "insert" /\ book' = [book EXCEPT ![b].pc = "done"] /\ UNCHANGED <<event, confirm, edit>>
    BY <1>5 DEF BookInsert
  <2>2. \/ Fits(b, book[b].taken) /\ status' = [status EXCEPT ![b] = "confirmed"]
        \/ \E s \in {"waitlisted", "none"} : status' = [status EXCEPT ![b] = s]
    <3>1. CASE Fits(b, book[b].taken)
      BY <1>5, <3>1 DEF BookInsert
    <3>2. CASE ~Fits(b, book[b].taken) /\ event.waitlist
      BY <1>5, <3>2 DEF BookInsert
    <3>3. CASE ~Fits(b, book[b].taken) /\ ~event.waitlist
      BY <1>5, <3>3 DEF BookInsert
    <3> QED
      BY <3>1, <3>2, <3>3
  <2>3. SeatTypes'
    <3>1. [book[b] EXCEPT !.pc = "done"] \in BookRecs
      BY <1>0 DEF BookRecs
    <3>2. status' \in [Guests -> Statuses]
      BY <1>0, <2>2 DEF Statuses
    <3> QED
      BY <1>0, <1>1, <2>1, <3>1, <3>2
  <2>4. book'[b].pc = "done" /\ \A d \in Guests \ {b} : book'[d] = book[d]
    BY <1>0, <2>1 DEF BookRecs
  <2>5. \A d \in Guests : ~Books(d)'
    BY <2>1, <2>4 DEF SeatInv, OneHolder, Books
  <2>6. \A a \in Confirms : ~Confirming(a) /\ confirm'[a] = confirm[a]
    BY <2>1 DEF SeatInv, OneHolder, Books
  <2>7. OneHolder' /\ CountedEnough'
    BY <2>5, <2>6 DEF OneHolder, CountedEnough, Books, Confirming
  <2>8. Sum(Confirmed) <= book[b].taken /\ book[b].taken \in Nat
    BY <1>0, <2>1 DEF SeatInv, CountedEnough, BookRecs
  <2>9. CASE Fits(b, book[b].taken) /\ status' = [status EXCEPT ![b] = "confirmed"]
    <3>1. Confirmed' = Confirmed \cup {b}
      BY <1>0, <2>9 DEF Confirmed
    <3>2. Sum(Confirmed \cup {b}) <= Sum(Confirmed) + Party[b] /\ Sum(Confirmed \cup {b}) \in Nat
      BY <1>0, SumOneMore, SumIsNat
    <3>3. Party[b] <= event.max - book[b].taken /\ Party[b] \in Nat /\ event.max \in Nat
      BY <1>0, <2>9, Sizes DEF Fits, Events
    <3>4. \A n, s, p, k, m \in Nat : n <= s + p /\ s <= k /\ p <= m - k => n <= m
      OBVIOUS
    <3>5. Sum(Confirmed \cup {b}) <= event.max
      BY <1>0, <2>8, <3>2, <3>3, <3>4
    <3> QED
      BY <2>3, <2>7, <3>1, <3>5 DEF SeatInv
  <2>10. CASE \E s \in {"waitlisted", "none"} : status' = [status EXCEPT ![b] = s]
    <3>1. Confirmed' \subseteq Confirmed
      BY <1>0, <2>10 DEF Confirmed
    <3> QED
      BY <2>3, <2>7, <3>1 DEF SeatInv
  <2> QED
    BY <2>2, <2>9, <2>10
<1> QED
  BY <1>2, <1>3, <1>4, <1>5 DEF Book

LEMMA ConfirmSeats ==
  ASSUME SeatInv, NEW a \in Confirms, Confirm(a) \/ \E b \in Guests : ConfirmRead(a, b)
  PROVE  SeatInv' /\ (Confirmed' \subseteq Confirmed \/ Sum(Confirmed') <= event.max)
<1>0. /\ confirm \in [Confirms -> ConfirmRecs] /\ status \in [Guests -> Statuses] /\ event \in Events
      /\ Sum(Confirmed) \in Nat /\ Confirmed \subseteq Guests /\ SeatTypes
  BY SumConfirmed DEF SeatInv, SeatTypes
<1>1. ASSUME NEW k \in ConfirmRecs, confirm' = [confirm EXCEPT ![a] = k], status' \in [Guests -> Statuses],
             UNCHANGED <<event, book, edit>>
      PROVE  SeatTypes'
  BY <1>0, <1>1 DEF SeatTypes
<1>2. ASSUME NEW b \in Guests, ConfirmRead(a, b) PROVE SeatInv' /\ Confirmed' \subseteq Confirmed
  <2>1. PICK pc \in {"lock", "done"} : confirm' = [confirm EXCEPT ![a] = [pc |-> pc, b |-> b, taken |-> 0]]
    BY <1>2 DEF ConfirmRead
  <2>2. UNCHANGED <<event, status, book, edit>>
    BY <1>2 DEF ConfirmRead, rows
  <2>3. SeatTypes'
    <3>1. [pc |-> pc, b |-> b, taken |-> 0] \in ConfirmRecs
      BY DEF ConfirmRecs
    <3> QED
      BY <1>0, <1>1, <2>1, <2>2, <3>1
  <2>4. \A e \in Confirms : confirm'[e] = confirm[e] \/ confirm'[e].pc \in {"lock", "done"}
    BY <1>0, <2>1
  <2>5. SeatsNobody
    BY <2>2 DEF SeatsNobody, Confirmed
  <2> QED
    BY <2>2, <2>3, <2>4, <2>5, SeatedNobody DEF SeatsNobody
<1>3. CASE ConfirmLock(a)
  <2>1. confirm' = [confirm EXCEPT ![a].pc = "count"] /\ UNCHANGED <<event, status, book, edit>> /\ ~Locked
    BY <1>3 DEF ConfirmLock, rows
  <2>2. SeatTypes'
    <3>1. [confirm[a] EXCEPT !.pc = "count"] \in ConfirmRecs
      BY <1>0 DEF ConfirmRecs
    <3> QED
      BY <1>0, <1>1, <2>1, <3>1
  <2>3. confirm'[a].pc = "count" /\ \A e \in Confirms \ {a} : confirm'[e] = confirm[e]
    BY <1>0, <2>1 DEF ConfirmRecs
  <2>4. OneHolder'
    BY <2>1, <2>3 DEF OneHolder, Books, Confirming, Locked
  <2>5. Confirmed' = Confirmed /\ Sum(Confirmed)' = Sum(Confirmed)
    BY <2>1 DEF Confirmed, Sum, Heads
  <2>6. CountedEnough'
    BY <2>1, <2>3, <2>5 DEF SeatInv, CountedEnough, Fits
  <2> QED
    BY <2>2, <2>4, <2>5, <2>6 DEF SeatInv
<1>4. CASE ConfirmCount(a)
  <2>1. PICK pc \in {"save", "done"} :
          /\ confirm' = [confirm EXCEPT ![a].taken = Sum(Confirmed), ![a].pc = pc]
          /\ pc = "save" => Fits(confirm[a].b, Sum(Confirmed))
    BY <1>4 DEF ConfirmCount
  <2>2. UNCHANGED <<event, status, book, edit>> /\ confirm[a].pc = "count"
    BY <1>4 DEF ConfirmCount, rows
  <2> DEFINE k == [confirm[a] EXCEPT !.taken = Sum(Confirmed), !.pc = pc]
  <2>3. k \in ConfirmRecs /\ k.pc = pc /\ k.taken = Sum(Confirmed) /\ k.b = confirm[a].b
    BY <1>0 DEF ConfirmRecs
  <2>4. confirm' = [confirm EXCEPT ![a] = k]
    BY <1>0, <2>1
  <2> HIDE DEF k
  <2>5. SeatTypes'
    BY <1>0, <1>1, <2>2, <2>3, <2>4
  <2>6. confirm'[a] = k /\ \A e \in Confirms \ {a} : confirm'[e] = confirm[e]
    BY <1>0, <2>4
  <2>7. OneHolder'
    BY <2>2, <2>6 DEF SeatInv, OneHolder, Books, Confirming
  <2>8. Confirmed' = Confirmed /\ Sum(Confirmed)' = Sum(Confirmed)
    BY <2>2 DEF Confirmed, Sum, Heads
  <2>9. CountedEnough'
    BY <1>0, <2>1, <2>2, <2>3, <2>6, <2>8 DEF SeatInv, CountedEnough, Fits
  <2> QED
    BY <2>5, <2>7, <2>8, <2>9 DEF SeatInv
<1>5. CASE ConfirmSave(a)
  <2>1. /\ confirm[a].pc = "save" /\ confirm' = [confirm EXCEPT ![a].pc = "done"]
        /\ status' = [status EXCEPT ![confirm[a].b] = "confirmed"] /\ UNCHANGED <<event, book, edit>>
    BY <1>5 DEF ConfirmSave
  <2>2. confirm[a].b \in Guests /\ confirm[a].taken \in Nat
    BY <1>0 DEF ConfirmRecs
  <2>3. SeatTypes'
    <3>1. [confirm[a] EXCEPT !.pc = "done"] \in ConfirmRecs
      BY <1>0 DEF ConfirmRecs
    <3>2. status' \in [Guests -> Statuses]
      BY <1>0, <2>1, <2>2 DEF Statuses
    <3> QED
      BY <1>0, <1>1, <2>1, <3>1, <3>2
  <2>4. confirm'[a].pc = "done" /\ \A e \in Confirms \ {a} : confirm'[e] = confirm[e]
    BY <1>0, <2>1 DEF ConfirmRecs
  <2>5. \A e \in Confirms : ~Confirming(e)'
    BY <2>1, <2>4 DEF SeatInv, OneHolder, Confirming
  <2>6. \A d \in Guests : ~Books(d) /\ book'[d] = book[d]
    BY <2>1 DEF SeatInv, OneHolder, Confirming
  <2>7. OneHolder' /\ CountedEnough'
    BY <2>5, <2>6 DEF OneHolder, CountedEnough, Books, Confirming
  <2>8. Sum(Confirmed) <= confirm[a].taken /\ Fits(confirm[a].b, confirm[a].taken)
    BY <2>1 DEF SeatInv, CountedEnough
  <2>9. Confirmed' = Confirmed \cup {confirm[a].b}
    BY <1>0, <2>1, <2>2 DEF Confirmed
  <2> DEFINE b == confirm[a].b
  <2>10. Sum(Confirmed \cup {b}) <= Sum(Confirmed) + Party[b] /\ Sum(Confirmed \cup {b}) \in Nat
    BY <1>0, <2>2, SumOneMore, SumIsNat
  <2>11. Party[b] <= event.max - confirm[a].taken /\ Party[b] \in Nat /\ event.max \in Nat
    BY <1>0, <2>2, <2>8, Sizes DEF Fits, Events
  <2>12. \A n, s, p, k, m \in Nat : n <= s + p /\ s <= k /\ p <= m - k => n <= m
    OBVIOUS
  <2>13. Sum(Confirmed \cup {b}) <= event.max
    BY <1>0, <2>2, <2>8, <2>10, <2>11, <2>12
  <2> QED
    BY <2>3, <2>7, <2>9, <2>13 DEF SeatInv
<1> QED
  BY <1>2, <1>3, <1>4, <1>5 DEF Confirm

(* Cancels make room, edits wait until nobody counts, and a crash lets go. *)
LEMMA OthersSeatNobody ==
  ASSUME SeatInv,
         \/ \E c \in Cancels : Cancel(c) \/ \E b \in Guests : CancelRead(c, b)
         \/ \E a \in Editors : EditRead(a) \/ EditSave(a)
         \/ Crash
         \/ UNCHANGED vars,
         \A c \in Cancels : cancel[c].b \in Guests
  PROVE  SeatInv' /\ Confirmed' \subseteq Confirmed
<1>0. SeatTypes
  BY DEF SeatInv
<1>1. ASSUME NEW c \in Cancels, Cancel(c) \/ \E b \in Guests : CancelRead(c, b) PROVE SeatInv' /\ Confirmed' \subseteq Confirmed
  <2>1. UNCHANGED <<event, book, confirm, edit>>
        /\ (status' = status \/ status' = [status EXCEPT ![cancel[c].b] = "cancelled"])
    BY <1>1 DEF Cancel, CancelRead, CancelClaim, CancelReread, CancelCurrent, CancelRefund, rows
  <2>2. SeatTypes'
    BY <1>0, <2>1 DEF SeatTypes, Statuses
  <2>3. SeatsNobody
    BY <1>0, <2>1 DEF SeatsNobody, SeatTypes, Confirmed
  <2> QED
    BY <2>1, <2>2, <2>3, SeatedNobody DEF SeatsNobody
<1>2. ASSUME NEW a \in Editors, EditRead(a) PROVE SeatInv' /\ Confirmed' \subseteq Confirmed
  <2>1. PICK n \in NewSeats \cup {event.max}, w \in BOOLEAN, o \in BOOLEAN :
          edit' = [edit EXCEPT ![a] = [pc |-> "save", row |-> [max |-> n, waitlist |-> w, open |-> o]]]
    BY <1>2 DEF EditRead
  <2>2. UNCHANGED <<event, status, book, confirm>>
    BY <1>2 DEF EditRead, rows
  <2>3. n \in Nat
    BY <1>0, Sizes DEF SeatTypes, Events
  <2>4. SeatTypes'
    BY <1>0, <2>1, <2>2, <2>3 DEF SeatTypes, Events
  <2>5. SeatsNobody
    BY <2>2 DEF SeatsNobody, Confirmed
  <2> QED
    BY <2>2, <2>4, <2>5, SeatedNobody DEF SeatsNobody
<1>3. ASSUME NEW a \in Editors, EditSave(a) PROVE SeatInv' /\ Confirmed' \subseteq Confirmed
  <2>1. UNCHANGED <<status, book, confirm>> /\ ~Locked /\ event' = edit[a].row /\ edit' = [edit EXCEPT ![a].pc = "done"]
    BY <1>3 DEF EditSave
  <2>2. SeatTypes'
    <3>1. edit[a] \in [pc : {"idle", "save", "done"}, row : Events]
      BY <1>0 DEF SeatTypes
    <3>2. [edit[a] EXCEPT !.pc = "done"] \in [pc : {"idle", "save", "done"}, row : Events] /\ edit[a].row \in Events
      BY <3>1
    <3> QED
      BY <1>0, <2>1, <3>2 DEF SeatTypes
  <2>3. Confirmed' = Confirmed
    BY <2>1 DEF Confirmed
  <2>4. (\A b \in Guests : ~Books(b) /\ book'[b] = book[b]) /\ (\A e \in Confirms : ~Confirming(e) /\ confirm'[e] = confirm[e])
    BY <2>1 DEF Locked, Books, Confirming
  <2>5. OneHolder' /\ CountedEnough'
    BY <2>4 DEF OneHolder, CountedEnough, Books, Confirming
  <2> QED
    BY <2>2, <2>3, <2>5 DEF SeatInv
<1>4. CASE Crash
  <2>1. UNCHANGED <<event, status, edit>>
    BY <1>4 DEF Crash, rows
  <2>2. /\ book' \in [Guests -> BookRecs] /\ \A b \in Guests : book'[b] = book[b] \/ book'[b].pc = "done"
        /\ confirm' \in [Confirms -> ConfirmRecs] /\ \A a \in Confirms : confirm'[a] = confirm[a] \/ confirm'[a].pc = "done"
    <3>1. book \in [Guests -> BookRecs] /\ confirm \in [Confirms -> ConfirmRecs]
      BY <1>0 DEF SeatTypes
    <3>2. ASSUME NEW b \in Guests PROVE [book[b] EXCEPT !.pc = "done"] \in BookRecs /\ [book[b] EXCEPT !.pc = "done"].pc = "done"
      BY <3>1 DEF BookRecs
    <3>3. ASSUME NEW a \in Confirms
          PROVE  [confirm[a] EXCEPT !.pc = "done"] \in ConfirmRecs /\ [confirm[a] EXCEPT !.pc = "done"].pc = "done"
      BY <3>1 DEF ConfirmRecs
    <3>4. \/ UNCHANGED <<book, confirm>>
          \/ UNCHANGED confirm /\ \E b \in Guests : book' = [book EXCEPT ![b] = [book[b] EXCEPT !.pc = "done"]]
          \/ UNCHANGED book /\ \E a \in Confirms : confirm' = [confirm EXCEPT ![a] = [confirm[a] EXCEPT !.pc = "done"]]
      BY <1>4 DEF Crash
    <3> QED
      BY <3>1, <3>2, <3>3, <3>4
  <2>3. SeatTypes'
    BY <1>0, <2>1, <2>2 DEF SeatTypes
  <2>4. SeatsNobody
    BY <2>1 DEF SeatsNobody, Confirmed
  <2> QED
    BY <2>2, <2>3, <2>4, SeatedNobody DEF SeatsNobody
<1>5. CASE UNCHANGED vars
  <2>1. UNCHANGED <<event, status, book, confirm, edit>>
    BY <1>5 DEF vars, rows
  <2>2. SeatTypes' /\ SeatsNobody
    BY <1>0, <2>1 DEF SeatTypes, SeatsNobody, Confirmed
  <2> QED
    BY <2>1, <2>2, SeatedNobody DEF SeatsNobody
<1> QED
  BY <1>1, <1>2, <1>3, <1>4, <1>5

LEMMA SeatInit == Init => SeatInv
<1> SUFFICES ASSUME Init PROVE SeatInv
  OBVIOUS
<1>1. AnyGuest \in Guests
  BY GuestsFinite DEF AnyGuest
<1>2. event \in Events
  BY Sizes DEF Init, Events
<1>3. SeatTypes
  BY <1>1, <1>2 DEF Init, SeatTypes, Statuses, BookRecs, ConfirmRecs
<1>4. OneHolder /\ CountedEnough
  BY DEF Init, OneHolder, CountedEnough, Books, Confirming
<1> QED
  BY <1>3, <1>4 DEF SeatInv

\* What a step may do to the seats that are taken.
SeatStep == SeatInv' /\ (Confirmed' \subseteq Confirmed \/ Sum(Confirmed') <= event.max)

LEMMA SeatNext == ASSUME BookingTypes, SeatInv, [Next]_vars PROVE SeatStep
<1>1. \A c \in Cancels : cancel[c].b \in Guests
  BY DEF BookingTypes, CancelRecs
<1>2. ASSUME NEW b \in Guests, Book(b) PROVE SeatStep
  BY <1>2, BookSeats DEF SeatStep
<1>3. ASSUME NEW a \in Confirms, Confirm(a) \/ \E b \in Guests : ConfirmRead(a, b) PROVE SeatStep
  BY <1>3, ConfirmSeats DEF SeatStep
<1>4. CASE \/ \E c \in Cancels : Cancel(c) \/ \E b \in Guests : CancelRead(c, b)
           \/ \E a \in Editors : EditRead(a) \/ EditSave(a)
           \/ Crash
           \/ UNCHANGED vars
  BY <1>1, <1>4, OthersSeatNobody DEF SeatStep
<1> QED
  BY <1>2, <1>3, <1>4 DEF Next

(* The event, its bookings and the requests at work stay what they are. *)
THEOREM BookingsTypeSafe == Spec => []TypeOK
<1>1. BookingInv /\ SeatInv => TypeOK
  BY DEF BookingInv, SeatInv, BookingTypes, SeatTypes, TypeOK, BookRecs, ConfirmRecs, CancelRecs
<1>2. BookingInv /\ SeatInv /\ [Next]_vars => SeatInv'
  BY SeatNext DEF BookingInv, SeatStep
<1> QED
  BY <1>1, <1>2, BookingInit, BookingStep, SeatInit, PTL DEF Spec

(* Whoever is seated fits: no interleaving of bookings, confirmations by hand,  *)
(* cancels and edits seats more guests than the event has room for. The         *)
(* invariant is that one transaction at most has the event, and that what it    *)
(* counted is no less than what is taken while it has it.                       *)
THEOREM SeatsAreWithinCapacity == Spec => SeatsWithinCapacity
<1> DEFINE Within == Confirmed' # Confirmed /\ Confirmed \subseteq Confirmed' => Sum(Confirmed)' <= event.max
<1>1. BookingInv /\ SeatInv /\ [Next]_vars => SeatInv' /\ Within
  <2> SUFFICES ASSUME BookingInv, SeatInv, [Next]_vars PROVE SeatInv' /\ Within
    OBVIOUS
  <2>1. SeatStep
    BY SeatNext DEF BookingInv
  <2>2. Sum(Confirmed)' = Sum(Confirmed')
    BY DEF Sum, Heads
  <2> QED
    BY <2>1, <2>2 DEF SeatStep
<1>2. BookingInv /\ SeatInv /\ [Next]_vars => [Within]_vars
  BY <1>1
<1> QED
  BY <1>1, <1>2, BookingInit, BookingStep, SeatInit, PTL DEF Spec, SeatsWithinCapacity
=============================================================================
