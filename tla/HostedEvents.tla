---------------------------- MODULE HostedEvents ----------------------------
(***************************************************************************)
(* The review of an event (EventsService): a user hosts it, admins publish *)
(* it, reject it with a reason or put it back, and its host is told.       *)
(*                                                                         *)
(* Of one event. An admin's request reads the row, saves it whole, and     *)
(* then writes the host a notice that goes by what it read. EventBookings  *)
(* has the seats.                                                          *)
(***************************************************************************)
EXTENDS Naturals, FiniteSets

CONSTANTS
  Reviewers,  \* admins' requests running adminUpdate or adminReject
  Reasons     \* what adminReject may be given, trimmed

NoReason == ""                      \* null
ByAdmin  == "Rejected by admin"     \* what adminUpdate puts

ASSUME ReviewBounds == Reasons \cap {NoReason, ByAdmin} = {} /\ IsFiniteSet(Reviewers)

VARIABLES
  hosted,  \* the event row: whether it has a host, its status, rejectReason
  review,  \* admins' requests: step, row read, row to save
  notice,  \* the last notice to the host: its type, and the reason given
  blurred  \* history: the last notice went by a row that was not the one saved over, or was lost

hostedVars == <<hosted, review, notice, blurred>>

\* 'published' stands for any status that is neither 'review' nor 'rejected'.
EventStatuses == {"none", "review", "published", "rejected"}
EventRows == [host : BOOLEAN, status : EventStatuses, reason : Reasons \cup {NoReason, ByAdmin}]
NoNotice == [type |-> "nothing", reason |-> NoReason]
NoEvent == [host |-> FALSE, status |-> "none", reason |-> NoReason]
NoReview == [pc |-> "idle", read |-> NoEvent, row |-> NoEvent, rejects |-> FALSE]

HostedTypeOK ==
  /\ hosted \in EventRows
  /\ review \in [Reviewers -> [pc : {"idle", "save", "tell"}, read : EventRows, row : EventRows, rejects : BOOLEAN]]
  /\ notice \in [type : {"nothing", "event-published", "event-rejected"}, reason : Reasons \cup {NoReason, ByAdmin}]
  /\ blurred \in BOOLEAN

HostedInit ==
  /\ hosted = NoEvent
  /\ review = [a \in Reviewers |-> NoReview]
  /\ notice = NoNotice /\ blurred = FALSE

Becomes(a, fields) == review' = [review EXCEPT ![a] = fields]

-----------------------------------------------------------------------------
\* create: a hosted event begins in review; an event that is seeded has no host and is published.
HostCreates ==
  /\ hosted.status = "none"
  /\ hosted' \in {[NoEvent EXCEPT !.host = TRUE, !.status = "review"], [NoEvent EXCEPT !.status = "published"]}
  /\ UNCHANGED <<review, notice, blurred>>

\* What adminUpdate makes of the row that it read: a reason is kept, or put, and it
\* goes when the event is given another status.
Updated(row, to) ==
  [row EXCEPT !.status = IF to = "none" THEN @ ELSE to,
              !.reason = CASE to = "rejected" /\ @ = NoReason -> ByAdmin
                           [] to \in {"review", "published"} -> NoReason
                           [] OTHER -> @]

\* to is "none" where the request does not say.
UpdateRead(a, to) ==
  /\ review[a].pc = "idle" /\ hosted.status # "none"
  /\ Becomes(a, [pc |-> "save", read |-> hosted, row |-> Updated(hosted, to), rejects |-> FALSE])
  /\ UNCHANGED <<hosted, notice, blurred>>

\* adminReject; without a reason it is refused.
RejectRead(a, reason) ==
  /\ review[a].pc = "idle" /\ hosted.status # "none"
  /\ Becomes(a, [pc |-> "save", read |-> hosted, rejects |-> TRUE,
                 row |-> [hosted EXCEPT !.status = "rejected", !.reason = reason]])
  /\ UNCHANGED <<hosted, notice, blurred>>

\* Fault: only an event in review is told of.
Notice_FromReview(r) ==
  CASE r.read.status = "review" /\ r.row.status = "rejected" -> [type |-> "event-rejected", reason |-> r.row.reason]
    [] r.read.status = "review" /\ r.row.status = "published" -> [type |-> "event-published", reason |-> NoReason]
    [] OTHER -> NoNotice

\* What the host is told: of every rejection by adminReject; by adminUpdate of one that
\* is new, and of an event that leaves review.
Notice(r) ==
  CASE r.rejects \/ (r.read.status # "rejected" /\ r.row.status = "rejected")
         -> [type |-> "event-rejected", reason |-> r.row.reason]
    [] ~r.rejects /\ r.read.status = "review" /\ r.row.status = "published"
         -> [type |-> "event-published", reason |-> NoReason]
    [] OTHER -> NoNotice

\* notifyHost: an event without a host has nobody to tell.
Announced(r) == hosted.host /\ Notice(r) # NoNotice

ReviewSave(a) ==
  LET r == review[a] IN
  /\ r.pc = "save"
  /\ hosted' = r.row
  /\ Becomes(a, IF Announced(r) THEN [r EXCEPT !.pc = "tell"] ELSE NoReview)
  /\ blurred' = (blurred \/ hosted # r.read)
  /\ UNCHANGED notice

\* The notice is of the row that was saved, whatever is in the table by now.
ReviewTell(a) ==
  /\ review[a].pc = "tell"
  /\ notice' = Notice(review[a])
  /\ blurred' = (hosted # review[a].row)
  /\ Becomes(a, NoReview)
  /\ UNCHANGED hosted

\* The process dies, or the notice cannot be stored: the row stays as it was saved.
ReviewDies(a) ==
  /\ review[a].pc # "idle"
  /\ blurred' = (blurred \/ review[a].pc = "tell")
  /\ Becomes(a, NoReview)
  /\ UNCHANGED <<hosted, notice>>

HostedNext ==
  \/ HostCreates
  \/ \E a \in Reviewers :
       \/ \E to \in EventStatuses : UpdateRead(a, to)
       \/ \E reason \in Reasons : RejectRead(a, reason)
       \/ ReviewSave(a) \/ ReviewTell(a) \/ ReviewDies(a)

HostedSpec == HostedInit /\ [][HostedNext]_hostedVars

-----------------------------------------------------------------------------
(* Properties *)

\* Whenever no admin is at work, the host of an event that is rejected was told so, with
\* the reason in its row, and the host of one that is published was told of a decision,
\* although an event that is published after it was rejected is not announced: unless a
\* notice was lost, or two admins' requests ran into each other and none since has told.
HostKnows ==
  hosted.host /\ ~blurred /\ (\A a \in Reviewers : review[a].pc = "idle") =>
    /\ hosted.status = "rejected" => notice = [type |-> "event-rejected", reason |-> hosted.reason]
    /\ hosted.status = "published" => notice # NoNotice
=============================================================================
