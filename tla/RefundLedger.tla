---------------------------- MODULE RefundLedger ----------------------------
(***************************************************************************)
(* What the refunds of a payment promise, without requests, workers,       *)
(* queues or webhooks: money goes back by way of a claim, one claim at a   *)
(* time, and what is paid back beyond one refund is owed to a mishap that  *)
(* was counted. PaymentIntents implements this.                            *)
(***************************************************************************)
EXTENDS Naturals

CONSTANT Payments

VARIABLES
  charged,   \* payments the customer has made
  state,     \* what a payment's row says of its refund
  open,      \* claims whose refund is not known to be made, per payment
  paidBack,  \* refunds made, per payment
  mishaps    \* answers lost and rows written by somebody else, per payment

books == <<charged, state, open, paidBack, mishaps>>

States == {"kept", "returning", "returned"}

LedgerTypeOK ==
  /\ charged \subseteq Payments
  /\ state \in [Payments -> States]
  /\ open \in [Payments -> Nat]
  /\ paidBack \in [Payments -> Nat]
  /\ mishaps \in [Payments -> Nat]

Init ==
  /\ charged = {}
  /\ state = [p \in Payments |-> "kept"]
  /\ open = [p \in Payments |-> 0]
  /\ paidBack = [p \in Payments |-> 0]
  /\ mishaps = [p \in Payments |-> 0]

Charge(p) ==
  /\ p \notin charged
  /\ charged' = charged \cup {p}
  /\ UNCHANGED <<state, open, paidBack, mishaps>>

\* Only money that is kept can be claimed.
Claim(p) ==
  /\ state[p] = "kept"
  /\ state' = [state EXCEPT ![p] = "returning"]
  /\ open' = [open EXCEPT ![p] = @ + 1]
  /\ UNCHANGED <<charged, paidBack, mishaps>>

\* A claim is used up by the refund it was for ...
PayBack(p) ==
  /\ p \in charged /\ open[p] > 0
  /\ paidBack' = [paidBack EXCEPT ![p] = @ + 1]
  /\ open' = [open EXCEPT ![p] = @ - 1]
  /\ UNCHANGED <<charged, state, mishaps>>

\* ... unless the answer is lost, and the claim looks unused.
PayBackUnheard(p) ==
  /\ p \in charged /\ open[p] > 0
  /\ paidBack' = [paidBack EXCEPT ![p] = @ + 1]
  /\ mishaps' = [mishaps EXCEPT ![p] = @ + 1]
  /\ UNCHANGED <<charged, state, open>>

Settle(p) ==
  /\ paidBack[p] > 0
  /\ state' = [state EXCEPT ![p] = "returned"]
  /\ UNCHANGED <<charged, open, paidBack, mishaps>>

\* A refund that was made is forgotten before the row shows it.
Forget(p) ==
  /\ paidBack[p] > 0
  /\ open' = [open EXCEPT ![p] = @ + 1]
  /\ mishaps' = [mishaps EXCEPT ![p] = @ + 1]
  /\ UNCHANGED <<charged, state, paidBack>>

\* A claim is given up. While it is the row's, the money may be kept again;
\* the claim of a thread that died stays in the row.
Release(p) ==
  /\ open[p] > 0
  /\ open' = [open EXCEPT ![p] = @ - 1]
  /\ \/ state[p] = "returning" /\ state' = [state EXCEPT ![p] = "kept"]
     \/ UNCHANGED state
  /\ UNCHANGED <<charged, paidBack, mishaps>>

\* Somebody who knows nothing of refunds writes the row.
Overwrite(p) ==
  /\ mishaps' = [mishaps EXCEPT ![p] = @ + 1]
  /\ \E s \in States : state' = [state EXCEPT ![p] = s]
  /\ UNCHANGED <<charged, open, paidBack>>

Next == \E p \in Payments :
  \/ Charge(p) \/ Claim(p) \/ PayBack(p) \/ PayBackUnheard(p)
  \/ Settle(p) \/ Forget(p) \/ Release(p) \/ Overwrite(p)

Spec == Init /\ [][Next]_books

(* Money goes back once, and once more for each mishap at most. *)
PaidBackOnce == \A p \in Payments : paidBack[p] <= 1 + mishaps[p]

(* The open claims count as refunds that may still be made; while the money is
   kept nothing but mishaps has given it back. *)
ClaimsCounted ==
  \A p \in Payments :
    /\ paidBack[p] + open[p] <= 1 + mishaps[p]
    /\ state[p] = "kept" => paidBack[p] + open[p] <= mishaps[p]
=============================================================================
