--------------------------- MODULE MCEventBookings ---------------------------
(* Instances of EventBookings for TLC. *)
EXTENDS EventBookings, TLC

\* A couple and two who come alone: two seats are too few for all of them.
Parties == [b \in Guests |-> IF b = AnyGuest THEN 2 ELSE 1]

Interchangeable == Permutations(Cancels) \cup Permutations(Confirms) \cup Permutations(Editors)
=============================================================================
