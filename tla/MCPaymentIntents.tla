-------------------------- MODULE MCPaymentIntents --------------------------
(* Instances of PaymentIntents for TLC. *)
EXTENDS PaymentIntents, TLC

\* Threads of one kind are interchangeable.
Interchangeable ==
  Permutations(Requests) \cup Permutations(Pollers) \cup Permutations(Deliveries)
=============================================================================
