-------------------------- MODULE MCOrderLifecycle --------------------------
(* Instances of OrderLifecycle for TLC. *)
EXTENDS OrderLifecycle, TLC

\* Threads of one kind are interchangeable.
Interchangeable ==
  Permutations(Customers) \cup Permutations(Callbacks) \cup Permutations(Desk)
=============================================================================
