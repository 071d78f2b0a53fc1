------------------------------- MODULE MCOrders -------------------------------
(* Instances of Orders for TLC. *)
EXTENDS Orders, TLC

\* Handlers are interchangeable; sound for the safety runs only.
Symmetry == Permutations(Reqs)
=============================================================================
