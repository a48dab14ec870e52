------------------------------ MODULE MCGateway ------------------------------
(* Instances of Gateway for TLC: users and requests are interchangeable. *)
EXTENDS Gateway, TLC

Symmetry == Permutations(Users) \cup Permutations(Requests)
=============================================================================
