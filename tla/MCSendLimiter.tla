---------------------------- MODULE MCSendLimiter ----------------------------
(* Instances of SendLimiter for TLC: requests are interchangeable. *)
EXTENDS SendLimiter, TLC

Symmetry == Permutations(Senders)
=============================================================================
