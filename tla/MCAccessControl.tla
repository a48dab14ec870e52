-------------------------- MODULE MCAccessControl ---------------------------
(* Instances of AccessControl for TLC: the built-in role starts with all   *)
(* the permissions there are.                                              *)
EXTENDS AccessControl, TLC

MCSeed == [k \in BuiltIn |-> Permissions]
Symmetry == Permutations(Tokens) \cup Permutations(Requests)
=============================================================================
