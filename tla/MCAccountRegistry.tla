------------------------- MODULE MCAccountRegistry -------------------------
(* Instances of AccountRegistry for TLC: UUIDs, numbers, proxies and       *)
(* requests are interchangeable.                                           *)
EXTENDS AccountRegistry, TLC

Symmetry ==
    Permutations(Ids) \cup Permutations(Phones) \cup Permutations(Proxies)
        \cup Permutations(Requests)
=============================================================================
