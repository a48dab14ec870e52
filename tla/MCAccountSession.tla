-------------------------- MODULE MCAccountSession --------------------------
(* Instances of AccountSession for TLC: each account has a pool of client  *)
(* objects, one per slot.                                                  *)
EXTENDS AccountSession, TLC, Functions

CONSTANT Slots

MCClients == Accounts \X Slots
MCOwner == [c \in MCClients |-> c[1]]

MCRegistered ==
    CHOOSE f \in [Accounts -> Numbers] : IsInjective(f)

\* Only phones with another number than a registered one scan a code.
MCWrongNumbers == Numbers \ Range(MCRegistered)

\* Slots and goroutines are interchangeable.
Symmetry == Permutations(Slots) \cup Permutations(Tasks)
=============================================================================
