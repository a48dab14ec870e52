----------------------------- MODULE AccountBook -----------------------------
(***************************************************************************)
(* What the account manager promises about accounts, without maps, locks   *)
(* or requests: an account is entered once, under a number of its own; it  *)
(* is served only while it is in the book, and struck out only when it is  *)
(* not served; an account that was struck out never returns, although its  *)
(* number may, under another account.                                      *)
(***************************************************************************)

CONSTANTS
    Ids,
    Numbers, NoNumber

VARIABLES
    given,      \* ids that were given out
    number,     \* number[i]: NoNumber unless i is in the book
    served      \* accounts that requests can reach

vars == <<given, number, served>>

Booked(i) == number[i] # NoNumber

Init ==
    /\ given = {} /\ served = {}
    /\ number = [i \in Ids |-> NoNumber]

Free(p, i) == \A j \in Ids \ {i} : number[j] # p

Enter(i, p) ==
    /\ i \notin given /\ Free(p, i)
    /\ given' = given \cup {i}
    /\ number' = [number EXCEPT ![i] = p]
    /\ UNCHANGED served

\* An id is lost on an account that could not be entered.
Waste(i) ==
    /\ i \notin given
    /\ given' = given \cup {i}
    /\ UNCHANGED <<number, served>>

Serve(i) ==
    /\ Booked(i) /\ i \notin served
    /\ served' = served \cup {i}
    /\ UNCHANGED <<given, number>>

Withdraw(i) ==
    /\ i \in served
    /\ served' = served \ {i}
    /\ UNCHANGED <<given, number>>

Strike(i) ==
    /\ Booked(i) /\ i \notin served
    /\ number' = [number EXCEPT ![i] = NoNumber]
    /\ UNCHANGED <<given, served>>

Renumber(i, p) ==
    /\ Booked(i) /\ Free(p, i)
    /\ number' = [number EXCEPT ![i] = p]
    /\ UNCHANGED <<given, served>>

\* After a restart every account in the book is served, or none is, when the
\* book cannot be read: no account is ever left out alone.
Reopen ==
    /\ served' \in {{}, {i \in Ids : Booked(i)}}
    /\ UNCHANGED <<given, number>>

Next ==
    \/ \E i \in Ids :
          \/ Waste(i) \/ Serve(i) \/ Withdraw(i) \/ Strike(i)
          \/ \E p \in Numbers : Enter(i, p) \/ Renumber(i, p)
    \/ Reopen

Spec == Init /\ [][Next]_vars

=============================================================================
